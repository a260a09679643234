------------------------ MODULE LibraryIndexerProofs ------------------------
(***************************************************************************)
(* Proofs about LibraryIndexer for every tree of folders and files and every  *)
(* bound: what a scan may store, and what the table then holds.             *)
(***************************************************************************)
EXTENDS LibraryIndexer, FiniteSetTheorems, SequenceTheorems, TLAPS

(***************************************************************************)
(* Sequences and tables.                                                   *)
(***************************************************************************)

LEMMA EntriesOfSeq ==
  ASSUME NEW S, NEW s \in Seq(S)
  PROVE  s \in Seq(Entries(s)) /\ Entries(s) \subseteq S
  BY DEF Entries

LEMMA SeqOfEntries ==
  ASSUME NEW S, NEW s, s \in Seq(Entries(s)), Entries(s) \subseteq S
  PROVE  s \in Seq(S)
  BY DEF Entries

LEMMA AppendEntries ==
  ASSUME NEW S, NEW s \in Seq(S), NEW e \in S
  PROVE  Append(s, e) \in Seq(S) /\ Entries(Append(s, e)) = Entries(s) \cup {e}
<1>1. Append(s, e) \in Seq(S) /\ Len(Append(s, e)) = Len(s) + 1
  OBVIOUS
<1>2. \A i \in 1 .. Len(s) : Append(s, e)[i] = s[i]
  OBVIOUS
<1>3. Append(s, e)[Len(s) + 1] = e
  OBVIOUS
<1> QED BY <1>1, <1>2, <1>3 DEF Entries

LEMMA TailEntries ==
  ASSUME NEW S, NEW s \in Seq(S), s # <<>>
  PROVE  /\ Tail(s) \in Seq(S) /\ Entries(Tail(s)) \subseteq Entries(s)
         /\ Head(s) \in Entries(s) /\ Head(s) \in S
  BY DEF Entries

(* A sequence without its element at i. *)
CutAt(s, i) == SubSeq(s, 1, i - 1) \o SubSeq(s, i + 1, Len(s))

LEMMA CutProperties ==
  ASSUME NEW S, NEW s \in Seq(S), NEW i \in DOMAIN s
  PROVE  /\ CutAt(s, i) \in Seq(S) /\ Len(CutAt(s, i)) = Len(s) - 1
         /\ \A j \in 1 .. i - 1 : CutAt(s, i)[j] = s[j]
         /\ \A j \in i .. Len(s) - 1 : CutAt(s, i)[j] = s[j + 1]
<1>1. i \in 1 .. Len(s) /\ Len(s) \in Nat
  OBVIOUS
<1> DEFINE a == SubSeq(s, 1, i - 1)
           b == SubSeq(s, i + 1, Len(s))
<1>2. a \in Seq(S) /\ Len(a) = i - 1 /\ \A j \in 1 .. i - 1 : a[j] = s[j]
  BY <1>1
<1>3. /\ b \in Seq(S) /\ Len(b) = Len(s) - i
      /\ \A j \in 1 .. Len(s) - i : b[j] = s[i + j]
  BY <1>1
<1> HIDE DEF a, b
<1>a. PICK t : t = a \o b
  OBVIOUS
<1>4. /\ t \in Seq(S) /\ Len(t) = Len(s) - 1
      /\ \A j \in 1 .. i - 1 : t[j] = s[j]
      /\ \A j \in i .. Len(s) - 1 : t[j] = s[j + 1]
  <2>1. /\ t \in Seq(S) /\ Len(t) = Len(a) + Len(b)
        /\ \A j \in 1 .. Len(a) + Len(b) :
             t[j] = IF j <= Len(a) THEN a[j] ELSE b[j - Len(a)]
    BY <1>2, <1>3, <1>a, ConcatProperties
  <2>2. /\ t \in Seq(S) /\ Len(t) = Len(s) - 1
        /\ \A j \in 1 .. Len(s) - 1 : t[j] = IF j <= i - 1 THEN a[j] ELSE b[j - (i - 1)]
    <3>1. Len(a) + Len(b) = Len(s) - 1 /\ Len(a) = i - 1
      BY <1>1, <1>2, <1>3
    <3> QED BY <2>1, <3>1
  <2>3. ASSUME NEW j \in 1 .. i - 1 PROVE t[j] = s[j]
    <3>1. j \in 1 .. Len(s) - 1 /\ j <= i - 1
      BY <1>1
    <3> QED BY <3>1, <2>2, <1>2
  <2>4. ASSUME NEW j \in i .. Len(s) - 1 PROVE t[j] = s[j + 1]
    <3>1. /\ j \in 1 .. Len(s) - 1 /\ ~(j <= i - 1)
          /\ j - (i - 1) \in 1 .. Len(s) - i /\ i + (j - (i - 1)) = j + 1
      BY <1>1
    <3>2. t[j] = b[j - (i - 1)]
      BY <3>1, <2>2
    <3>3. b[j - (i - 1)] = s[i + (j - (i - 1))]
      BY <3>1, <1>3
    <3> QED BY <3>1, <3>2, <3>3
  <2> QED BY <2>2, <2>3, <2>4
<1> QED BY <1>a, <1>4 DEF a, b, CutAt

LEMMA RemoveEntries ==
  ASSUME NEW S, NEW s \in Seq(S), NEW i \in DOMAIN s
  PROVE  /\ CutAt(s, i) \in Seq(S)
         /\ Entries(s) \ {s[i]} \subseteq Entries(CutAt(s, i))
<1>1. i \in 1 .. Len(s) /\ Len(s) \in Nat
  OBVIOUS
<1>a. PICK t : t = CutAt(s, i)
  OBVIOUS
<1>4. /\ t \in Seq(S) /\ Len(t) = Len(s) - 1
      /\ \A j \in 1 .. i - 1 : t[j] = s[j]
      /\ \A j \in i .. Len(s) - 1 : t[j] = s[j + 1]
  BY <1>a, CutProperties
<1>5. DOMAIN t = 1 .. Len(s) - 1 /\ DOMAIN s = 1 .. Len(s)
  BY <1>4
<1>6. ASSUME NEW j \in 1 .. Len(s), j # i PROVE \E k \in DOMAIN t : t[k] = s[j]
  <2>1. CASE j < i
    <3>1. j \in 1 .. i - 1 /\ j \in DOMAIN t
      BY <1>1, <1>5, <2>1
    <3> QED BY <3>1, <1>4
  <2>2. CASE j > i
    <3>1. j - 1 \in i .. Len(s) - 1 /\ j - 1 \in DOMAIN t /\ (j - 1) + 1 = j
      BY <1>1, <1>5, <2>2
    <3>2. t[j - 1] = s[(j - 1) + 1]
      BY <3>1, <1>4
    <3> QED BY <3>1, <3>2
  <2>3. j < i \/ j > i
    BY <1>1, <1>6
  <2> QED BY <2>1, <2>2, <2>3, Zenon
<1>7. Entries(s) \ {s[i]} \subseteq Entries(t)
  BY <1>5, <1>6 DEF Entries
<1> QED BY <1>a, <1>4, <1>7

(* Where all the others differ, they still do. *)
LEMMA CutDiffers ==
  ASSUME NEW S, NEW s \in Seq(S), NEW i \in DOMAIN s,
         \A j, k \in DOMAIN s : s[j] = s[k] => j = k
  PROVE  /\ s[i] \notin Entries(CutAt(s, i))
         /\ \A j, k \in DOMAIN CutAt(s, i) : CutAt(s, i)[j] = CutAt(s, i)[k] => j = k
<1>1. i \in 1 .. Len(s) /\ Len(s) \in Nat
  OBVIOUS
<1>2. PICK t : t = CutAt(s, i)
  OBVIOUS
<1>3. /\ t \in Seq(S) /\ Len(t) = Len(s) - 1
      /\ \A j \in 1 .. i - 1 : t[j] = s[j]
      /\ \A j \in i .. Len(s) - 1 : t[j] = s[j + 1]
  BY <1>2, CutProperties
<1> DEFINE old(j) == IF j < i THEN j ELSE j + 1
<1>4. ASSUME NEW j \in DOMAIN t PROVE old(j) \in DOMAIN s /\ old(j) # i /\ t[j] = s[old(j)]
  <2>1. j \in 1 .. Len(s) - 1
    BY <1>3
  <2>2. CASE j < i
    BY <1>1, <1>3, <2>1, <2>2
  <2>3. CASE ~(j < i)
    BY <1>1, <1>3, <2>1, <2>3
  <2> QED BY <2>2, <2>3
<1>5. ASSUME NEW j \in DOMAIN t, NEW k \in DOMAIN t, t[j] = t[k] PROVE j = k
  <2>1. old(j) = old(k) /\ j \in Nat /\ k \in Nat
    BY <1>3, <1>4, <1>5
  <2> QED BY <1>1, <2>1
<1> HIDE DEF old
<1>6. s[i] \notin Entries(t)
  BY <1>4 DEF Entries
<1> QED BY <1>2, <1>5, <1>6

LEMMA AppendDiffers ==
  ASSUME NEW S, NEW s \in Seq(S), NEW e \in S, e \notin Entries(s),
         \A j, k \in DOMAIN s : s[j] = s[k] => j = k
  PROVE  \A j, k \in DOMAIN Append(s, e) : Append(s, e)[j] = Append(s, e)[k] => j = k
<1>1. PICK t : t = Append(s, e)
  OBVIOUS
<1>2. /\ t \in Seq(S) /\ Len(t) = Len(s) + 1 /\ t[Len(s) + 1] = e
      /\ \A j \in 1 .. Len(s) : t[j] = s[j]
  BY <1>1
<1>3. ASSUME NEW j \in DOMAIN t
      PROVE  (j \in DOMAIN s /\ t[j] = s[j]) \/ (j = Len(s) + 1 /\ t[j] = e)
  <2>1. j \in 1 .. Len(s) + 1 /\ Len(s) \in Nat /\ DOMAIN s = 1 .. Len(s)
    BY <1>2
  <2> QED BY <1>2, <2>1
<1>4. ASSUME NEW j \in DOMAIN t, NEW k \in DOMAIN t, t[j] = t[k] PROVE j = k
  BY <1>3, <1>4 DEF Entries
<1> QED BY <1>1, <1>4

LEMMA TableRows ==
  ASSUME NEW rows
  PROVE  IsTable(rows) <=> /\ DOMAIN rows \subseteq Files
                           /\ rows \in [DOMAIN rows -> Row]
  BY DEF IsTable

LEMMA NoRowsTable == IsTable(NoRows) /\ DOMAIN NoRows = {}
  BY TableRows DEF NoRows

LEMMA WithTable ==
  ASSUME NEW rows, IsTable(rows), NEW f \in Files, NEW row \in Row
  PROVE  /\ IsTable(With(rows, f, row))
         /\ DOMAIN With(rows, f, row) = DOMAIN rows \cup {f}
         /\ With(rows, f, row)[f] = row
         /\ \A g \in DOMAIN rows \ {f} : With(rows, f, row)[g] = rows[g]
  BY TableRows DEF With

LEMMA WithoutTable ==
  ASSUME NEW rows, IsTable(rows), NEW files
  PROVE  /\ IsTable(Without(rows, files))
         /\ DOMAIN Without(rows, files) = DOMAIN rows \ files
         /\ \A f \in DOMAIN rows \ files : Without(rows, files)[f] = rows[f]
  BY TableRows DEF Without

(* A row that another folder takes over. *)
Adopted(row, old, r) ==
  /\ row.root = r /\ row.stat = old.stat /\ row.metadata = old.metadata /\ row.artwork = old.artwork

LEMMA StoredTable ==
  ASSUME NEW rows, IsTable(rows), NEW new, IsTable(new), NEW r \in Roots
  PROVE  /\ IsTable(Stored(rows, r, new))
         /\ DOMAIN Stored(rows, r, new) = DOMAIN rows \cup DOMAIN new
         /\ \A f \in DOMAIN new : Adopted(Stored(rows, r, new)[f], new[f], r)
         /\ \A f \in DOMAIN rows \ DOMAIN new : Stored(rows, r, new)[f] = rows[f]
<1>1. \A f \in DOMAIN new :
        [new[f] EXCEPT !.root = r] \in Row /\ Adopted([new[f] EXCEPT !.root = r], new[f], r)
  BY TableRows DEF Row, Adopted
<1> QED BY <1>1, TableRows DEF Stored

(***************************************************************************)
(* Parts of the invariant that a step leaves alone.                        *)
(***************************************************************************)

LEMMA WorldKept == ASSUME WorldOK, UNCHANGED world PROVE WorldOK'
  BY DEF WorldOK, world

LEMMA MainKept == ASSUME MainOK, UNCHANGED mainVars PROVE MainOK'
  BY DEF MainOK, mainVars, database, folderVars, watcher, IsTable

LEMMA RootKept == ASSUME RootOK, UNCHANGED rootVars PROVE RootOK'
  BY DEF RootOK, rootVars, IsTable

LEMMA BatchKept == ASSUME BatchOK, UNCHANGED batchVars PROVE BatchOK'
<1>1. Entries(batch)' = Entries(batch) /\ batch' = batch
  BY DEF batchVars, Entries
<1> QED BY <1>1 DEF BatchOK, batchVars, IsTable, IsScan

LEMMA ScanKept == ASSUME ScanOK, UNCHANGED scanVars PROVE ScanOK'
  BY RootKept, BatchKept DEF ScanOK, scanVars

LEMMA HistoryKept == ASSUME HistoryOK, UNCHANGED history PROVE HistoryOK'
  BY DEF HistoryOK, history

LEMMA FoldersKept == ASSUME UNCHANGED folderVars PROVE FolderSet' = FolderSet /\ revision' = revision
  BY DEF FolderSet, Entries, folderVars

LEMMA OwnedKept == ASSUME OwnedRows, UNCHANGED <<database, folderVars>> PROVE OwnedRows'
  BY FoldersKept DEF OwnedRows, database

(* What one scan says of its rows and folders does not change with it alone. *)
LEMMA SameScan ==
  ASSUME UNCHANGED scanVars
  PROVE  /\ ScannedRoots' = ScannedRoots
         /\ UNCHANGED <<scan, step, root, found, stat, current, previous, todo, batch, scanRevision>>
<1>1. UNCHANGED <<scan, step, root, found, stat, current, previous, todo, batch, scanRevision>>
  BY DEF scanVars, rootVars, batchVars
<1> QED BY <1>1 DEF ScannedRoots, Entries

LEMMA ScanInvKept ==
  ASSUME ScanInv, UNCHANGED <<scanVars, folderVars>> PROVE ScanInv'
<1>1. ScannedRoots' = ScannedRoots /\ FolderSet' = FolderSet /\ revision' = revision
  BY SameScan, FoldersKept
<1>2. UNCHANGED <<scan, step, root, found, current, previous, todo, batch, scanRevision>>
  BY SameScan
<1>3. NoRows' = NoRows
  BY DEF NoRows
<1> QED BY <1>1, <1>2, <1>3, Zenon DEF ScanInv

(* The scan in progress is of no interest to folders that came after it. *)
LEMMA ScanInvOutdated ==
  ASSUME TypeOK, ScanInv, UNCHANGED scanVars, scan # "applying", revision' = revision + 1
  PROVE  ScanInv'
<1>1. UNCHANGED <<scan, step, root, found, current, previous, todo, batch, scanRevision>>
  BY SameScan
<1>2. scanRevision \in Nat /\ revision \in Nat /\ scanRevision <= revision
  BY DEF TypeOK, ScanOK, BatchOK, MainOK, ScanInv
<1>3. scanRevision' <= revision' /\ scanRevision' # revision' /\ scan' # "applying"
  BY <1>1, <1>2
<1>4. NoRows' = NoRows
  BY DEF NoRows
<1> QED BY <1>1, <1>3, <1>4, Zenon DEF ScanInv

LEMMA KnownTables == ASSUME TypeOK PROVE \A rows \in KnownRows : IsTable(rows)
  BY DEF TypeOK, MainOK, ScanOK, RootOK, BatchOK, KnownRows, IsScan

(* Rows stay good as long as none is added and nothing is written or removed. *)
LEMMA RowsKept ==
  ASSUME RowsInv, KnownRows' \subseteq KnownRows \cup {NoRows},
         UNCHANGED <<disk, lastVersion, artworkCache>>, stat' \in {0, stat}, lastVersion \in Nat
  PROVE  RowsInv'
<1>1. stat' <= lastVersion' /\ \A f \in Files : disk'[f] <= lastVersion'
  BY DEF RowsInv
<1>2. ASSUME NEW rows \in KnownRows', NEW f \in DOMAIN rows PROVE GoodRow(f, rows[f])'
  <2>1. rows \in KnownRows
    BY <1>2, NoRowsTable
  <2>2. GoodRow(f, rows[f])
    BY <1>2, <2>1 DEF RowsInv
  <2> QED BY <2>2 DEF GoodRow
<1> QED BY <1>1, <1>2 DEF RowsInv

LEMMA SameRows ==
  ASSUME UNCHANGED <<tracks, previous, found, batch>> PROVE KnownRows' = KnownRows
  BY DEF KnownRows, Entries

(***************************************************************************)
(* Starting a scan, and having none.                                       *)
(***************************************************************************)

LEMMA AtNoRootOK == ASSUME AtNoRoot("next") PROVE RootOK' /\ found' = NoRows /\ stat' = 0 /\ step' = "next"
  BY NoRowsTable DEF AtNoRoot, RootOK, IsTable

LEMMA EmptyBatch == Entries(<<>>) = {} /\ <<>> \in Seq({})
  BY DEF Entries

LEMMA ScanStarts ==
  ASSUME NEW rows, IsTable(rows), NEW roots \in Seq(Roots), NEW rev \in Nat,
         StartScan(rows, roots, rev), LimitsAssumption
  PROVE  /\ ScanOK' /\ lost' \subseteq Files
         /\ scan' = "running" /\ step' = "next" /\ current' = None /\ stat' = 0
         /\ scanRevision' = rev /\ ScannedRoots' = Entries(roots)
         /\ found' = NoRows /\ previous' = rows
         /\ KnownRows' = {tracks', rows, NoRows}
<1>1. RootOK' /\ found' = NoRows /\ stat' = 0 /\ step' = "next" /\ current' = None
  BY AtNoRootOK DEF StartScan, AtNoRoot
<1>2. batch' = <<>> /\ Entries(batch)' = {}
  BY EmptyBatch DEF StartScan, Entries
<1>3. BatchOK'
  BY <1>2, EmptyBatch DEF StartScan, BatchOK, IsTable, LimitsAssumption
<1>4. todo' = roots /\ ScannedRoots' = Entries(roots)
  BY <1>2 DEF StartScan, ScannedRoots, Entries
<1>5. KnownRows' = {tracks', rows, NoRows}
  BY <1>1, <1>2 DEF StartScan, KnownRows
<1> QED BY <1>1, <1>3, <1>4, <1>5 DEF StartScan, ScanOK

LEMMA ScanStops ==
  ASSUME NoScan, LimitsAssumption
  PROVE  /\ ScanOK' /\ lost' \subseteq Files
         /\ scan' = "idle" /\ step' = "next" /\ current' = None /\ stat' = 0
         /\ scanRevision' = 0 /\ ScannedRoots' = {}
         /\ found' = NoRows /\ previous' = NoRows
         /\ KnownRows' = {tracks', NoRows}
<1>1. RootOK' /\ found' = NoRows /\ stat' = 0 /\ step' = "next" /\ current' = None
  BY AtNoRootOK DEF NoScan, AtNoRoot
<1>2. batch' = <<>> /\ todo' = <<>> /\ Entries(batch)' = {} /\ Entries(todo)' = {}
  BY EmptyBatch DEF NoScan, Entries
<1>3. BatchOK'
  BY <1>2, EmptyBatch, NoRowsTable DEF NoScan, BatchOK, IsTable, LimitsAssumption
<1>4. ScannedRoots' = {}
  BY <1>2 DEF ScannedRoots
<1>5. KnownRows' = {tracks', NoRows}
  BY <1>1, <1>2 DEF NoScan, KnownRows
<1> QED BY <1>1, <1>3, <1>4, <1>5 DEF NoScan, ScanOK

LEMMA ScanInvAtStart ==
  ASSUME NEW rows, IsTable(rows), NEW roots \in Seq(Roots), NEW rev \in Nat,
         StartScan(rows, roots, rev), rev = revision',
         Entries(roots) \subseteq FolderSet'
  PROVE  ScanInv'
<1>1. NoRows' = NoRows
  BY DEF NoRows
<1> QED BY <1>1, ScanStarts, LimitsAssumption DEF ScanInv

LEMMA ScanInvAtStop ==
  ASSUME NoScan, revision' \in Nat PROVE ScanInv'
<1>1. NoRows' = NoRows
  BY DEF NoRows
<1>2. 0 <= revision'
  OBVIOUS
<1> QED BY <1>1, <1>2, ScanStops, LimitsAssumption DEF ScanInv

(* rescan() after folders and rows have changed: the rows that are left are    *)
(* good, and the folders of a scan that runs on are out of date or the same.  *)
LEMMA RescanStep ==
  ASSUME CopiesInv, NEW rows, IsTable(rows), NEW roots \in Seq(Roots), NEW rev \in Nat,
         tracks' = rows, folders' = roots, revision' = rev,
         Rescan(rows, roots, rev), MainIdle,
         (rev = revision /\ roots = folders) \/ rev = revision + 1,
         \A f \in DOMAIN rows : f \in DOMAIN tracks /\ rows[f] = tracks[f],
         UNCHANGED <<disk, lastVersion, artworkCache>>
  PROVE  /\ ScanOK' /\ HistoryOK' /\ pending' \in BOOLEAN /\ ScanInv' /\ RowsInv'
<1> USE DEF CopiesInv
<1>1. CASE scan = "running" \/ failing
  <2>1. UNCHANGED scanVars /\ HistoryOK' /\ pending' \in BOOLEAN
    BY <1>1 DEF Rescan, TypeOK, HistoryOK, history, MainOK
  <2>2. ScanOK'
    BY <2>1, ScanKept DEF TypeOK
  <2>3. ScanInv'
    <3>1. CASE rev = revision /\ roots = folders
      BY <3>1, <2>1, ScanInvKept DEF folderVars
    <3>2. CASE rev = revision + 1
      BY <3>2, <2>1, ScanInvOutdated DEF MainIdle
    <3> QED BY <3>1, <3>2
  <2>4. RowsInv'
    <3>1. /\ stat' = stat /\ found' = found /\ previous' = previous
          /\ Entries(batch)' = Entries(batch)
      BY <2>1, SameScan DEF Entries
    <3>2. stat' <= lastVersion' /\ \A f \in Files : disk'[f] <= lastVersion'
      BY <3>1 DEF RowsInv
    <3>3. ASSUME NEW rs \in KnownRows', NEW f \in DOMAIN rs PROVE GoodRow(f, rs[f])'
      <4>1. PICK old \in KnownRows : f \in DOMAIN old /\ old[f] = rs[f]
        BY <3>1, <3>3 DEF KnownRows
      <4>2. GoodRow(f, rs[f])
        BY <4>1 DEF RowsInv
      <4> QED BY <4>2 DEF GoodRow
    <3> QED BY <3>2, <3>3 DEF RowsInv
  <2> QED BY <2>1, <2>2, <2>3, <2>4
<1>2. CASE scan # "running" /\ ~failing
  <2>1. StartScan(rows, roots, rev) /\ UNCHANGED <<pending, missed>>
    BY <1>2 DEF Rescan
  <2>2. ScanOK' /\ HistoryOK' /\ pending' \in BOOLEAN
    BY <2>1, ScanStarts, LimitsAssumption DEF HistoryOK, TypeOK, MainOK
  <2>3. ScanInv'
    BY <2>1, ScanInvAtStart DEF FolderSet
  <2>4. RowsInv'
    <3>1. /\ stat' = 0 /\ KnownRows' = {rows, NoRows}
      BY <2>1, ScanStarts, LimitsAssumption
    <3>2. stat' <= lastVersion' /\ \A f \in Files : disk'[f] <= lastVersion'
      BY <3>1 DEF RowsInv, TypeOK, WorldOK
    <3>3. ASSUME NEW rs \in KnownRows', NEW f \in DOMAIN rs PROVE GoodRow(f, rs[f])'
      <4>1. f \in DOMAIN tracks /\ tracks[f] = rs[f]
        BY <3>1, <3>3, NoRowsTable
      <4>2. GoodRow(f, rs[f])
        BY <4>1 DEF RowsInv, KnownRows
      <4> QED BY <4>2 DEF GoodRow
    <3> QED BY <3>2, <3>3 DEF RowsInv
  <2> QED BY <2>2, <2>3, <2>4
<1> QED BY <1>1, <1>2

(***************************************************************************)
(* Steps of the event loop.                                                *)
(***************************************************************************)

LEMMA OneMoreEvent ==
  ASSUME WorldOK, Happens, UNCHANGED <<disk, lastVersion, away, failing>> PROVE WorldOK'
BY LimitsAssumption DEF WorldOK, Happens

LEMMA StutterStep == ASSUME CopiesInv, UNCHANGED vars PROVE CopiesInv'
<1> USE DEF CopiesInv
<1>1. UNCHANGED <<world, mainVars, scanVars, history>>
  BY DEF vars
<1>2. TypeOK'
  BY <1>1, WorldKept, MainKept, ScanKept, HistoryKept DEF TypeOK
<1>3. ScanInv' /\ OwnedRows'
  BY <1>1, ScanInvKept, OwnedKept DEF mainVars
<1>4. RowsInv'
  BY <1>1, RowsKept, SameRows, SameScan
     DEF world, mainVars, database, scanVars, rootVars, batchVars, TypeOK, WorldOK
<1> QED BY <1>2, <1>3, <1>4

LEMMA NoticedStep == ASSUME CopiesInv, Noticed PROVE CopiesInv'
<1> USE DEF CopiesInv
<1>1. UNCHANGED <<world, database, folderVars, pending, watched, synchronized, scanVars, history>>
  BY DEF Noticed
<1>2. MainOK'
  BY <1>1 DEF Noticed, MainOK, TypeOK, database, folderVars, IsTable
<1>3. TypeOK'
  BY <1>1, <1>2, WorldKept, ScanKept, HistoryKept DEF TypeOK
<1>4. ScanInv' /\ OwnedRows'
  BY <1>1, ScanInvKept, OwnedKept
<1>5. RowsInv'
  BY <1>1, RowsKept, SameRows, SameScan
     DEF world, database, scanVars, rootVars, batchVars, TypeOK, WorldOK
<1> QED BY <1>3, <1>4, <1>5

LEMMA AddFolderStep == ASSUME CopiesInv, NEW r \in Roots, AddFolder(r) PROVE CopiesInv'
<1> USE DEF CopiesInv
<1>1. PICK roots, rev : roots = folders' /\ rev = revision'
  OBVIOUS
<1>2. roots \in Seq(Roots) /\ Entries(roots) = FolderSet \cup {r}
  <2>1. folders \in Seq(Roots) /\ folders' = Append(folders, r)
    BY DEF TypeOK, MainOK, AddFolder
  <2> QED BY <1>1, <2>1, AppendEntries DEF FolderSet
<1>3. rev \in Nat /\ rev = revision + 1
  BY <1>1 DEF TypeOK, MainOK, AddFolder
<1>4. /\ MainIdle
      /\ UNCHANGED <<disk, lastVersion, away, failing, database, debounce, watcher, synchronized>>
      /\ Rescan(tracks, roots, rev) /\ Happens
  BY <1>1 DEF AddFolder
<1>5. IsTable(tracks) /\ tracks' = tracks
  BY <1>4 DEF TypeOK, MainOK, database
<1>6. ScanOK' /\ HistoryOK' /\ pending' \in BOOLEAN /\ ScanInv' /\ RowsInv'
  BY <1>1, <1>2, <1>3, <1>4, <1>5, RescanStep DEF database
<1>7. WorldOK'
  BY <1>4, OneMoreEvent DEF TypeOK
<1>8. MainOK'
  BY <1>1, <1>2, <1>3, <1>4, <1>6 DEF TypeOK, MainOK, database, watcher, IsTable
<1>9. OwnedRows'
  BY <1>1, <1>2, <1>4 DEF OwnedRows, database, FolderSet
<1> QED BY <1>6, <1>7, <1>8, <1>9 DEF TypeOK

LEMMA RemoveFolderStep == ASSUME CopiesInv, NEW r \in Roots, RemoveFolder(r) PROVE CopiesInv'
<1> USE DEF CopiesInv
<1>1. PICK rows, roots, rev : rows = tracks' /\ roots = folders' /\ rev = revision'
  OBVIOUS
<1>2. roots \in Seq(Roots) /\ FolderSet \ {r} \subseteq Entries(roots)
  <2>1. folders \in Seq(Roots)
    BY DEF TypeOK, MainOK
  <2>2. PICK i \in DOMAIN folders : folders[i] = r /\ roots = CutAt(folders, i)
    BY <1>1 DEF RemoveFolder, CutAt
  <2> QED BY <2>1, <2>2, RemoveEntries DEF FolderSet
<1>3. rev \in Nat /\ rev = revision + 1
  BY <1>1 DEF TypeOK, MainOK, RemoveFolder
<1>4. /\ MainIdle /\ Happens
      /\ UNCHANGED <<disk, lastVersion, away, failing, artworkCache, debounce, watcher, synchronized>>
      /\ Rescan(rows, roots, rev) /\ storedFolders' = storedFolders \ {r}
  BY <1>1 DEF RemoveFolder
<1>5. /\ IsTable(rows) /\ DOMAIN rows = DOMAIN tracks \ OwnedBy(tracks, r)
      /\ \A f \in DOMAIN rows : f \in DOMAIN tracks /\ rows[f] = tracks[f]
  <2>1. rows = Without(tracks, OwnedBy(tracks, r)) /\ IsTable(tracks)
    BY <1>1 DEF RemoveFolder, FolderRemoved, TypeOK, MainOK
  <2> QED BY <2>1, WithoutTable
<1>6. ScanOK' /\ HistoryOK' /\ pending' \in BOOLEAN /\ ScanInv' /\ RowsInv'
  BY <1>1, <1>2, <1>3, <1>4, <1>5, RescanStep
<1>7. WorldOK'
  BY <1>4, OneMoreEvent DEF TypeOK
<1>8. MainOK'
  BY <1>1, <1>2, <1>3, <1>4, <1>5, <1>6 DEF TypeOK, MainOK, watcher, IsTable
<1>9. OwnedRows'
  <2>1. \A f \in DOMAIN rows : rows[f].root \in storedFolders \ {r}
    BY <1>5 DEF OwnedRows, OwnedBy
  <2> QED BY <1>1, <1>2, <1>4, <2>1 DEF OwnedRows, FolderSet
<1> QED BY <1>6, <1>7, <1>8, <1>9 DEF TypeOK

(* RescanClicked and DebounceFires. *)
LEMMA RepeatStep ==
  ASSUME CopiesInv, MainIdle, Rescan(tracks, folders, revision), debounce' \in {debounce, FALSE},
         UNCHANGED <<world, database, folderVars, watcher, synchronized>>
  PROVE  CopiesInv'
<1> USE DEF CopiesInv
<1>1. IsTable(tracks) /\ folders \in Seq(Roots) /\ revision \in Nat
  BY DEF TypeOK, MainOK
<1>2. tracks' = tracks /\ folders' = folders /\ revision' = revision
  BY DEF database, folderVars
<1>3. ScanOK' /\ HistoryOK' /\ pending' \in BOOLEAN /\ ScanInv' /\ RowsInv'
  BY <1>1, <1>2, RescanStep DEF database, world
<1>4. MainOK'
  BY <1>3 DEF TypeOK, MainOK, database, folderVars, watcher, IsTable
<1> QED BY <1>3, <1>4, WorldKept, OwnedKept DEF TypeOK

(* The rescan() after a scan is applied or dropped. *)
LEMMA RepeatAfterwards ==
  ASSUME CopiesInv, RescanAfter(folders) \/ (NoScan /\ missed' \subseteq Files),
         UNCHANGED <<tracks, folderVars, disk, lastVersion>>,
         \A f \in artworkCache \ artworkCache' : f \notin DOMAIN tracks \/ ~tracks[f].artwork
  PROVE  ScanOK' /\ HistoryOK' /\ ScanInv' /\ RowsInv'
<1> USE DEF CopiesInv
<1>1. IsTable(tracks) /\ folders \in Seq(Roots) /\ revision \in Nat
  BY DEF TypeOK, MainOK
<1>2. /\ FolderSet' = FolderSet /\ revision' = revision
      /\ FolderSet = Entries(folders)
  BY FoldersKept DEF FolderSet
<1>3. ASSUME stat' = 0, KnownRows' \subseteq {tracks, NoRows} PROVE RowsInv'
  <2>1. stat' <= lastVersion' /\ \A f \in Files : disk'[f] <= lastVersion'
    BY <1>3 DEF RowsInv, TypeOK, WorldOK
  <2>2. ASSUME NEW rows \in KnownRows', NEW f \in DOMAIN rows PROVE GoodRow(f, rows[f])'
    <3>1. rows = tracks /\ f \in DOMAIN tracks
      BY <1>3, <2>2, NoRowsTable
    <3>2. GoodRow(f, tracks[f])
      BY <3>1 DEF RowsInv, KnownRows
    <3> QED BY <3>1, <3>2 DEF GoodRow
  <2> QED BY <2>1, <2>2 DEF RowsInv
<1>4. CASE StartScan(tracks, folders, revision) /\ missed' = missed
  <2>1. ScanOK' /\ HistoryOK' /\ stat' = 0 /\ KnownRows' = {tracks', tracks, NoRows}
    BY <1>1, <1>4, ScanStarts, LimitsAssumption DEF TypeOK, HistoryOK
  <2>2. ScanInv'
    BY <1>1, <1>2, <1>4, ScanInvAtStart
  <2> QED BY <1>3, <2>1, <2>2
<1>5. CASE NoScan /\ missed' \subseteq Files
  <2>1. ScanOK' /\ HistoryOK' /\ stat' = 0 /\ KnownRows' = {tracks', NoRows}
    BY <1>5, ScanStops, LimitsAssumption DEF TypeOK, HistoryOK
  <2>2. ScanInv'
    BY <1>1, <1>2, <1>5, ScanInvAtStop
  <2> QED BY <1>3, <2>1, <2>2
<1>6. \/ StartScan(tracks, folders, revision) /\ missed' = missed
      \/ NoScan /\ missed' \subseteq Files
  BY DEF RescanAfter
<1> QED BY <1>4, <1>5, <1>6

LEMMA TakeResultStep == ASSUME CopiesInv, TakeResult PROVE CopiesInv'
<1> USE DEF CopiesInv
<1>1. UNCHANGED <<world, database, folderVars, debounce, watcher>> /\ scan = "finished"
  BY DEF TakeResult
<1>2. CASE RescanAfter(folders) /\ UNCHANGED synchronized
  <2>1. ScanOK' /\ HistoryOK' /\ ScanInv' /\ RowsInv'
    BY <1>1, <1>2, RepeatAfterwards DEF database, world
  <2>2. MainOK'
    BY <1>1, <1>2 DEF TypeOK, MainOK, RescanAfter, database, folderVars, watcher, IsTable
  <2> QED BY <1>1, <2>1, <2>2, WorldKept, OwnedKept DEF TypeOK
<1>3. CASE /\ ~Stale /\ scan' = "applying" /\ synchronized' = TRUE
           /\ UNCHANGED <<pending, rootVars, batchVars, history>>
  <2>1. TypeOK'
    <3>1. MainOK'
      BY <1>1, <1>3 DEF TypeOK, MainOK, database, folderVars, watcher, IsTable
    <3>2. ScanOK'
      BY <1>3, RootKept, BatchKept DEF TypeOK, ScanOK
    <3> QED BY <1>1, <1>3, <3>1, <3>2, WorldKept, HistoryKept DEF TypeOK
  <2>2. UNCHANGED <<step, root, found, stat, current, previous, todo, batch, scanRevision>>
    BY <1>3 DEF rootVars, batchVars
  <2>3. ScanInv'
    <3>1. FolderSet' = FolderSet /\ revision' = revision /\ ScannedRoots' = ScannedRoots
      BY <1>1, <2>2, FoldersKept DEF ScannedRoots, Entries
    <3>2. NoRows' = NoRows /\ scanRevision = revision
      BY <1>3 DEF NoRows, Stale
    <3> QED BY <1>1, <1>3, <2>2, <3>1, <3>2 DEF ScanInv
  <2>4. RowsInv'
    BY <1>1, <2>2, RowsKept, SameRows DEF world, database, TypeOK, WorldOK
  <2> QED BY <1>1, <2>1, <2>3, <2>4, OwnedKept
<1> QED BY <1>2, <1>3 DEF TakeResult

(* What storing one folder's scan makes of the table. *)
LEMMA StoringAScan ==
  ASSUME NEW rows, IsTable(rows), NEW new, IsTable(new), NEW r \in Roots,
         NEW seen, NEW whole
  PROVE  LET result == Synchronized(rows, r, new, seen, whole)
         IN  /\ IsTable(result)
             /\ \A f \in DOMAIN result :
                  \/ f \in DOMAIN new /\ Adopted(result[f], new[f], r)
                  \/ f \in DOMAIN rows /\ result[f] = rows[f]
<1>1. PICK stored : stored = Stored(rows, r, new)
  OBVIOUS
<1>2. PICK gone : gone = OwnedBy(stored, r) \ seen
  OBVIOUS
<1>3. PICK result : result = Synchronized(rows, r, new, seen, whole)
  OBVIOUS
<1>4. result = IF whole THEN Without(stored, gone) ELSE stored
  BY <1>1, <1>2, <1>3 DEF Synchronized
<1>5. /\ IsTable(stored) /\ DOMAIN stored = DOMAIN rows \cup DOMAIN new
      /\ \A f \in DOMAIN new : Adopted(stored[f], new[f], r)
      /\ \A f \in DOMAIN rows \ DOMAIN new : stored[f] = rows[f]
  <2>1. /\ IsTable(Stored(rows, r, new))
        /\ DOMAIN Stored(rows, r, new) = DOMAIN rows \cup DOMAIN new
        /\ \A f \in DOMAIN new : Adopted(Stored(rows, r, new)[f], new[f], r)
        /\ \A f \in DOMAIN rows \ DOMAIN new : Stored(rows, r, new)[f] = rows[f]
    BY StoredTable
  <2> QED BY <1>1, <2>1
<1>6. /\ IsTable(Without(stored, gone)) /\ DOMAIN Without(stored, gone) = DOMAIN stored \ gone
      /\ \A f \in DOMAIN stored \ gone : Without(stored, gone)[f] = stored[f]
  BY <1>5, WithoutTable
<1>7. IsTable(result) /\ \A f \in DOMAIN result : f \in DOMAIN stored /\ result[f] = stored[f]
  BY <1>4, <1>5, <1>6
<1> QED BY <1>3, <1>5, <1>7

LEMMA SynchronizeStep == ASSUME CopiesInv, Synchronize PROVE CopiesInv'
<1> USE DEF CopiesInv
<1>1. PICK s, rest : s = Head(batch) /\ rest = Tail(batch)
  OBVIOUS
<1>2. /\ s \in Entries(batch) /\ IsScan(s)
      /\ rest \in Seq(Entries(rest)) /\ Entries(rest) \subseteq Entries(batch)
  <2>1. batch \in Seq(Entries(batch)) /\ batch # <<>> /\ \A e \in Entries(batch) : IsScan(e)
    BY DEF TypeOK, ScanOK, BatchOK, Synchronize
  <2>2. rest \in Seq(Entries(batch)) /\ Entries(rest) \subseteq Entries(batch) /\ s \in Entries(batch)
    BY <1>1, <2>1, TailEntries
  <2> QED BY <2>1, <2>2, EntriesOfSeq
<1>3. s.root \in Roots /\ IsTable(s.found)
  BY <1>2 DEF IsScan
<1>4. /\ scan = "applying" /\ batch' = rest
      /\ UNCHANGED <<world, artworkCache, folderVars, pending, debounce, watcher, scan, rootVars,
                     scanRevision, previous, todo, batchDirs, slots, lost>>
      /\ \/ /\ tracks' = Synchronized(tracks, s.root, s.found, s.observed, s.complete)
            /\ storedFolders' = storedFolders \cup {s.root}
            /\ UNCHANGED <<synchronized, missed>>
         \/ /\ synchronized' = FALSE /\ missed' = missed \cup In(s.root)
            /\ UNCHANGED <<tracks, storedFolders>>
  BY <1>1 DEF Synchronize
<1>5. s.root \in FolderSet
  <2>1. s.root \in ScannedRoots /\ ScannedRoots \subseteq FolderSet
    BY <1>2, <1>4 DEF ScanInv, ScannedRoots
  <2> QED BY <2>1
<1>6. PICK rows : rows = tracks'
  OBVIOUS
<1>7. /\ IsTable(rows)
      /\ \A f \in DOMAIN rows :
           \/ /\ f \in DOMAIN s.found /\ Adopted(rows[f], s.found[f], s.root)
              /\ s.root \in storedFolders'
           \/ f \in DOMAIN tracks /\ rows[f] = tracks[f]
  <2>1. IsTable(tracks)
    BY DEF TypeOK, MainOK
  <2>2. CASE rows = tracks
    BY <2>1, <2>2
  <2>3. CASE /\ rows = Synchronized(tracks, s.root, s.found, s.observed, s.complete)
             /\ storedFolders' = storedFolders \cup {s.root}
    BY <1>3, <2>1, <2>3, StoringAScan
  <2> QED BY <1>4, <1>6, <2>2, <2>3
<1>8. TypeOK'
  <2>1. MainOK'
    BY <1>3, <1>4, <1>6, <1>7 DEF TypeOK, MainOK, folderVars, watcher, IsTable
  <2>2. BatchOK'
    <3>1. Entries(batch)' = Entries(rest)
      BY <1>4 DEF Entries
    <3>2. \A e \in Entries(rest) : IsScan(e)
      BY <1>2 DEF TypeOK, ScanOK, BatchOK
    <3> QED BY <1>2, <1>4, <3>1, <3>2 DEF TypeOK, ScanOK, BatchOK, IsTable, IsScan
  <2>3. HistoryOK'
    BY <1>4 DEF TypeOK, HistoryOK, In, HomeIn
  <2> QED BY <1>4, <2>1, <2>2, <2>3, WorldKept, RootKept DEF TypeOK, ScanOK
<1>9. UNCHANGED <<step, root, found, stat, current, previous, todo, scanRevision>>
  BY <1>4 DEF rootVars
<1>10. ScanInv'
  <2>1. FolderSet' = FolderSet /\ revision' = revision /\ ScannedRoots' \subseteq ScannedRoots
    BY <1>2, <1>4, <1>9, FoldersKept DEF ScannedRoots, Entries
  <2>2. NoRows' = NoRows
    BY DEF NoRows
  <2> QED BY <1>4, <1>9, <2>1, <2>2 DEF ScanInv
<1>11. OwnedRows'
  <2>1. \A f \in DOMAIN rows : rows[f].root \in storedFolders'
    <3>1. storedFolders \subseteq storedFolders'
      BY <1>4
    <3> QED BY <1>7, <3>1 DEF OwnedRows, Adopted
  <2>2. storedFolders' \subseteq FolderSet'
    BY <1>4, <1>5, FoldersKept DEF OwnedRows
  <2> QED BY <1>6, <2>1, <2>2 DEF OwnedRows
<1>12. RowsInv'
  <2>1. stat' <= lastVersion' /\ \A f \in Files : disk'[f] <= lastVersion'
    BY <1>4, <1>9 DEF RowsInv, world
  <2>2. ASSUME NEW rs \in KnownRows', NEW f \in DOMAIN rs PROVE GoodRow(f, rs[f])'
    <3>1. \/ rs = rows
          \/ rs \in KnownRows
      BY <1>2, <1>4, <1>6, <1>9 DEF KnownRows, Entries
    <3>2. GoodRow(f, rs[f])
      <4>1. CASE rs \in KnownRows
        BY <2>2, <4>1 DEF RowsInv
      <4>2. CASE rs = rows /\ f \in DOMAIN tracks /\ rows[f] = tracks[f]
        BY <4>2 DEF RowsInv, KnownRows
      <4>3. CASE rs = rows /\ f \in DOMAIN s.found /\ Adopted(rows[f], s.found[f], s.root)
        <5>1. GoodRow(f, s.found[f])
          BY <1>2, <4>3 DEF RowsInv, KnownRows
        <5> QED BY <4>3, <5>1 DEF GoodRow, Adopted
      <4> QED BY <1>7, <2>2, <3>1, <4>1, <4>2, <4>3
    <3> QED BY <1>4, <3>2 DEF GoodRow, world
  <2> QED BY <2>1, <2>2 DEF RowsInv
<1> QED BY <1>8, <1>10, <1>11, <1>12

LEMMA FinishApplyStep == ASSUME CopiesInv, FinishApply PROVE CopiesInv'
<1> USE DEF CopiesInv
<1>1. /\ scan = "applying" /\ batch = <<>> /\ synchronized' = TRUE
      /\ UNCHANGED <<world, tracks, storedFolders, folderVars, debounce>>
  BY DEF FinishApply
<1>2. /\ artworkCache' \subseteq artworkCache
      /\ \A f \in artworkCache \ artworkCache' : f \notin DOMAIN tracks \/ ~tracks[f].artwork
  BY DEF FinishApply, PruneArtworkCache
<1>3. watched' \subseteq Dirs
  BY DEF FinishApply, TypeOK, ScanOK, BatchOK
<1>4. PICK unheard \in {{}, notices} :
        /\ notices' = notices \ unheard
        /\ \/ ~pending /\ NoScan /\ missed' = missed \cup HomeIn(unheard) /\ UNCHANGED pending
           \/ pending /\ RescanAfter(folders)
  BY DEF FinishApply
<1>5. RescanAfter(folders) \/ (NoScan /\ missed' \subseteq Files)
  BY <1>4 DEF HomeIn, TypeOK, HistoryOK
<1>6. ScanOK' /\ HistoryOK' /\ ScanInv' /\ RowsInv'
  BY <1>1, <1>2, <1>5, RepeatAfterwards DEF world
<1>7. pending' \in BOOLEAN
  BY <1>4 DEF RescanAfter, TypeOK, MainOK
<1>8. MainOK'
  BY <1>1, <1>2, <1>3, <1>4, <1>7 DEF TypeOK, MainOK, folderVars, IsTable
<1>9. OwnedRows'
  BY <1>1, FoldersKept DEF OwnedRows
<1> QED BY <1>1, <1>6, <1>8, <1>9, WorldKept DEF TypeOK

(***************************************************************************)
(* Steps of the scan's thread.                                             *)
(***************************************************************************)

(* One more folder scan in the batch. *)
LEMMA BatchGrows ==
  ASSUME TypeOK, NEW s, IsScan(s), batch' = Append(batch, s)
  PROVE  /\ batch' \in Seq(Entries(batch)') /\ Entries(batch)' = Entries(batch) \cup {s}
         /\ (\A e \in Entries(batch)' : IsScan(e))
<1>1. batch \in Seq(Entries(batch) \cup {s}) /\ \A e \in Entries(batch) : IsScan(e)
  <2>1. batch \in Seq(Entries(batch)) /\ \A e \in Entries(batch) : IsScan(e)
    BY DEF TypeOK, ScanOK, BatchOK
  <2> QED BY <2>1
<1>2. PICK new : new = Append(batch, s)
  OBVIOUS
<1>3. new \in Seq(Entries(new)) /\ Entries(new) = Entries(batch) \cup {s}
  <2>1. s \in Entries(batch) \cup {s}
    OBVIOUS
  <2>2. new \in Seq(Entries(batch) \cup {s}) /\ Entries(new) = Entries(batch) \cup {s}
    BY <1>1, <1>2, <2>1, AppendEntries
  <2> QED BY <2>2
<1>4. Entries(batch)' = Entries(new) /\ batch' = new
  BY <1>2 DEF Entries
<1> QED BY <1>1, <1>3, <1>4

(* What a step of the thread leaves alone. *)
LEMMA ThreadSide ==
  ASSUME CopiesInv, UNCHANGED <<world, tracks, storedFolders, folderVars, pending, debounce, watcher,
                           synchronized>>,
         artworkCache' \subseteq Files
  PROVE  WorldOK' /\ MainOK' /\ OwnedRows' /\ FolderSet' = FolderSet /\ revision' = revision
<1>1. WorldOK' /\ FolderSet' = FolderSet /\ revision' = revision
  BY WorldKept, FoldersKept DEF CopiesInv, TypeOK
<1>2. MainOK'
  BY DEF CopiesInv, TypeOK, MainOK, folderVars, watcher, IsTable
<1> QED BY <1>1, <1>2 DEF CopiesInv, OwnedRows

LEMMA ThreadMain ==
  ASSUME CopiesInv, UNCHANGED <<world, mainVars>>
  PROVE  /\ WorldOK' /\ MainOK' /\ OwnedRows' /\ FolderSet' = FolderSet /\ revision' = revision
         /\ UNCHANGED <<disk, lastVersion, artworkCache, tracks>> /\ lastVersion \in Nat
<1>1. UNCHANGED <<world, tracks, storedFolders, artworkCache, folderVars, pending, debounce,
                  watcher, synchronized>>
  BY DEF mainVars, database
<1>2. artworkCache' \subseteq Files /\ lastVersion \in Nat
  BY <1>1 DEF CopiesInv, TypeOK, MainOK, WorldOK
<1> QED BY <1>1, <1>2, ThreadSide DEF world

LEMMA ScanInvGrows ==
  ASSUME ScanInv, FolderSet' = FolderSet, revision' = revision, scanRevision' = scanRevision,
         ScannedRoots' \subseteq ScannedRoots, scan = "running", scan' = "running",
         step' # "next" => todo' # <<>> /\ root' = Head(todo'),
         step' = "next" => found' = NoRows,
         current' # None => step' = "files"
  PROVE  ScanInv'
<1>1. NoRows' = NoRows
  BY DEF NoRows
<1> QED BY <1>1 DEF ScanInv

LEMMA EnterRootStep == ASSUME CopiesInv, EnterRoot PROVE CopiesInv'
<1> USE DEF CopiesInv
<1>1. /\ UNCHANGED <<world, mainVars, scan, left, current, stat, found, observed, complete,
                     scanRevision, previous, batchDirs, slots, history>>
      /\ scan = "running" /\ step = "next" /\ todo # <<>>
  BY DEF EnterRoot
<1>2. PICK r, rest : r = Head(todo) /\ rest = Tail(todo)
  OBVIOUS
<1>3. r \in Roots /\ r \in Entries(todo) /\ rest \in Seq(Roots) /\ Entries(rest) \subseteq Entries(todo)
  BY <1>1, <1>2, TailEntries DEF TypeOK, ScanOK, BatchOK
<1>4. r # None
  BY <1>3, TreeAssumption
<1>5. CASE step' = "list" /\ root' = r /\ UNCHANGED <<todo, batch>>
  <2>1. ScannedRoots' = ScannedRoots /\ KnownRows' = KnownRows /\ Entries(batch)' = Entries(batch)
    BY <1>1, <1>5, SameRows DEF mainVars, database, ScannedRoots, Entries
  <2>2. ScanOK'
    BY <1>1, <1>3, <1>5, <2>1 DEF TypeOK, ScanOK, RootOK, BatchOK, IsTable, IsScan
  <2>3. ScanInv'
    <3>1. step' # "next" /\ current' = None
      BY <1>1, <1>5 DEF ScanInv
    <3> QED BY <1>1, <1>2, <1>5, <2>1, <3>1, ScanInvGrows, ThreadMain
  <2>4. RowsInv'
    BY <1>1, <2>1, RowsKept, ThreadMain
  <2> QED BY <1>1, <2>2, <2>3, <2>4, ThreadMain, HistoryKept DEF TypeOK
<1>6. CASE /\ todo' = rest /\ batch' = Append(batch, ScanOf(r, NoRows, {}, FALSE))
           /\ UNCHANGED <<step, root>>
  <2>1. PICK s : s = ScanOf(r, NoRows, {}, FALSE)
    OBVIOUS
  <2>2. IsScan(s) /\ s.root = r /\ s.found = NoRows
    BY <1>3, <2>1, NoRowsTable DEF IsScan, ScanOf
  <2>3. /\ batch' \in Seq(Entries(batch)') /\ Entries(batch)' = Entries(batch) \cup {s}
        /\ \A e \in Entries(batch)' : IsScan(e)
    BY <1>6, <2>1, <2>2, BatchGrows
  <2>4. ScannedRoots' \subseteq ScannedRoots
    <3>1. Entries(todo)' = Entries(rest)
      BY <1>6 DEF Entries
    <3> QED BY <1>3, <2>2, <2>3, <3>1 DEF ScannedRoots
  <2>5. KnownRows' \subseteq KnownRows \cup {NoRows}
    BY <1>1, <2>2, <2>3 DEF mainVars, database, KnownRows
  <2>6. ScanOK'
    BY <1>1, <1>3, <1>6, <2>3 DEF TypeOK, ScanOK, RootOK, BatchOK, IsTable, IsScan
  <2>7. ScanInv'
    <3>1. step' = "next" /\ current' = None /\ found' = NoRows
      BY <1>1, <1>6 DEF ScanInv
    <3> QED BY <1>1, <1>6, <2>4, <3>1, ScanInvGrows, ThreadMain
  <2>8. RowsInv'
    BY <1>1, <2>5, RowsKept, ThreadMain
  <2> QED BY <1>1, <2>6, <2>7, <2>8, ThreadMain, HistoryKept DEF TypeOK
<1> QED BY <1>2, <1>5, <1>6 DEF EnterRoot

LEMMA RowsGrow ==
  ASSUME RowsInv, NEW new, \A f \in DOMAIN new : GoodRow(f, new[f])',
         KnownRows' \subseteq KnownRows \cup {NoRows, new},
         UNCHANGED <<disk, lastVersion>>, artworkCache \subseteq artworkCache',
         stat' <= lastVersion
  PROVE  RowsInv'
<1>1. stat' <= lastVersion' /\ \A f \in Files : disk'[f] <= lastVersion'
  BY DEF RowsInv
<1>2. ASSUME NEW rows \in KnownRows', NEW f \in DOMAIN rows PROVE GoodRow(f, rows[f])'
  <2>1. CASE rows = new
    BY <1>2, <2>1
  <2>2. CASE rows \in KnownRows
    <3>1. GoodRow(f, rows[f])
      BY <1>2, <2>2 DEF RowsInv
    <3> QED BY <3>1 DEF GoodRow
  <2> QED BY <1>2, <2>1, <2>2, NoRowsTable
<1> QED BY <1>1, <1>2 DEF RowsInv

LEMMA ListRootStep == ASSUME CopiesInv, ListRoot PROVE CopiesInv'
<1> USE DEF CopiesInv
<1>1. /\ UNCHANGED <<world, mainVars, scan, root, current, stat, found, scanRevision, previous,
                     todo, batch, lost>>
      /\ scan = "running" /\ step = "list" /\ step' = "files"
  BY DEF ListRoot
<1>2. PICK files, dirs :
        /\ files = {f \in In(root) : Readable(f)}
        /\ dirs = {d \in Below[root] : d = root \/ Reachable(d)}
  OBVIOUS
<1>3. PICK listed \in SUBSET files, failed \in BOOLEAN, observing \in SUBSET dirs :
        /\ IF Cardinality(dirs) > slots THEN Cardinality(observing) = slots
           ELSE observing = dirs \/ (failed /\ observing = {root})
        /\ left' = listed /\ observed' = listed
        /\ complete' = ~failed
        /\ batchDirs' = batchDirs \cup observing
        /\ slots' = slots - Cardinality(observing)
        /\ missed' = IF failed \/ ~Reachable(root)
                     THEN missed \cup In(root)
                     ELSE missed \ (In(root) \ ListedBefore)
  BY <1>2 DEF ListRoot
<1>4. root \in Roots /\ root = Head(todo) /\ todo # <<>>
  <2>1. root = Head(todo) /\ todo # <<>> /\ todo \in Seq(Roots)
    BY <1>1 DEF ScanInv, TypeOK, ScanOK, BatchOK
  <2> QED BY <2>1, TailEntries
<1>5. /\ dirs \subseteq Dirs /\ IsFiniteSet(dirs) /\ root \in dirs
      /\ Cardinality(dirs) \in Nat /\ Cardinality(observing) \in Nat
  <2>1. Below[root] \subseteq Dirs /\ IsFiniteSet(Below[root]) /\ root \in Below[root]
    BY <1>4, TreeAssumption
  <2>2. dirs \subseteq Below[root] /\ root \in dirs
    BY <1>2, <2>1
  <2>3. IsFiniteSet(dirs) /\ IsFiniteSet(observing)
    BY <2>1, <2>2, FS_Subset
  <2> QED BY <2>1, <2>2, <2>3, FS_CardinalityType
<1>6. Cardinality(observing) <= slots
  <2>1. slots \in Nat
    BY LimitsAssumption DEF TypeOK, ScanOK, BatchOK
  <2>2. Cardinality({root}) = 1 /\ {root} \subseteq dirs /\ Cardinality(observing) <= Cardinality(dirs)
    BY <1>5, FS_Singleton, FS_Subset
  <2> QED BY <1>3, <1>5, <2>1, <2>2
<1>7. ScannedRoots' = ScannedRoots /\ KnownRows' = KnownRows /\ Entries(batch)' = Entries(batch)
  BY <1>1, SameRows DEF mainVars, database, ScannedRoots, Entries
<1>8. slots' \in 0 .. MaxWatched /\ batchDirs' \subseteq Dirs
  BY <1>3, <1>5, <1>6, LimitsAssumption DEF TypeOK, ScanOK, BatchOK
<1>9. ScanOK'
  <2>1. BatchOK'
    BY <1>1, <1>7, <1>8 DEF TypeOK, ScanOK, BatchOK, IsTable, IsScan
  <2>2. RootOK'
    BY <1>1, <1>2, <1>3 DEF TypeOK, ScanOK, RootOK, IsTable, In, HomeIn
  <2> QED BY <1>1, <2>1, <2>2 DEF TypeOK, ScanOK
<1>10. HistoryOK'
  BY <1>1, <1>3 DEF TypeOK, HistoryOK, In, HomeIn
<1>11. ScanInv'
  BY <1>1, <1>4, <1>7, ScanInvGrows, ThreadMain
<1>12. RowsInv'
  BY <1>1, <1>7, RowsKept, ThreadMain
<1> QED BY <1>1, <1>9, <1>10, <1>11, <1>12, ThreadMain DEF TypeOK

LEMMA StatFileStep == ASSUME CopiesInv, NEW f \in Files, StatFile(f) PROVE CopiesInv'
<1> USE DEF CopiesInv
<1>1. /\ UNCHANGED <<world, mainVars, scan, step, root, observed, complete, batchVars, history>>
      /\ scan = "running" /\ step = "files" /\ current = None /\ f \in left
  BY DEF StatFile
<1>2. PICK version : version = IF Readable(f) THEN disk[f] ELSE 0
  OBVIOUS
<1>3. version \in Nat /\ version <= lastVersion
  BY <1>2 DEF RowsInv, TypeOK, WorldOK
<1>4. /\ ScannedRoots' = ScannedRoots /\ Entries(batch)' = Entries(batch) /\ BatchOK'
      /\ UNCHANGED <<scanRevision, todo, batch, previous>>
  <2>1. UNCHANGED <<scanRevision, todo, batch, previous>>
    BY <1>1 DEF batchVars
  <2> QED BY <1>1, <2>1, BatchKept DEF TypeOK, ScanOK, ScannedRoots, Entries
<1>5. CASE /\ f \in DOMAIN previous
           /\ found' = With(found, f, previous[f]) /\ left' = left \ {f} /\ UNCHANGED <<current, stat>>
  <2>1. PICK rows : rows = With(found, f, previous[f])
    OBVIOUS
  <2>2. IsTable(found) /\ IsTable(previous)
    BY DEF TypeOK, ScanOK, RootOK, BatchOK
  <2>3. previous[f] \in Row
    BY <1>5, <2>2, TableRows
  <2>4. /\ IsTable(rows) /\ DOMAIN rows = DOMAIN found \cup {f} /\ rows[f] = previous[f]
        /\ \A g \in DOMAIN found \ {f} : rows[g] = found[g]
    <3>1. /\ IsTable(With(found, f, previous[f]))
          /\ DOMAIN With(found, f, previous[f]) = DOMAIN found \cup {f}
          /\ With(found, f, previous[f])[f] = previous[f]
          /\ \A g \in DOMAIN found \ {f} : With(found, f, previous[f])[g] = found[g]
      BY <2>2, <2>3, WithTable
    <3> QED BY <2>1, <3>1
  <2>5. \A g \in DOMAIN rows : GoodRow(g, rows[g])'
    <3>1. ASSUME NEW g \in DOMAIN rows PROVE GoodRow(g, rows[g])
      BY <1>5, <2>4 DEF RowsInv, KnownRows
    <3>2. UNCHANGED <<disk, lastVersion, artworkCache>>
      BY <1>1, ThreadMain
    <3> QED BY <3>1, <3>2 DEF GoodRow
  <2>6. RowsInv'
    <3>1. KnownRows' \subseteq KnownRows \cup {NoRows, rows}
      BY <1>1, <1>4, <1>5, <2>1, ThreadMain DEF KnownRows
    <3>2. stat' <= lastVersion /\ UNCHANGED <<disk, lastVersion, artworkCache>>
      BY <1>1, <1>5, ThreadMain DEF RowsInv
    <3> QED BY <2>5, <3>1, <3>2, RowsGrow
  <2>7. ScanOK'
    BY <1>1, <1>4, <1>5, <2>1, <2>4 DEF TypeOK, ScanOK, RootOK, IsTable
  <2>8. ScanInv'
    <3>1. todo # <<>> /\ root = Head(todo)
      BY <1>1 DEF ScanInv
    <3> QED BY <1>1, <1>4, <1>5, <3>1, ScanInvGrows, ThreadMain
  <2> QED BY <1>1, <2>6, <2>7, <2>8, ThreadMain, HistoryKept DEF TypeOK
<1>6. CASE current' = f /\ stat' = version /\ UNCHANGED <<found, left>>
  <2>1. KnownRows' = KnownRows
    BY <1>1, <1>4, <1>6, SameRows, ThreadMain
  <2>2. RowsInv'
    <3>1. \A g \in DOMAIN NoRows : GoodRow(g, NoRows[g])'
      BY NoRowsTable
    <3> QED BY <1>1, <1>3, <1>6, <2>1, <3>1, RowsGrow, ThreadMain
  <2>3. ScanOK'
    BY <1>1, <1>3, <1>4, <1>6 DEF TypeOK, ScanOK, RootOK, IsTable
  <2>4. ScanInv'
    <3>1. todo # <<>> /\ root = Head(todo)
      BY <1>1 DEF ScanInv
    <3> QED BY <1>1, <1>4, <1>6, <3>1, ScanInvGrows, ThreadMain
  <2> QED BY <1>1, <2>2, <2>3, <2>4, ThreadMain, HistoryKept DEF TypeOK
<1> QED BY <1>2, <1>5, <1>6 DEF StatFile

LEMMA ReadFileStep == ASSUME CopiesInv, ReadFile PROVE CopiesInv'
<1> USE DEF CopiesInv
<1>1. /\ UNCHANGED <<world, tracks, storedFolders, folderVars, pending, debounce, watcher,
                     synchronized, scan, step, root, observed, complete, batchVars, lost>>
      /\ scan = "running" /\ current # None
      /\ left' = left \ {current} /\ current' = None /\ stat' = 0
  BY DEF ReadFile
<1>2. step = "files" /\ current \in Files /\ todo # <<>> /\ root = Head(todo)
  BY <1>1 DEF ScanInv, TypeOK, ScanOK, RootOK
<1>3. root \in Roots
  <2>1. todo \in Seq(Roots)
    BY DEF TypeOK, ScanOK, BatchOK
  <2> QED BY <1>2, <2>1, TailEntries
<1>4. /\ ScannedRoots' = ScannedRoots /\ Entries(batch)' = Entries(batch) /\ BatchOK'
      /\ UNCHANGED <<scanRevision, todo, batch, previous>>
  <2>1. UNCHANGED <<scanRevision, todo, batch, previous>>
    BY <1>1 DEF batchVars
  <2> QED BY <1>1, <2>1, BatchKept DEF TypeOK, ScanOK, ScannedRoots, Entries
<1>5. /\ IsTable(found) /\ IsTable(previous) /\ stat \in Nat /\ stat <= lastVersion
      /\ disk \in [Files -> Nat] /\ lastVersion \in Nat
      /\ UNCHANGED <<disk, lastVersion>>
  BY <1>1 DEF TypeOK, ScanOK, RootOK, BatchOK, WorldOK, RowsInv, world
<1>0. PICK file : file = current
  OBVIOUS
<1>6. ASSUME artworkCache \subseteq artworkCache', artworkCache' \subseteq Files,
             missed' \subseteq Files,
             NEW row \in Row, GoodRow(file, row)', found' = With(found, current, row)
      PROVE  CopiesInv'
  <2>1. PICK rows : rows = With(found, current, row)
    OBVIOUS
  <2>2. /\ IsTable(rows) /\ DOMAIN rows = DOMAIN found \cup {current} /\ rows[current] = row
        /\ \A g \in DOMAIN found \ {current} : rows[g] = found[g]
    <3>1. /\ IsTable(With(found, current, row))
          /\ DOMAIN With(found, current, row) = DOMAIN found \cup {current}
          /\ With(found, current, row)[current] = row
          /\ \A g \in DOMAIN found \ {current} : With(found, current, row)[g] = found[g]
      BY <1>2, <1>5, WithTable
    <3> QED BY <2>1, <3>1
  <2>3. \A g \in DOMAIN rows : GoodRow(g, rows[g])'
    <3>1. ASSUME NEW g \in DOMAIN rows, g # file PROVE GoodRow(g, rows[g])'
      <4>1. GoodRow(g, rows[g])
        BY <1>0, <2>2, <3>1 DEF RowsInv, KnownRows
      <4> QED BY <1>5, <1>6, <4>1 DEF GoodRow
    <3>2. GoodRow(file, rows[file])'
      BY <1>0, <1>6, <2>2
    <3> QED BY <3>1, <3>2
  <2>4. RowsInv'
    <3>1. KnownRows' \subseteq KnownRows \cup {NoRows, rows}
      BY <1>1, <1>4, <1>6, <2>1 DEF KnownRows
    <3>2. stat' <= lastVersion
      BY <1>1, <1>5
    <3> QED BY <1>5, <1>6, <2>3, <3>1, <3>2, RowsGrow
  <2>5. ScanOK'
    BY <1>1, <1>4, <1>6, <2>1, <2>2 DEF TypeOK, ScanOK, RootOK, IsTable
  <2>6. /\ WorldOK' /\ MainOK' /\ OwnedRows' /\ FolderSet' = FolderSet /\ revision' = revision
    BY <1>1, <1>6, ThreadSide
  <2>7. ScanInv'
    BY <1>1, <1>2, <1>4, <2>6, ScanInvGrows
  <2> QED BY <1>1, <1>6, <2>4, <2>5, <2>6, <2>7 DEF TypeOK, HistoryOK
<1>7. CASE /\ Readable(current)
           /\ found' = With(found, current, RowOf(current))
           /\ artworkCache' = artworkCache \cup {f \in {current} : disk[f] \in WithArtwork /\ ~failing}
           /\ UNCHANGED missed
  <2>1. PICK row : row = RowOf(current)
    OBVIOUS
  <2>2. row \in Row
    BY <1>2, <1>3, <1>5, <2>1 DEF RowOf, Row
  <2>3. GoodRow(file, row)'
    BY <1>2, <1>5, <1>7, <1>0, <2>1 DEF GoodRow, RowOf
  <2>4. artworkCache' \subseteq Files /\ missed' \subseteq Files /\ artworkCache \subseteq artworkCache'
    BY <1>2, <1>7 DEF TypeOK, MainOK, HistoryOK
  <2> QED BY <1>6, <1>7, <2>1, <2>2, <2>3, <2>4
<1>8. CASE /\ current \in DOMAIN previous
           /\ found' = With(found, current, previous[current])
           /\ missed' = missed \cup {current} /\ UNCHANGED artworkCache
  <2>1. PICK row : row = previous[current]
    OBVIOUS
  <2>2. row \in Row
    BY <1>5, <1>8, <2>1, TableRows
  <2>3. GoodRow(file, row)'
    <3>1. GoodRow(file, row)
      BY <1>8, <1>0, <2>1 DEF RowsInv, KnownRows
    <3> QED BY <1>5, <1>8, <3>1 DEF GoodRow
  <2>4. artworkCache' \subseteq Files /\ missed' \subseteq Files /\ artworkCache \subseteq artworkCache'
    BY <1>2, <1>8 DEF TypeOK, MainOK, HistoryOK
  <2> QED BY <1>6, <1>8, <2>1, <2>2, <2>3, <2>4
<1>9. CASE found' = found /\ missed' = missed \cup {current} /\ UNCHANGED artworkCache
  <2>1. artworkCache' \subseteq Files /\ missed' \subseteq Files
    BY <1>2, <1>9 DEF TypeOK, MainOK, HistoryOK
  <2>2. /\ WorldOK' /\ MainOK' /\ OwnedRows' /\ FolderSet' = FolderSet /\ revision' = revision
    BY <1>1, <2>1, ThreadSide
  <2>3. KnownRows' = KnownRows
    BY <1>1, <1>4, <1>9, SameRows
  <2>4. RowsInv'
    BY <1>1, <1>5, <1>9, <2>3, RowsKept
  <2>5. ScanOK'
    BY <1>1, <1>4, <1>9 DEF TypeOK, ScanOK, RootOK, IsTable
  <2>6. ScanInv'
    BY <1>1, <1>2, <1>4, <2>2, ScanInvGrows
  <2> QED BY <1>1, <2>1, <2>2, <2>4, <2>5, <2>6 DEF TypeOK, HistoryOK
<1> QED BY <1>7, <1>8, <1>9 DEF ReadFile

LEMMA LeaveRootStep == ASSUME CopiesInv, LeaveRoot PROVE CopiesInv'
<1> USE DEF CopiesInv
<1>1. /\ UNCHANGED <<world, mainVars, scan, scanRevision, previous, batchDirs, slots, history>>
      /\ scan = "running" /\ step = "files" /\ AtNoRoot("next") /\ todo' = Tail(todo)
  BY DEF LeaveRoot
<1>2. todo # <<>> /\ root = Head(todo) /\ todo \in Seq(Roots)
  BY <1>1 DEF ScanInv, TypeOK, ScanOK, BatchOK
<1>3. PICK rest : rest = Tail(todo)
  OBVIOUS
<1>4. root \in Roots /\ root \in Entries(todo) /\ rest \in Seq(Roots) /\ Entries(rest) \subseteq Entries(todo)
  BY <1>2, <1>3, TailEntries
<1>5. PICK s : s = ScanOf(root, found, observed, complete /\ StillThere)
  OBVIOUS
<1>6. IsScan(s) /\ s.root = root /\ s.found = found
  BY <1>4, <1>5 DEF IsScan, ScanOf, TypeOK, ScanOK, RootOK
<1>7. /\ batch' \in Seq(Entries(batch)') /\ Entries(batch)' = Entries(batch) \cup {s}
      /\ \A e \in Entries(batch)' : IsScan(e)
  BY <1>5, <1>6, BatchGrows DEF LeaveRoot
<1>8. RootOK' /\ found' = NoRows /\ stat' = 0 /\ step' = "next" /\ current' = None
  BY <1>1, AtNoRootOK DEF AtNoRoot
<1>9. ScannedRoots' \subseteq ScannedRoots
  <2>1. Entries(todo)' = Entries(rest)
    BY <1>1, <1>3 DEF Entries
  <2> QED BY <1>4, <1>6, <1>7, <2>1 DEF ScannedRoots
<1>10. KnownRows' \subseteq KnownRows \cup {NoRows}
  BY <1>1, <1>6, <1>7, <1>8 DEF mainVars, database, KnownRows
<1>11. ScanOK'
  BY <1>1, <1>3, <1>4, <1>7, <1>8 DEF TypeOK, ScanOK, BatchOK, IsTable, IsScan
<1>12. ScanInv'
  BY <1>1, <1>8, <1>9, ScanInvGrows, ThreadMain
<1>13. RowsInv'
  BY <1>1, <1>8, <1>10, RowsKept, ThreadMain
<1> QED BY <1>1, <1>11, <1>12, <1>13, ThreadMain, HistoryKept DEF TypeOK

LEMMA ScanEndsStep == ASSUME CopiesInv, ScanEnds PROVE CopiesInv'
<1> USE DEF CopiesInv
<1>1. /\ UNCHANGED <<world, mainVars, rootVars, scanRevision, todo, batch, batchDirs, history>>
      /\ scan = "running" /\ step = "next" /\ scan' = "finished"
      /\ previous' = NoRows /\ slots' = MaxWatched
  BY DEF ScanEnds
<1>2. UNCHANGED <<step, root, found, stat, current>>
  BY <1>1 DEF rootVars
<1>3. ScannedRoots' = ScannedRoots /\ Entries(batch)' = Entries(batch)
  BY <1>1 DEF ScannedRoots, Entries
<1>4. ScanOK'
  <2>1. BatchOK'
    <3>1. IsTable(previous)' /\ slots' \in 0 .. MaxWatched
      BY <1>1, NoRowsTable, LimitsAssumption DEF IsTable
    <3> QED BY <1>1, <1>3, <3>1 DEF TypeOK, ScanOK, BatchOK, IsTable, IsScan
  <2> QED BY <1>1, <2>1, RootKept DEF TypeOK, ScanOK
<1>5. ScanInv'
  <2>1. NoRows' = NoRows
    BY DEF NoRows
  <2>2. FolderSet' = FolderSet /\ revision' = revision
    BY <1>1, ThreadMain
  <2> QED BY <1>1, <1>2, <1>3, <2>1, <2>2 DEF ScanInv
<1>6. RowsInv'
  <2>1. KnownRows' \subseteq KnownRows \cup {NoRows}
    BY <1>1, <1>2, <1>3, ThreadMain DEF KnownRows
  <2> QED BY <1>1, <1>2, <2>1, RowsKept, ThreadMain
<1> QED BY <1>1, <1>4, <1>5, <1>6, ThreadMain, HistoryKept DEF TypeOK

(***************************************************************************)
(* Steps of the world around the library.                                  *)
(***************************************************************************)

(* Files change: no row is harmed, as long as every new version is later than  *)
(* those rows may have been read from.                                      *)
LEMMA FilesChange ==
  ASSUME CopiesInv, WorldOK', HistoryOK', MainOK',
         UNCHANGED <<database, folderVars, scanVars>>, lastVersion <= lastVersion',
         \A f \in Files : \/ disk'[f] = disk[f]
                          \/ disk'[f] = 0
                          \/ disk'[f] = lastVersion' /\ lastVersion < lastVersion'
  PROVE  CopiesInv'
<1> USE DEF CopiesInv
<1>1. TypeOK' /\ ScanInv' /\ OwnedRows'
  BY ScanKept, ScanInvKept, OwnedKept DEF TypeOK
<1>2. /\ KnownRows' = KnownRows /\ stat' = stat /\ UNCHANGED artworkCache
      /\ \A rows \in KnownRows : IsTable(rows)
  BY SameScan, SameRows, KnownTables DEF database
<1>3. /\ disk \in [Files -> Nat] /\ lastVersion \in Nat /\ stat \in Nat
      /\ disk' \in [Files -> Nat] /\ lastVersion' \in Nat
  BY DEF TypeOK, WorldOK, ScanOK, RootOK
<1>4. stat' <= lastVersion' /\ \A f \in Files : disk'[f] <= lastVersion'
  BY <1>2, <1>3 DEF RowsInv
<1>5. ASSUME NEW rows \in KnownRows, NEW f \in DOMAIN rows PROVE GoodRow(f, rows[f])'
  <2>1. f \in Files /\ rows[f].stat \in Nat
    BY <1>2, <1>5, TableRows DEF Row
  <2>2. GoodRow(f, rows[f])
    BY <1>5 DEF RowsInv
  <2>3. rows[f].stat <= lastVersion'
    BY <1>3, <2>1, <2>2 DEF GoodRow
  <2>4. disk'[f] # 0 /\ rows[f].stat = disk'[f] => rows[f].metadata = disk'[f]
    BY <1>3, <2>1, <2>2 DEF GoodRow
  <2> QED BY <1>2, <2>2, <2>3, <2>4 DEF GoodRow
<1>6. RowsInv'
  BY <1>2, <1>4, <1>5 DEF RowsInv
<1> QED BY <1>1, <1>6

(* The main thread's variables are well typed when only signals have come. *)
LEMMA MainNoticed ==
  ASSUME MainOK, UNCHANGED <<database, folderVars, pending, debounce, synchronized>>,
         watched' \subseteq watched, notices' \subseteq Dirs
  PROVE  MainOK'
  BY DEF MainOK, database, folderVars, IsTable

LEMMA SignalledOK ==
  ASSUME MainOK, HistoryOK, NEW f \in Files, NEW inPlace, Signalled(f, inPlace)
  PROVE  notices' \subseteq Dirs /\ missed' \subseteq Files
  BY TreeAssumption DEF MainOK, HistoryOK, Signalled

LEMMA WriteFileStep == ASSUME CopiesInv, NEW f \in Files, WriteFile(f) PROVE CopiesInv'
<1>1. /\ Happens /\ lastVersion' = lastVersion + 1 /\ disk' = [disk EXCEPT ![f] = lastVersion']
      /\ Signalled(f, disk[f] # 0)
      /\ UNCHANGED <<away, failing, database, folderVars, pending, debounce, watched,
                     synchronized, scanVars, lost>>
  BY DEF WriteFile
<1>2. WorldOK /\ MainOK /\ HistoryOK
  BY DEF CopiesInv, TypeOK
<1>3. WorldOK'
  BY <1>1, <1>2, LimitsAssumption DEF WorldOK, Happens
<1>4. notices' \subseteq Dirs /\ missed' \subseteq Files
  BY <1>1, <1>2, SignalledOK
<1>5. MainOK' /\ HistoryOK'
  BY <1>1, <1>2, <1>4, MainNoticed DEF HistoryOK
<1>6. /\ lastVersion <= lastVersion' /\ lastVersion < lastVersion'
      /\ \A g \in Files : disk'[g] = disk[g] \/ disk'[g] = lastVersion'
  BY <1>1, <1>2 DEF WorldOK
<1> QED BY <1>1, <1>3, <1>5, <1>6, FilesChange

LEMMA DeleteFileStep == ASSUME CopiesInv, NEW f \in Files, DeleteFile(f) PROVE CopiesInv'
<1>1. /\ Happens /\ disk' = [disk EXCEPT ![f] = 0] /\ Signalled(f, FALSE)
      /\ lost' = IF scan = "idle" THEN {} ELSE lost \cup {f}
      /\ UNCHANGED <<lastVersion, away, failing, database, folderVars, pending, debounce, watched,
                     synchronized, scanVars>>
  BY DEF DeleteFile
<1>2. WorldOK /\ MainOK /\ HistoryOK
  BY DEF CopiesInv, TypeOK
<1>3. WorldOK'
  BY <1>1, <1>2, LimitsAssumption DEF WorldOK, Happens
<1>4. notices' \subseteq Dirs /\ missed' \subseteq Files
  BY <1>1, <1>2, SignalledOK
<1>5. MainOK' /\ HistoryOK'
  BY <1>1, <1>2, <1>4, MainNoticed DEF HistoryOK
<1>6. lastVersion <= lastVersion' /\ \A g \in Files : disk'[g] = disk[g] \/ disk'[g] = 0
  BY <1>1, <1>2 DEF WorldOK
<1> QED BY <1>1, <1>3, <1>5, <1>6, FilesChange

LEMMA VolumeStep == ASSUME CopiesInv, NEW r \in Volumes, Unmount(r) \/ Mount(r) PROVE CopiesInv'
<1>1. WorldOK /\ MainOK /\ HistoryOK /\ r \in Roots /\ r \in Dirs
  BY TreeAssumption DEF CopiesInv, TypeOK
<1>2. UNCHANGED <<disk, lastVersion>> /\ lastVersion <= lastVersion'
  BY <1>1 DEF Unmount, Mount, WorldOK
<1>3. CASE Unmount(r)
  <2>1. WorldOK' /\ HistoryOK'
    BY <1>1, <1>3, LimitsAssumption, HistoryKept DEF Unmount, WorldOK, Happens
  <2>2. /\ watched' \subseteq watched /\ notices' \subseteq Dirs
        /\ UNCHANGED <<database, folderVars, pending, debounce, synchronized, scanVars>>
    BY <1>1, <1>3 DEF Unmount, MainOK
  <2> QED BY <1>1, <1>2, <2>1, <2>2, MainNoticed, FilesChange
<1>4. CASE Mount(r)
  <2>1. UNCHANGED <<mainVars, scanVars>> /\ WorldOK' /\ HistoryOK'
    BY <1>1, <1>4 DEF Mount, WorldOK, HistoryOK, In, HomeIn
  <2> QED BY <1>1, <1>2, <2>1, MainKept, FilesChange DEF mainVars
<1> QED BY <1>3, <1>4

LEMMA StorageStep == ASSUME CopiesInv, Fail \/ Recover PROVE CopiesInv'
<1>1. WorldOK /\ MainOK /\ HistoryOK
  BY DEF CopiesInv, TypeOK
<1>2. UNCHANGED <<disk, lastVersion, mainVars, scanVars, history>> /\ lastVersion <= lastVersion'
  BY <1>1 DEF Fail, Recover, WorldOK
<1>3. WorldOK'
  <2>1. events' \in 0 .. MaxEvents
    BY <1>1, LimitsAssumption DEF Fail, Recover, WorldOK, Happens
  <2>2. failing' \in BOOLEAN /\ UNCHANGED <<disk, lastVersion, away>>
    BY DEF Fail, Recover
  <2> QED BY <1>1, <2>1, <2>2 DEF WorldOK
<1> QED BY <1>1, <1>2, <1>3, MainKept, HistoryKept, FilesChange DEF mainVars

LEMMA StoredFolders ==
  ASSUME NEW stored \in SUBSET Roots, NEW s \in AsStored(stored)
  PROVE  s \in Seq(Roots) /\ Entries(s) = stored
<1>1. Cardinality(stored) \in Nat
  BY TreeAssumption, FS_Subset, FS_CardinalityType
<1> QED BY <1>1 DEF AsStored

LEMMA RestartStep == ASSUME CopiesInv, Restart PROVE CopiesInv'
<1> USE DEF CopiesInv
<1>1. /\ Happens /\ revision' = 0 /\ pending' = FALSE /\ debounce' = FALSE
      /\ watched' = {} /\ notices' = {} /\ synchronized' = TRUE
      /\ UNCHANGED <<disk, lastVersion, away, failing, database, missed>>
  BY DEF Restart
<1>2. PICK roots : roots = folders'
  OBVIOUS
<1>3. roots \in Seq(Roots) /\ Entries(roots) = storedFolders
  BY <1>2, StoredFolders DEF Restart, TypeOK, MainOK
<1>4. IsTable(tracks) /\ 0 \in Nat
  BY DEF TypeOK, MainOK
<1>5. WorldOK'
  BY <1>1, OneMoreEvent DEF TypeOK
<1>6. MainOK'
  BY <1>1, <1>2, <1>3 DEF TypeOK, MainOK, database, IsTable
<1>7. FolderSet' = storedFolders
  BY <1>2, <1>3 DEF FolderSet
<1>8. OwnedRows'
  BY <1>1, <1>7 DEF OwnedRows, database
<1>9. /\ ScanOK' /\ lost' \subseteq Files /\ ScanInv' /\ stat' = 0
      /\ KnownRows' \subseteq {tracks, NoRows}
  <2>1. CASE StartScan(tracks, roots, 0)
    BY <1>1, <1>3, <1>4, <1>7, <2>1, ScanStarts, ScanInvAtStart, LimitsAssumption DEF database
  <2>2. CASE NoScan
    BY <1>1, <1>4, <2>2, ScanStops, ScanInvAtStop, LimitsAssumption DEF database
  <2> QED BY <1>2, <2>1, <2>2 DEF Restart
<1>10. RowsInv'
  BY <1>1, <1>9, RowsKept DEF database, KnownRows, TypeOK, WorldOK
<1> QED BY <1>1, <1>5, <1>6, <1>8, <1>9, <1>10 DEF TypeOK, HistoryOK

(***************************************************************************)
(* The first state and every step.                                         *)
(***************************************************************************)

LEMMA InitHolds == ASSUME Init PROVE CopiesInv
<1>1. folders \in Seq(Roots) /\ FolderSet = storedFolders
  BY StoredFolders DEF Init, FolderSet
<1>2. batch = <<>> /\ Entries(batch) = {} /\ todo = folders /\ ScannedRoots = FolderSet
  <2>1. batch = <<>> /\ Entries(batch) = {} /\ todo = folders
    BY EmptyBatch DEF Init
  <2> QED BY <2>1 DEF ScannedRoots, FolderSet
<1>3. TypeOK
  <2>1. WorldOK /\ HistoryOK
    <3>1. disk \in [Files -> Nat]
      BY DEF Init
    <3>2. lastVersion \in Nat /\ away \subseteq Roots /\ failing \in BOOLEAN /\ events \in 0 .. MaxEvents
      <4>1. lastVersion = 1 /\ away = {} /\ events = 0
        BY DEF Init
      <4>2. failing \in BOOLEAN
        BY DEF Init
      <4>3. 0 \in 0 .. MaxEvents
        BY LimitsAssumption
      <4> QED BY <4>1, <4>2, <4>3
    <3>3. HistoryOK
      BY DEF Init, HistoryOK
    <3> QED BY <3>1, <3>2, <3>3 DEF WorldOK
  <2>2. MainOK
    BY <1>1, NoRowsTable DEF Init, MainOK
  <2>3. RootOK
    BY NoRowsTable DEF Init, RootOK
  <2>4. BatchOK
    BY <1>1, <1>2, EmptyBatch, NoRowsTable, LimitsAssumption DEF Init, BatchOK
  <2> QED BY <2>1, <2>2, <2>3, <2>4 DEF Init, TypeOK, ScanOK
<1>4. ScanInv
  BY <1>2 DEF Init, ScanInv
<1>5. OwnedRows
  BY <1>1, NoRowsTable DEF Init, OwnedRows
<1>6. RowsInv
  <2>1. KnownRows = {NoRows}
    BY <1>2 DEF Init, KnownRows
  <2> QED BY <2>1, NoRowsTable DEF Init, RowsInv
<1> QED BY <1>3, <1>4, <1>5, <1>6 DEF CopiesInv

LEMMA EventLoopStep == ASSUME CopiesInv, EventLoop PROVE CopiesInv'
<1>1. ASSUME NEW r \in Roots, AddFolder(r) \/ RemoveFolder(r) PROVE CopiesInv'
  BY <1>1, AddFolderStep, RemoveFolderStep
<1>2. CASE RescanClicked
  BY <1>2, RepeatStep DEF RescanClicked
<1>3. CASE DebounceFires
  BY <1>3, RepeatStep DEF DebounceFires
<1> QED BY <1>1, <1>2, <1>3, NoticedStep, TakeResultStep, SynchronizeStep, FinishApplyStep DEF EventLoop

LEMMA ScanThreadStep == ASSUME CopiesInv, ScanThread PROVE CopiesInv'
  BY EnterRootStep, ListRootStep, StatFileStep, ReadFileStep, LeaveRootStep, ScanEndsStep DEF ScanThread

LEMMA EnvironmentStep == ASSUME CopiesInv, Environment PROVE CopiesInv'
<1>1. ASSUME NEW f \in Files, WriteFile(f) \/ DeleteFile(f) PROVE CopiesInv'
  BY <1>1, WriteFileStep, DeleteFileStep
<1>2. ASSUME NEW r \in Volumes, Unmount(r) \/ Mount(r) PROVE CopiesInv'
  BY <1>2, VolumeStep
<1> QED BY <1>1, <1>2, RestartStep, StorageStep DEF Environment

(***************************************************************************)
(* What a listing is worth.                                                *)
(***************************************************************************)

LiesInside(rows) == \A f \in DOMAIN rows : f \in In(rows[f].root)

GoodListing(s) ==
  Listed(s.root, DOMAIN s.found, s.observed) /\ (s.complete => Whole(s.root, s.observed))

ScanListed == RootListed /\ BatchListed /\ AbsentAreLost /\ IdleIsEmpty

LEMMA WholeKept ==
  ASSUME NEW r, NEW seen, Whole(r, seen), lost \subseteq lost' PROVE Whole(r, seen)'
  BY DEF Whole, Excused, MountedInside, In, HomeIn

LEMMA GoodListingKept ==
  ASSUME NEW s, GoodListing(s), lost \subseteq lost' PROVE GoodListing(s)'
<1>1. Listed(s.root, DOMAIN s.found, s.observed)'
  BY DEF GoodListing, Listed, In, HomeIn
<1>2. s.complete => Whole(s.root, s.observed)'
  BY WholeKept DEF GoodListing
<1> QED BY <1>1, <1>2 DEF GoodListing

LEMMA IdleHasNone == ASSUME IdleIsEmpty, scan = "idle" PROVE Entries(batch) = {}
  BY EmptyBatch DEF IdleIsEmpty

LEMMA BatchListedKept ==
  ASSUME BatchListed, IdleIsEmpty, Entries(batch)' \subseteq Entries(batch),
         scan # "idle" => lost \subseteq lost'
  PROVE  BatchListed'
<1>1. ASSUME NEW s \in Entries(batch)' PROVE GoodListing(s)'
  <2>1. s \in Entries(batch) /\ lost \subseteq lost'
    BY <1>1, IdleHasNone
  <2>2. GoodListing(s)
    BY <2>1 DEF BatchListed, GoodListing
  <2> QED BY <2>1, <2>2, GoodListingKept
<1> QED BY <1>1 DEF BatchListed, GoodListing

(* A step of somebody else, which may make files absent and volumes come back. *)
LEMMA ScanListedKept ==
  ASSUME CopiesInv, ScanListed, UNCHANGED scanVars,
         scan # "idle" => lost \subseteq lost',
         scan # "idle" => \A f \in Files : disk'[f] = 0 => disk[f] = 0 \/ f \in lost',
         step = "files" /\ Reachable(root)' => Reachable(root) \/ In(root) \subseteq lost'
  PROVE  ScanListed'
<1> USE DEF ScanListed
<1>1. /\ UNCHANGED <<scan, step, root, found, current, batch>>
      /\ UNCHANGED <<left, observed, complete>>
  BY SameScan DEF scanVars, rootVars
<1>2. BatchListed'
  BY <1>1, BatchListedKept DEF Entries
<1>3. AbsentAreLost' /\ IdleIsEmpty'
  BY <1>1 DEF AbsentAreLost, IdleIsEmpty
<1>4. RootListed'
  <2>1. NoRows' = NoRows
    BY DEF NoRows
  <2>2. CASE step # "files"
    BY <1>1, <2>1, <2>2 DEF RootListed
  <2>3. CASE step = "files"
    <3>1. scan # "idle" /\ lost \subseteq lost'
      BY <2>3 DEF CopiesInv, ScanInv
    <3>2. PICK r, seen : r = root /\ seen = observed
      OBVIOUS
    <3>3. Listed(root, DOMAIN found \cup left \cup ({current} \ {None}), observed)'
      BY <1>1, <2>3 DEF RootListed, Listed, In, HomeIn
    <3>4. ASSUME complete', Reachable(root)' PROVE Whole(r, seen)'
      <4>1. CASE Reachable(root)
        BY <1>1, <2>3, <3>1, <3>2, <3>4, <4>1, WholeKept DEF RootListed
      <4>2. CASE In(root) \subseteq lost'
        BY <3>2, <4>2 DEF Whole, Excused, In, HomeIn
      <4> QED BY <2>3, <3>4, <4>1, <4>2
    <3>5. root' = r /\ observed' = seen
      BY <1>1, <3>2
    <3> QED BY <2>3, <1>1, <3>3, <3>4, <3>5 DEF RootListed
  <2> QED BY <2>2, <2>3
<1> QED BY <1>2, <1>3, <1>4

LEMMA RowsLie ==
  ASSUME RowsLieInside, \A rows \in KnownRows' : rows \in KnownRows \/ LiesInside(rows)
  PROVE  RowsLieInside'
<1>1. ASSUME NEW rows \in KnownRows' PROVE LiesInside(rows)
  BY <1>1 DEF RowsLieInside, LiesInside
<1> QED BY <1>1 DEF RowsLieInside, LiesInside, In, HomeIn

LEMMA NoneLies == LiesInside(NoRows)
  BY NoRowsTable DEF LiesInside

(* A scan that begins has listed nothing, and nothing is absent unnoticed. *)
LEMMA ListingAtStart ==
  ASSUME NEW rows, NEW roots, NEW rev, StartScan(rows, roots, rev), UNCHANGED disk
  PROVE  ScanListed'
<1>1. /\ batch' = <<>> /\ Entries(batch)' = {} /\ scan' = "running" /\ step' = "next"
      /\ found' = NoRows /\ lost' = {f \in Files : disk[f] = 0}
  BY EmptyBatch DEF StartScan, AtNoRoot, Entries
<1>2. NoRows' = NoRows
  BY DEF NoRows
<1> QED BY <1>1, <1>2 DEF ScanListed, RootListed, BatchListed, AbsentAreLost, IdleIsEmpty

LEMMA ListingAtStop ==
  ASSUME NoScan PROVE ScanListed'
<1>1. /\ batch' = <<>> /\ Entries(batch)' = {} /\ scan' = "idle" /\ step' = "next"
      /\ found' = NoRows
  BY EmptyBatch DEF NoScan, AtNoRoot, Entries
<1>2. NoRows' = NoRows
  BY DEF NoRows
<1> QED BY <1>1, <1>2 DEF ScanListed, RootListed, BatchListed, AbsentAreLost, IdleIsEmpty

(* The world is the same, and so is the scan. *)
LEMMA ScanListedSame ==
  ASSUME CopiesInv, ScanListed, UNCHANGED <<scanVars, disk, away, lost>> PROVE ScanListed'
<1>1. root' = root
  BY SameScan
<1>2. Reachable(root)' = Reachable(root)
  BY <1>1 DEF Reachable
<1> QED BY <1>2, ScanListedKept

LEMMA RescanListed ==
  ASSUME CopiesInv, ScanListed, RowsLieInside, NEW rows, NEW roots \in Seq(Roots), NEW rev \in Nat,
         IsTable(rows), tracks' = rows, LiesInside(rows), Rescan(rows, roots, rev),
         UNCHANGED <<disk, away>>
  PROVE  ScanListed' /\ RowsLieInside'
<1>1. CASE UNCHANGED <<scanVars, lost>>
  <2>1. ScanListed'
    BY <1>1, ScanListedSame
  <2>2. KnownRows' \subseteq KnownRows \cup {rows}
    BY <1>1, SameScan DEF KnownRows, Entries
  <2> QED BY <2>1, <2>2, RowsLie
<1>2. CASE StartScan(rows, roots, rev)
  <2>1. KnownRows' = {rows, NoRows}
    BY <1>2, ScanStarts, LimitsAssumption
  <2> QED BY <1>2, <2>1, RowsLie, NoneLies, ListingAtStart
<1> QED BY <1>1, <1>2 DEF Rescan, history

LEMMA ListingIs == ListingInv <=> ScanListed /\ RowsLieInside /\ FoldersDiffer
  BY DEF ListingInv, ScanListed

LEMMA DifferKept == ASSUME FoldersDiffer, UNCHANGED folders PROVE FoldersDiffer'
  BY DEF FoldersDiffer

LEMMA RowsLieKept ==
  ASSUME RowsLieInside, UNCHANGED <<tracks, previous, found, batch>> PROVE RowsLieInside'
  BY SameRows, RowsLie

LEMMA ListingKept ==
  ASSUME CopiesInv, ListingInv, UNCHANGED <<scanVars, tracks, folders>>,
         scan # "idle" => lost \subseteq lost',
         scan # "idle" => \A f \in Files : disk'[f] = 0 => disk[f] = 0 \/ f \in lost',
         step = "files" /\ Reachable(root)' => Reachable(root) \/ In(root) \subseteq lost'
  PROVE  ListingInv'
<1>1. ScanListed'
  BY ListingIs, ScanListedKept
<1>2. UNCHANGED <<tracks, previous, found, batch>>
  BY SameScan
<1>3. RowsLieInside' /\ FoldersDiffer'
  BY <1>2, ListingIs, RowsLieKept, DifferKept
<1> QED BY <1>1, <1>3 DEF ListingInv, ScanListed

LEMMA ListingSame ==
  ASSUME CopiesInv, ListingInv, UNCHANGED <<scanVars, tracks, folders, disk, away, lost>>
  PROVE  ListingInv'
<1>1. root' = root
  BY SameScan
<1>2. Reachable(root)' = Reachable(root)
  BY <1>1 DEF Reachable
<1> QED BY <1>2, ListingKept

LEMMA StutterListed == ASSUME CopiesInv, ListingInv, UNCHANGED vars PROVE ListingInv'
  BY ListingSame DEF vars, world, mainVars, database, folderVars, history

LEMMA NoticedListed == ASSUME CopiesInv, ListingInv, Noticed PROVE ListingInv'
  BY ListingSame DEF Noticed, world, database, folderVars, history

LEMMA StorageListed == ASSUME CopiesInv, ListingInv, Fail \/ Recover PROVE ListingInv'
  BY ListingSame DEF Fail, Recover, mainVars, database, folderVars, history

LEMMA AddFolderListed == ASSUME CopiesInv, ListingInv, NEW r \in Roots, AddFolder(r) PROVE ListingInv'
<1>1. /\ r \notin FolderSet /\ folders' = Append(folders, r) /\ Rescan(tracks, folders', revision')
      /\ UNCHANGED <<disk, away, tracks>> /\ revision' = revision + 1
  BY DEF AddFolder, database
<1>2. folders \in Seq(Roots) /\ IsTable(tracks) /\ revision \in Nat
  BY DEF CopiesInv, TypeOK, MainOK
<1>3. PICK roots, rev : roots = folders' /\ rev = revision'
  OBVIOUS
<1>4. roots \in Seq(Roots) /\ rev \in Nat
  BY <1>1, <1>2, <1>3
<1>5. LiesInside(tracks)
  BY DEF ListingInv, RowsLieInside, LiesInside, KnownRows
<1>6. ScanListed' /\ RowsLieInside'
  BY <1>1, <1>2, <1>3, <1>4, <1>5, ListingIs, RescanListed
<1>7. FoldersDiffer'
  BY <1>1, <1>2, AppendDiffers DEF FolderSet, FoldersDiffer, ListingInv
<1> QED BY <1>6, <1>7 DEF ListingInv, ScanListed

(* The folders a removed folder leaves, and the rows. *)
LEMMA FolderGoes ==
  ASSUME CopiesInv, ListingInv, NEW r \in Roots, RemoveFolder(r)
  PROVE  /\ r \notin FolderSet' /\ FoldersDiffer' /\ folders' \in Seq(Roots)
         /\ IsTable(tracks') /\ DOMAIN tracks' = DOMAIN tracks \ OwnedBy(tracks, r)
         /\ \A f \in DOMAIN tracks' : tracks'[f] = tracks[f]
<1>1. folders \in Seq(Roots) /\ IsTable(tracks)
  BY DEF CopiesInv, TypeOK, MainOK
<1>2. PICK i \in DOMAIN folders : folders[i] = r /\ folders' = CutAt(folders, i)
  BY DEF RemoveFolder, CutAt
<1>3. PICK roots : roots = folders'
  OBVIOUS
<1>4. /\ roots \in Seq(Roots) /\ r \notin Entries(roots)
      /\ \A j, k \in DOMAIN roots : roots[j] = roots[k] => j = k
  <2>1. \A j, k \in DOMAIN folders : folders[j] = folders[k] => j = k
    BY DEF ListingInv, FoldersDiffer
  <2>2. /\ CutAt(folders, i) \in Seq(Roots) /\ folders[i] \notin Entries(CutAt(folders, i))
        /\ \A j, k \in DOMAIN CutAt(folders, i) :
             CutAt(folders, i)[j] = CutAt(folders, i)[k] => j = k
    BY <1>1, <2>1, CutDiffers, CutProperties
  <2> QED BY <1>2, <1>3, <2>2
<1>5. r \notin FolderSet' /\ FoldersDiffer' /\ folders' \in Seq(Roots)
  BY <1>3, <1>4 DEF FolderSet, FoldersDiffer
<1>6. tracks' = Without(tracks, OwnedBy(tracks, r))
  BY DEF RemoveFolder, FolderRemoved
<1>7. PICK rows : rows = tracks'
  OBVIOUS
<1>8. /\ IsTable(rows) /\ DOMAIN rows = DOMAIN tracks \ OwnedBy(tracks, r)
      /\ \A f \in DOMAIN rows : rows[f] = tracks[f]
  <2>1. PICK gone : gone = OwnedBy(tracks, r)
    OBVIOUS
  <2>2. /\ IsTable(Without(tracks, gone)) /\ DOMAIN Without(tracks, gone) = DOMAIN tracks \ gone
        /\ \A f \in DOMAIN tracks \ gone : Without(tracks, gone)[f] = tracks[f]
    BY <1>1, WithoutTable
  <2> QED BY <1>6, <1>7, <2>1, <2>2
<1> QED BY <1>5, <1>7, <1>8

LEMMA RemoveFolderListed ==
  ASSUME CopiesInv, ListingInv, NEW r \in Roots, RemoveFolder(r) PROVE ListingInv'
<1>1. /\ Rescan(tracks', folders', revision') /\ UNCHANGED <<disk, away>>
      /\ revision' = revision + 1 /\ revision \in Nat
  BY DEF RemoveFolder, CopiesInv, TypeOK, MainOK
<1>2. PICK rows, roots, rev : rows = tracks' /\ roots = folders' /\ rev = revision'
  OBVIOUS
<1>3. /\ FoldersDiffer' /\ roots \in Seq(Roots) /\ IsTable(rows) /\ DOMAIN rows \subseteq DOMAIN tracks
      /\ \A f \in DOMAIN rows : rows[f] = tracks[f]
  BY <1>2, FolderGoes
<1>4. LiesInside(rows)
  <2>1. LiesInside(tracks)
    BY DEF ListingInv, RowsLieInside, LiesInside, KnownRows
  <2> QED BY <1>3, <2>1 DEF LiesInside
<1>5. rev \in Nat /\ Rescan(rows, roots, rev)
  BY <1>1, <1>2
<1>6. ScanListed' /\ RowsLieInside'
  BY <1>1, <1>2, <1>3, <1>4, <1>5, ListingIs, RescanListed
<1> QED BY <1>3, <1>6 DEF ListingInv, ScanListed

LEMMA RepeatListed ==
  ASSUME CopiesInv, ListingInv, Rescan(tracks, folders, revision),
         UNCHANGED <<world, database, folderVars>>
  PROVE  ListingInv'
<1>1. folders \in Seq(Roots) /\ IsTable(tracks) /\ revision \in Nat
  BY DEF CopiesInv, TypeOK, MainOK
<1>2. UNCHANGED <<tracks, folders, disk, away>>
  BY DEF world, database, folderVars
<1>3. LiesInside(tracks)
  BY DEF ListingInv, RowsLieInside, LiesInside, KnownRows
<1>4. ScanListed' /\ RowsLieInside'
  BY <1>1, <1>2, <1>3, ListingIs, RescanListed
<1> QED BY <1>2, <1>4, DifferKept DEF ListingInv, ScanListed

LEMMA AfterwardsListed ==
  ASSUME CopiesInv, ListingInv, RescanAfter(folders) \/ NoScan,
         UNCHANGED <<tracks, folders, disk>>
  PROVE  ListingInv'
<1>1. folders \in Seq(Roots) /\ IsTable(tracks) /\ revision \in Nat
  BY DEF CopiesInv, TypeOK, MainOK
<1>2. LiesInside(tracks)
  BY DEF ListingInv, RowsLieInside, LiesInside, KnownRows
<1>3. CASE StartScan(tracks, folders, revision)
  <2>1. KnownRows' = {tracks, NoRows}
    BY <1>1, <1>3, ScanStarts, LimitsAssumption
  <2> QED BY <1>2, <1>3, <2>1, RowsLie, NoneLies, ListingAtStart, DifferKept
          DEF ListingInv, ScanListed
<1>4. CASE NoScan
  <2>1. KnownRows' = {tracks, NoRows}
    BY <1>4, ScanStops, LimitsAssumption
  <2> QED BY <1>2, <1>4, <2>1, RowsLie, NoneLies, ListingAtStop, DifferKept
          DEF ListingInv, ScanListed
<1> QED BY <1>3, <1>4 DEF RescanAfter

LEMMA TakeResultListed == ASSUME CopiesInv, ListingInv, TakeResult PROVE ListingInv'
<1>1. UNCHANGED <<tracks, folders, disk, away>> /\ scan = "finished"
  BY DEF TakeResult, world, database, folderVars
<1>2. CASE RescanAfter(folders)
  BY <1>1, <1>2, AfterwardsListed
<1>3. CASE scan' = "applying" /\ UNCHANGED <<rootVars, batchVars, history>>
  <2>1. /\ UNCHANGED <<step, root, left, current, found, observed, complete, batch, previous, lost>>
        /\ step = "next"
    BY <1>1, <1>3 DEF rootVars, batchVars, history, CopiesInv, ScanInv
  <2>2. NoRows' = NoRows
    BY DEF NoRows
  <2>3. RootListed' /\ AbsentAreLost' /\ IdleIsEmpty'
    BY <1>1, <1>3, <2>1, <2>2 DEF ListingInv, RootListed, AbsentAreLost, IdleIsEmpty
  <2>4. BatchListed'
    BY <2>1, BatchListedKept DEF Entries, ListingInv
  <2>5. RowsLieInside' /\ FoldersDiffer'
    BY <1>1, <2>1, RowsLieKept, DifferKept DEF ListingInv
  <2> QED BY <2>3, <2>4, <2>5 DEF ListingInv
<1> QED BY <1>2, <1>3 DEF TakeResult

LEMMA FinishApplyListed == ASSUME CopiesInv, ListingInv, FinishApply PROVE ListingInv'
<1>1. UNCHANGED <<tracks, folders, disk>> /\ (RescanAfter(folders) \/ NoScan)
  BY DEF FinishApply, world, folderVars
<1> QED BY <1>1, AfterwardsListed

(***************************************************************************)
(* The same of the scan's thread.                                          *)
(***************************************************************************)

(* A step of the thread at a root. *)
LEMMA RootListedNow ==
  ASSUME NEW r, NEW files, NEW seen, Listed(r, files, seen),
         complete' /\ Reachable(r)' => Whole(r, seen)',
         root' = r, observed' = seen,
         DOMAIN found' \cup left' \cup ({current'} \ {None}) \subseteq files, step' = "files"
  PROVE  RootListed'
<1>1. Listed(r, DOMAIN found' \cup left' \cup ({current'} \ {None}), seen)
  BY DEF Listed
<1>2. Listed(root, DOMAIN found \cup left \cup ({current} \ {None}), observed)'
  BY <1>1 DEF Listed, In, HomeIn
<1>3. complete' /\ Reachable(root)' => Whole(root, observed)'
  OBVIOUS
<1> QED BY <1>2, <1>3 DEF RootListed

LEMMA ThreadListed ==
  ASSUME CopiesInv, ListingInv, RootListed', RowsLieInside', BatchListed',
         UNCHANGED <<disk, lost, folders>>, scan = "running", scan' # "idle"
  PROVE  ListingInv'
<1>1. AbsentAreLost' /\ IdleIsEmpty'
  BY DEF ListingInv, AbsentAreLost, IdleIsEmpty
<1> QED BY <1>1, DifferKept DEF ListingInv

LEMMA BatchListedGrows ==
  ASSUME BatchListed, TypeOK, NEW s, IsScan(s), batch' = Append(batch, s), GoodListing(s),
         UNCHANGED lost
  PROVE  BatchListed'
<1>1. Entries(batch)' = Entries(batch) \cup {s}
  BY BatchGrows
<1>2. ASSUME NEW e \in Entries(batch)' PROVE GoodListing(e)'
  <2>1. GoodListing(e)
    BY <1>1, <1>2 DEF BatchListed, GoodListing
  <2> QED BY <2>1, GoodListingKept
<1> QED BY <1>2 DEF BatchListed, GoodListing

LEMMA EnterRootListed == ASSUME CopiesInv, ListingInv, EnterRoot PROVE ListingInv'
<1>1. /\ scan = "running" /\ step = "next" /\ step' # "files" /\ scan' = scan /\ found' = found
      /\ todo # <<>>
      /\ UNCHANGED <<disk, lost, folders, tracks, previous>>
  BY DEF EnterRoot, world, mainVars, database, folderVars, history
<1>2. RootListed'
  <2>1. NoRows' = NoRows
    BY DEF NoRows
  <2> QED BY <1>1, <2>1 DEF ListingInv, RootListed
<1>3. CASE batch' = batch
  <2>1. RowsLieInside' /\ BatchListed'
    BY <1>1, <1>3, RowsLieKept, BatchListedKept DEF ListingInv, Entries
  <2> QED BY <1>1, <1>2, <2>1, ThreadListed
<1>4. CASE batch' = Append(batch, ScanOf(Head(todo), NoRows, {}, FALSE))
  <2>1. PICK s : s = ScanOf(Head(todo), NoRows, {}, FALSE)
    OBVIOUS
  <2>2. todo \in Seq(Roots) /\ TypeOK
    BY DEF CopiesInv, TypeOK, ScanOK, BatchOK
  <2>3. Head(todo) \in Roots
    BY <1>1, <2>2, TailEntries
  <2>4. IsScan(s) /\ s.found = NoRows /\ s.observed = {} /\ s.complete = FALSE
    BY <2>1, <2>3, NoRowsTable DEF IsScan, ScanOf
  <2>5. GoodListing(s)
    <3>1. DOMAIN s.found = {}
      BY <2>4, NoRowsTable
    <3> QED BY <2>4, <3>1 DEF GoodListing, Listed
  <2>6. BatchListed'
    BY <1>1, <1>4, <2>1, <2>2, <2>4, <2>5, BatchListedGrows DEF ListingInv
  <2>7. RowsLieInside'
    <3>1. Entries(batch)' = Entries(batch) \cup {s}
      BY <1>4, <2>1, <2>2, <2>4, BatchGrows
    <3>2. KnownRows' \subseteq KnownRows \cup {NoRows}
      BY <1>1, <2>4, <3>1 DEF KnownRows
    <3> QED BY <3>2, RowsLie, NoneLies DEF ListingInv
  <2> QED BY <1>1, <1>2, <2>6, <2>7, ThreadListed
<1> QED BY <1>3, <1>4 DEF EnterRoot

(* Whatever the traversal of a folder that was there did not return: it was    *)
(* absent, or on a volume inside that was away.                             *)
LEMMA UnlistedExcused ==
  ASSUME CopiesInv, AbsentAreLost, scan = "running", NEW r \in Roots, Reachable(r),
         NEW f \in In(r), ~Readable(f)
  PROVE  Excused(f, r)
<1>1. f \in Files /\ Home[f] \in Below[r]
  BY DEF In, HomeIn
<1>2. CASE disk[f] = 0
  BY <1>1, <1>2 DEF AbsentAreLost, Excused
<1>3. CASE ~Reachable(Home[f])
  <2>1. PICK v \in away : Home[f] \in Below[v]
    BY <1>3 DEF Reachable
  <2>2. v \in Roots /\ r \notin Below[v]
    BY DEF CopiesInv, TypeOK, WorldOK, Reachable
  <2>3. v \in Below[r] /\ v # r
    <3>1. Below[r] \cap Below[v] # {}
      BY <1>1, <2>1
    <3> QED BY <2>2, <3>1, TreeAssumption
  <2>4. f \in In(v)
    BY <1>1, <2>1 DEF In, HomeIn
  <2> QED BY <2>2, <2>3, <2>4 DEF Excused, MountedInside
<1> QED BY <1>2, <1>3 DEF Readable

LEMMA RootAt == ASSUME CopiesInv, step # "next" PROVE root \in Roots
<1>1. todo # <<>> /\ root = Head(todo) /\ todo \in Seq(Roots)
  BY DEF CopiesInv, ScanInv, TypeOK, ScanOK, BatchOK
<1> QED BY <1>1, TailEntries

LEMMA ListRootListed == ASSUME CopiesInv, ListingInv, ListRoot PROVE ListingInv'
<1>1. /\ UNCHANGED <<world, mainVars, scan, root, current, found, previous, batch, lost>>
      /\ scan = "running" /\ step = "list" /\ step' = "files"
  BY DEF ListRoot
<1>2. PICK r, files : r = root /\ files = {f \in In(r) : Readable(f)}
  OBVIOUS
<1>3. PICK listed \in SUBSET files, failed \in BOOLEAN :
        /\ failed \/ ~Reachable(r) \/ listed = files
        /\ left' = listed /\ observed' = listed /\ complete' = ~failed
  BY <1>2 DEF ListRoot
<1>4. r \in Roots /\ current = None /\ found = NoRows
  BY <1>1, <1>2, RootAt DEF CopiesInv, ScanInv, ListingInv, RootListed
<1>5. UNCHANGED <<disk, away, lost, folders, tracks>> /\ Reachable(r)' = Reachable(r)
  BY <1>1 DEF world, mainVars, database, folderVars, Reachable
<1>6. complete' /\ Reachable(r)' => Whole(r, listed)'
  <2>1. SUFFICES ASSUME complete', Reachable(r) PROVE Whole(r, listed)'
    BY <1>5
  <2>2. listed = files
    BY <1>3, <2>1
  <2>3. Whole(r, listed)
    BY <1>1, <1>2, <1>4, <2>1, <2>2, UnlistedExcused DEF Whole, ListingInv
  <2> QED BY <1>5, <2>3, WholeKept
<1>7. Listed(r, listed, listed)
  BY <1>2 DEF Listed
<1>8. DOMAIN found' \cup left' \cup ({current'} \ {None}) \subseteq listed
  BY <1>1, <1>3, <1>4, NoRowsTable
<1>9. RootListed'
  BY <1>1, <1>2, <1>3, <1>6, <1>7, <1>8, RootListedNow
<1>10. RowsLieInside' /\ BatchListed'
  BY <1>1, <1>5, RowsLieKept, BatchListedKept DEF ListingInv, Entries
<1> QED BY <1>1, <1>5, <1>9, <1>10, ThreadListed

(* A file of the listing is read, or found as it was. *)
LEMMA FileListed ==
  ASSUME CopiesInv, ListingInv, scan = "running", step = "files",
         UNCHANGED <<disk, away, lost, folders, tracks, scan, step, root, observed, complete,
                     previous, batch>>,
         LiesInside(found'),
         DOMAIN found' \cup left' \cup ({current'} \ {None})
           \subseteq DOMAIN found \cup left \cup ({current} \ {None})
  PROVE  ListingInv'
<1>1. PICK r, seen, files : /\ r = root /\ seen = observed
                            /\ files = DOMAIN found \cup left \cup ({current} \ {None})
  OBVIOUS
<1>2. Listed(r, files, seen) /\ (complete /\ Reachable(r) => Whole(r, seen))
  BY <1>1 DEF ListingInv, RootListed
<1>3. complete' /\ Reachable(r)' => Whole(r, seen)'
  BY <1>2, WholeKept DEF Reachable
<1>4. RootListed'
  BY <1>1, <1>2, <1>3, RootListedNow
<1>5. BatchListed'
  BY BatchListedKept DEF ListingInv, Entries
<1>6. RowsLieInside'
  <2>1. KnownRows' \subseteq KnownRows \cup {found'}
    BY DEF KnownRows, Entries
  <2> QED BY <2>1, RowsLie DEF ListingInv
<1> QED BY <1>4, <1>5, <1>6, ThreadListed

LEMMA OneMoreLies ==
  ASSUME NEW rows, IsTable(rows), LiesInside(rows), NEW f \in Files, NEW row \in Row, f \in In(row.root)
  PROVE  LiesInside(With(rows, f, row)) /\ DOMAIN With(rows, f, row) = DOMAIN rows \cup {f}
<1>1. PICK new : new = With(rows, f, row)
  OBVIOUS
<1>2. /\ DOMAIN new = DOMAIN rows \cup {f} /\ new[f] = row
      /\ \A g \in DOMAIN rows \ {f} : new[g] = rows[g]
  <2>1. /\ DOMAIN With(rows, f, row) = DOMAIN rows \cup {f}
        /\ With(rows, f, row)[f] = row
        /\ \A g \in DOMAIN rows \ {f} : With(rows, f, row)[g] = rows[g]
    BY WithTable
  <2> QED BY <1>1, <2>1
<1>3. ASSUME NEW g \in DOMAIN new PROVE g \in In(new[g].root)
  BY <1>2, <1>3 DEF LiesInside
<1> QED BY <1>1, <1>2, <1>3 DEF LiesInside

LEMMA KnownLie ==
  ASSUME CopiesInv, ListingInv
  PROVE  /\ IsTable(found) /\ LiesInside(found) /\ IsTable(previous) /\ LiesInside(previous)
         /\ IsTable(tracks) /\ LiesInside(tracks)
<1>1. {found, previous, tracks} \subseteq KnownRows
  BY DEF KnownRows
<1>2. IsTable(found) /\ IsTable(previous) /\ IsTable(tracks)
  BY <1>1, KnownTables DEF CopiesInv
<1> QED BY <1>1, <1>2 DEF ListingInv, RowsLieInside, LiesInside

LEMMA StatFileListed == ASSUME CopiesInv, ListingInv, NEW f \in Files, StatFile(f) PROVE ListingInv'
<1>1. /\ scan = "running" /\ step = "files" /\ f \in left
      /\ UNCHANGED <<disk, away, lost, folders, tracks, scan, step, root, observed, complete,
                     previous, batch>>
  BY DEF StatFile, world, mainVars, database, folderVars, history, batchVars
<1>2. CASE /\ f \in DOMAIN previous
           /\ found' = With(found, f, previous[f]) /\ left' = left \ {f} /\ UNCHANGED current
  <2>1. PICK row : row = previous[f]
    OBVIOUS
  <2>2. row \in Row /\ f \in In(row.root)
    BY <1>2, <2>1, KnownLie, TableRows DEF LiesInside
  <2>3. LiesInside(found') /\ DOMAIN found' = DOMAIN found \cup {f}
    BY <1>2, <2>1, <2>2, KnownLie, OneMoreLies
  <2> QED BY <1>1, <1>2, <2>3, FileListed
<1>3. CASE current' = f /\ UNCHANGED <<found, left>>
  BY <1>1, <1>3, KnownLie, FileListed
<1> QED BY <1>2, <1>3 DEF StatFile

LEMMA ReadFileListed == ASSUME CopiesInv, ListingInv, ReadFile PROVE ListingInv'
<1>1. /\ scan = "running" /\ current # None /\ left' = left \ {current} /\ current' = None
      /\ UNCHANGED <<disk, away, lost, folders, tracks, scan, step, root, observed, complete,
                     previous, batch>>
  BY DEF ReadFile, world, folderVars, batchVars
<1>2. step = "files" /\ current \in Files /\ root \in Roots
  BY <1>1, RootAt DEF CopiesInv, ScanInv, TypeOK, ScanOK, RootOK
<1>3. current \in In(root)
  BY <1>1, <1>2 DEF ListingInv, RootListed, Listed
<1>4. ASSUME NEW row \in Row, current \in In(row.root), found' = With(found, current, row)
      PROVE  ListingInv'
  <2>1. LiesInside(found') /\ DOMAIN found' = DOMAIN found \cup {current}
    BY <1>2, <1>4, KnownLie, OneMoreLies
  <2> QED BY <1>1, <1>2, <2>1, FileListed
<1>5. CASE found' = With(found, current, RowOf(current))
  <2>1. PICK row : row = RowOf(current)
    OBVIOUS
  <2>2. disk[current] \in Nat /\ stat \in Nat /\ failing \in BOOLEAN
    BY <1>2 DEF CopiesInv, TypeOK, WorldOK, ScanOK, RootOK
  <2>3. row \in Row /\ row.root = root
    BY <1>2, <2>1, <2>2 DEF RowOf, Row
  <2> QED BY <1>3, <1>4, <1>5, <2>1, <2>3
<1>6. CASE current \in DOMAIN previous /\ found' = With(found, current, previous[current])
  <2>1. PICK row : row = previous[current]
    OBVIOUS
  <2>2. row \in Row /\ current \in In(row.root)
    BY <1>6, <2>1, KnownLie, TableRows DEF LiesInside
  <2> QED BY <1>4, <1>6, <2>1, <2>2
<1>7. CASE found' = found
  BY <1>1, <1>2, <1>7, KnownLie, FileListed
<1> QED BY <1>5, <1>6, <1>7 DEF ReadFile

LEMMA LeaveRootListed == ASSUME CopiesInv, ListingInv, LeaveRoot PROVE ListingInv'
<1>1. /\ scan = "running" /\ step = "files" /\ AtNoRoot("next")
      /\ UNCHANGED <<disk, lost, folders, tracks, scan, previous>>
  BY DEF LeaveRoot, world, mainVars, database, folderVars, history
<1>2. PICK s : s = ScanOf(root, found, observed, complete /\ StillThere)
  OBVIOUS
<1>3. /\ s.root = root /\ s.found = found /\ s.observed = observed
      /\ s.complete = (complete /\ Reachable(root))
  BY <1>2 DEF ScanOf, StillThere
<1>4. IsScan(s)
  <2>1. root \in Roots
    BY <1>1, RootAt
  <2> QED BY <1>2, <2>1 DEF IsScan, ScanOf, CopiesInv, TypeOK, ScanOK, RootOK
<1>5. GoodListing(s)
  <2>1. /\ Listed(root, DOMAIN found \cup left \cup ({current} \ {None}), observed)
        /\ complete /\ Reachable(root) => Whole(root, observed)
    BY <1>1 DEF ListingInv, RootListed
  <2> QED BY <1>3, <2>1 DEF GoodListing, Listed
<1>6. batch' = Append(batch, s)
  BY <1>2 DEF LeaveRoot
<1>7. BatchListed'
  BY <1>1, <1>4, <1>5, <1>6, BatchListedGrows DEF ListingInv, CopiesInv
<1>8. step' = "next" /\ found' = NoRows
  BY <1>1 DEF AtNoRoot
<1>9. RootListed'
  <2>1. NoRows' = NoRows
    BY DEF NoRows
  <2> QED BY <1>8, <2>1 DEF RootListed
<1>10. RowsLieInside'
  <2>1. Entries(batch)' = Entries(batch) \cup {s}
    BY <1>4, <1>6, BatchGrows DEF CopiesInv
  <2>2. KnownRows' \subseteq KnownRows \cup {NoRows}
    BY <1>1, <1>3, <1>8, <2>1 DEF KnownRows
  <2> QED BY <2>2, RowsLie, NoneLies DEF ListingInv
<1> QED BY <1>1, <1>7, <1>9, <1>10, ThreadListed

LEMMA ScanEndsListed == ASSUME CopiesInv, ListingInv, ScanEnds PROVE ListingInv'
<1>1. /\ scan = "running" /\ step = "next" /\ scan' = "finished" /\ previous' = NoRows
      /\ UNCHANGED <<disk, lost, folders, tracks, step, found, batch>>
  BY DEF ScanEnds, world, mainVars, database, folderVars, history, rootVars
<1>2. NoRows' = NoRows
  BY DEF NoRows
<1>3. RootListed' /\ BatchListed'
  BY <1>1, <1>2, BatchListedKept DEF ListingInv, RootListed, Entries
<1>4. RowsLieInside'
  <2>1. KnownRows' \subseteq KnownRows \cup {NoRows}
    BY <1>1 DEF KnownRows, Entries
  <2> QED BY <2>1, RowsLie, NoneLies DEF ListingInv
<1> QED BY <1>1, <1>3, <1>4, ThreadListed

(***************************************************************************)
(* Storing a scan, files and volumes, and a new start.                     *)
(***************************************************************************)

(* Storing a folder's scan removes only rows of that folder that a complete    *)
(* scan did not list.                                                      *)
LEMMA StoringRemoves ==
  ASSUME NEW rows, IsTable(rows), NEW new, IsTable(new), NEW r \in Roots, NEW seen, NEW whole,
         DOMAIN new \subseteq seen, NEW f \in DOMAIN rows,
         f \notin DOMAIN Synchronized(rows, r, new, seen, whole)
  PROVE  whole /\ rows[f].root = r /\ f \notin seen
<1>1. PICK stored : stored = Stored(rows, r, new)
  OBVIOUS
<1>2. PICK gone : gone = OwnedBy(stored, r) \ seen
  OBVIOUS
<1>3. Synchronized(rows, r, new, seen, whole) = IF whole THEN Without(stored, gone) ELSE stored
  BY <1>1, <1>2 DEF Synchronized
<1>4. /\ IsTable(stored) /\ DOMAIN stored = DOMAIN rows \cup DOMAIN new
      /\ \A g \in DOMAIN rows \ DOMAIN new : stored[g] = rows[g]
  <2>1. /\ IsTable(Stored(rows, r, new))
        /\ DOMAIN Stored(rows, r, new) = DOMAIN rows \cup DOMAIN new
        /\ \A g \in DOMAIN rows \ DOMAIN new : Stored(rows, r, new)[g] = rows[g]
    BY StoredTable
  <2> QED BY <1>1, <2>1
<1>5. DOMAIN Without(stored, gone) = DOMAIN stored \ gone
  BY <1>4, WithoutTable
<1>6. whole /\ f \in gone
  BY <1>3, <1>4, <1>5
<1> QED BY <1>2, <1>4, <1>6 DEF OwnedBy

LEMMA ScanToStore ==
  ASSUME CopiesInv, ListingInv, batch # <<>>
  PROVE  /\ Head(batch) \in Entries(batch) /\ IsScan(Head(batch)) /\ GoodListing(Head(batch))
         /\ Head(batch).root \in Roots /\ IsTable(Head(batch).found)
         /\ Head(batch).found \in KnownRows /\ Entries(Tail(batch)) \subseteq Entries(batch)
<1>1. batch \in Seq(Entries(batch)) /\ \A e \in Entries(batch) : IsScan(e)
  BY DEF CopiesInv, TypeOK, ScanOK, BatchOK
<1>2. Head(batch) \in Entries(batch) /\ Entries(Tail(batch)) \subseteq Entries(batch)
  BY <1>1, TailEntries
<1> QED BY <1>1, <1>2 DEF IsScan, ListingInv, BatchListed, GoodListing, KnownRows

LEMMA SynchronizeListed == ASSUME CopiesInv, ListingInv, Synchronize PROVE ListingInv'
<1>1. PICK s : s = Head(batch)
  OBVIOUS
<1>2. /\ scan = "applying" /\ batch # <<>> /\ batch' = Tail(batch)
      /\ UNCHANGED <<disk, lost, folders, scan, step, found, previous>>
  BY DEF Synchronize, world, folderVars, rootVars
<1>3. /\ IsTable(s.found) /\ GoodListing(s) /\ s.root \in Roots /\ s.found \in KnownRows
      /\ Entries(Tail(batch)) \subseteq Entries(batch)
  BY <1>1, <1>2, ScanToStore
<1>4. RootListed'
  <2>1. NoRows' = NoRows /\ step = "next"
    BY <1>2 DEF NoRows, CopiesInv, ScanInv
  <2> QED BY <1>2, <2>1 DEF ListingInv, RootListed
<1>5. BatchListed' /\ AbsentAreLost' /\ IdleIsEmpty'
  <2>1. Entries(batch)' \subseteq Entries(batch)
    BY <1>2, <1>3 DEF Entries
  <2> QED BY <1>2, <2>1, BatchListedKept DEF ListingInv, AbsentAreLost, IdleIsEmpty
<1>6. LiesInside(tracks')
  <2>1. IsTable(tracks) /\ LiesInside(tracks)
    BY KnownLie
  <2>2. CASE tracks' = tracks
    BY <2>1, <2>2
  <2>3. CASE tracks' = Synchronized(tracks, s.root, s.found, s.observed, s.complete)
    <3>1. PICK rows : rows = tracks'
      OBVIOUS
    <3>2. \A f \in DOMAIN rows :
            \/ f \in DOMAIN s.found /\ Adopted(rows[f], s.found[f], s.root)
            \/ f \in DOMAIN tracks /\ rows[f] = tracks[f]
      BY <1>3, <2>1, <2>3, <3>1, StoringAScan
    <3>3. \A f \in DOMAIN s.found : f \in In(s.root)
      BY <1>3 DEF GoodListing, Listed
    <3>4. LiesInside(rows)
      BY <2>1, <3>2, <3>3 DEF LiesInside, Adopted
    <3> QED BY <3>1, <3>4
  <2> QED BY <1>1, <2>2, <2>3 DEF Synchronize
<1>7. RowsLieInside'
  <2>1. KnownRows' \subseteq KnownRows \cup {tracks'}
    BY <1>2, <1>3 DEF KnownRows, Entries
  <2> QED BY <1>6, <2>1, RowsLie DEF ListingInv
<1> QED BY <1>2, <1>4, <1>5, <1>7, DifferKept DEF ListingInv

LEMMA WriteFileListed == ASSUME CopiesInv, ListingInv, NEW f \in Files, WriteFile(f) PROVE ListingInv'
<1>1. /\ UNCHANGED <<away, scanVars, lost, tracks, folders>> /\ disk' = [disk EXCEPT ![f] = lastVersion']
      /\ lastVersion' = lastVersion + 1
  BY DEF WriteFile, database, folderVars
<1>2. disk \in [Files -> Nat] /\ lastVersion \in Nat
  BY DEF CopiesInv, TypeOK, WorldOK
<1>3. \A g \in Files : disk'[g] = 0 => disk[g] = 0
  BY <1>1, <1>2
<1>4. Reachable(root)' => Reachable(root)
  BY <1>1, SameScan DEF Reachable
<1> QED BY <1>1, <1>3, <1>4, ListingKept

LEMMA DeleteFileListed == ASSUME CopiesInv, ListingInv, NEW f \in Files, DeleteFile(f) PROVE ListingInv'
<1>1. /\ UNCHANGED <<away, scanVars, tracks, folders>> /\ disk' = [disk EXCEPT ![f] = 0]
      /\ lost' = IF scan = "idle" THEN {} ELSE lost \cup {f}
  BY DEF DeleteFile, database, folderVars
<1>2. disk \in [Files -> Nat]
  BY DEF CopiesInv, TypeOK, WorldOK
<1>3. scan # "idle" => lost \subseteq lost' /\ \A g \in Files : disk'[g] = 0 => disk[g] = 0 \/ g \in lost'
  BY <1>1, <1>2
<1>4. Reachable(root)' => Reachable(root)
  BY <1>1, SameScan DEF Reachable
<1> QED BY <1>1, <1>3, <1>4, ListingKept

LEMMA VolumeListed ==
  ASSUME CopiesInv, ListingInv, NEW v \in Volumes, Unmount(v) \/ Mount(v) PROVE ListingInv'
<1>1. UNCHANGED <<scanVars, tracks, folders, disk>>
  BY DEF Unmount, Mount, mainVars, database, folderVars
<1>2. CASE Unmount(v)
  <2>1. away \subseteq away' /\ lost' = lost
    BY <1>2 DEF Unmount, history
  <2>2. Reachable(root)' => Reachable(root)
    BY <1>1, <2>1, SameScan DEF Reachable
  <2> QED BY <1>1, <2>1, <2>2, ListingKept
<1>3. CASE Mount(v)
  <2>1. away' = away \ {v} /\ lost' = IF scan = "idle" THEN {} ELSE lost \cup In(v)
    BY <1>3 DEF Mount
  <2>2. step = "files" /\ Reachable(root)' => Reachable(root) \/ In(root) \subseteq lost'
    <3>1. SUFFICES ASSUME step = "files", Reachable(root)', ~Reachable(root)
                   PROVE  In(root) \subseteq lost'
      OBVIOUS
    <3>2. scan # "idle" /\ root \in Roots /\ v \in Roots
      BY <3>1, RootAt, TreeAssumption DEF CopiesInv, ScanInv
    <3>3. root \in Below[v]
      BY <1>1, <2>1, <3>1, SameScan DEF Reachable
    <3>4. Below[root] \subseteq Below[v]
      BY <3>2, <3>3, TreeAssumption
    <3> QED BY <2>1, <3>2, <3>4 DEF In, HomeIn
  <2> QED BY <1>1, <2>1, <2>2, ListingKept
<1> QED BY <1>2, <1>3

(* Folders read back from the database differ. *)
LEMMA StoredDiffer ==
  ASSUME NEW stored \in SUBSET Roots, NEW s \in AsStored(stored)
  PROVE  \A i, j \in DOMAIN s : s[i] = s[j] => i = j
<1>1. s \in Seq(Roots) /\ Ordered(s)
  BY StoredFolders DEF AsStored
<1>2. ASSUME NEW i \in DOMAIN s, NEW j \in DOMAIN s, s[i] = s[j], i < j PROVE FALSE
  BY <1>1, <1>2, TreeAssumption DEF Ordered
<1>3. ASSUME NEW i \in DOMAIN s, NEW j \in DOMAIN s, s[i] = s[j] PROVE i = j
  <2>1. i \in Nat /\ j \in Nat
    BY <1>1
  <2> QED BY <1>2, <1>3, <2>1
<1> QED BY <1>3

LEMMA RestartListed == ASSUME CopiesInv, ListingInv, Restart PROVE ListingInv'
<1>1. UNCHANGED <<disk, tracks>> /\ folders' \in AsStored(storedFolders) /\ storedFolders \subseteq Roots
  BY DEF Restart, database, CopiesInv, TypeOK, MainOK
<1>2. FoldersDiffer'
  <2>1. PICK roots : roots = folders'
    OBVIOUS
  <2>2. \A i, j \in DOMAIN roots : roots[i] = roots[j] => i = j
    BY <1>1, <2>1, StoredDiffer
  <2> QED BY <2>1, <2>2 DEF FoldersDiffer
<1>3. folders' \in Seq(Roots)
  BY <1>1, StoredFolders
<1>4. CASE StartScan(tracks, folders', 0)
  <2>1. PICK roots : roots = folders'
    OBVIOUS
  <2>2. KnownRows' = {tracks, NoRows}
    <3>1. StartScan(tracks, roots, 0) /\ roots \in Seq(Roots) /\ IsTable(tracks) /\ 0 \in Nat
      BY <1>3, <1>4, <2>1, KnownLie
    <3> QED BY <1>1, <3>1, ScanStarts, LimitsAssumption
  <2>3. ScanListed'
    BY <1>1, <1>4, <2>1, ListingAtStart
  <2> QED BY <1>2, <2>2, <2>3, RowsLie, NoneLies, KnownLie DEF ListingInv, ScanListed
<1>5. CASE NoScan
  <2>1. KnownRows' = {tracks, NoRows}
    BY <1>1, <1>5, ScanStops, LimitsAssumption
  <2> QED BY <1>2, <1>5, <2>1, RowsLie, NoneLies, KnownLie, ListingAtStop DEF ListingInv, ScanListed
<1> QED BY <1>4, <1>5 DEF Restart

LEMMA InitListed == ASSUME Init PROVE ListingInv
<1>1. /\ step = "next" /\ found = NoRows /\ previous = NoRows /\ tracks = NoRows
      /\ batch = <<>> /\ Entries(batch) = {} /\ folders \in AsStored(storedFolders)
      /\ storedFolders \subseteq Roots
  BY EmptyBatch DEF Init
<1>2. RootListed /\ BatchListed /\ IdleIsEmpty
  BY <1>1 DEF RootListed, BatchListed, IdleIsEmpty
<1>3. AbsentAreLost
  BY DEF Init, AbsentAreLost
<1>4. RowsLieInside
  <2>1. KnownRows = {NoRows}
    BY <1>1 DEF KnownRows
  <2> QED BY <2>1, NoneLies DEF RowsLieInside, LiesInside
<1>5. FoldersDiffer
  BY <1>1, StoredDiffer DEF FoldersDiffer
<1> QED BY <1>2, <1>3, <1>4, <1>5 DEF ListingInv

LEMMA NextListed == ASSUME CopiesInv, ListingInv, [Next]_vars PROVE ListingInv'
<1>1. ASSUME NEW r \in Roots, AddFolder(r) \/ RemoveFolder(r) PROVE ListingInv'
  BY <1>1, AddFolderListed, RemoveFolderListed
<1>2. CASE RescanClicked \/ DebounceFires
  BY <1>2, RepeatListed DEF RescanClicked, DebounceFires
<1>3. CASE EventLoop
  BY <1>1, <1>2, <1>3, NoticedListed, TakeResultListed, SynchronizeListed, FinishApplyListed DEF EventLoop
<1>4. CASE ScanThread
  BY <1>4, EnterRootListed, ListRootListed, StatFileListed, ReadFileListed, LeaveRootListed, ScanEndsListed
     DEF ScanThread
<1>5. ASSUME NEW f \in Files, WriteFile(f) \/ DeleteFile(f) PROVE ListingInv'
  BY <1>5, WriteFileListed, DeleteFileListed
<1>6. ASSUME NEW r \in Volumes, Unmount(r) \/ Mount(r) PROVE ListingInv'
  BY <1>6, VolumeListed
<1>7. CASE Environment
  BY <1>5, <1>6, <1>7, RestartListed, StorageListed DEF Environment
<1> QED BY <1>3, <1>4, <1>7, StutterListed DEF Next

(***************************************************************************)
(* What a step may remove.                                                 *)
(***************************************************************************)

LEMMA RemovalsHaveReasons ==
  ASSUME CopiesInv, ListingInv, [Next]_vars, NEW f \in Files, RemovedWithoutReason(f)
  PROVE  MountedInside(f, tracks[f].root)
<1>1. f \in DOMAIN tracks /\ f \notin DOMAIN tracks' /\ tracks[f].root \in FolderSet' /\ f \notin lost
  BY DEF RemovedWithoutReason
<1>2. CASE UNCHANGED tracks
  BY <1>1, <1>2
<1>3. ASSUME NEW r \in Roots, RemoveFolder(r) PROVE FALSE
  <2>1. DOMAIN tracks' = DOMAIN tracks \ OwnedBy(tracks, r) /\ r \notin FolderSet'
    BY <1>3, FolderGoes
  <2> QED BY <1>1, <2>1 DEF OwnedBy
<1>4. CASE Synchronize
  <2>1. PICK s : s = Head(batch)
    OBVIOUS
  <2>2. /\ IsTable(s.found) /\ GoodListing(s) /\ s.root \in Roots
        /\ IsTable(tracks) /\ LiesInside(tracks)
    BY <1>4, <2>1, ScanToStore, KnownLie DEF Synchronize
  <2>3. tracks' = Synchronized(tracks, s.root, s.found, s.observed, s.complete)
    BY <1>1, <1>4, <2>1 DEF Synchronize
  <2>4. DOMAIN s.found \subseteq s.observed
    BY <2>2 DEF GoodListing, Listed
  <2>5. s.complete /\ tracks[f].root = s.root /\ f \notin s.observed
    BY <1>1, <2>2, <2>3, <2>4, StoringRemoves
  <2>6. f \in In(s.root)
    BY <1>1, <2>2, <2>5 DEF LiesInside
  <2>7. Excused(f, s.root)
    BY <2>2, <2>5, <2>6 DEF GoodListing, Whole
  <2> QED BY <1>1, <2>5, <2>7 DEF Excused
<1>5. CASE EventLoop
  <2>1. CASE \E r \in Roots : AddFolder(r)
    BY <1>2, <2>1 DEF AddFolder, database
  <2>2. CASE RescanClicked \/ Noticed \/ DebounceFires \/ TakeResult \/ FinishApply
    BY <1>2, <2>2 DEF RescanClicked, Noticed, DebounceFires, TakeResult, FinishApply, database
  <2> QED BY <1>3, <1>4, <1>5, <2>1, <2>2 DEF EventLoop
<1>6. CASE ScanThread
  BY <1>2, <1>6 DEF ScanThread, EnterRoot, ListRoot, StatFile, ReadFile, LeaveRoot, ScanEnds,
                    mainVars, database
<1>7. CASE Environment
  BY <1>2, <1>7 DEF Environment, WriteFile, DeleteFile, Unmount, Mount, Restart, Fail, Recover,
                    mainVars, database
<1>8. CASE UNCHANGED vars
  BY <1>2, <1>8 DEF vars, mainVars, database
<1> QED BY <1>5, <1>6, <1>7, <1>8 DEF Next

(***************************************************************************)
(* What is always so.                                                      *)
(***************************************************************************)

(* However the event loop, the scan's thread, the file system, its volumes and *)
(* the storage interleave, every row in the table and every row on its way      *)
(* through a scan stays good, a scan is only applied to the folders it was       *)
(* made for, and what a listing left out has a reason to be left out          *)
(* (LibraryIndexer.cpp:169-370).                                            *)
THEOREM LibraryInvariant == Spec => []IInv
<1>1. Init => IInv
  BY InitHolds, InitListed DEF IInv
<1>2. IInv /\ [Next]_vars => IInv'
  BY EventLoopStep, ScanThreadStep, EnvironmentStep, StutterStep, NextListed DEF Next, IInv
<1> QED BY <1>1, <1>2, PTL DEF Spec

(* Every track belongs to a stored folder and every stored folder to the       *)
(* library: a folder removed during its scan does not come back, nor do its     *)
(* tracks (LibraryIndexer.cpp:299-306, LibraryDatabase.cpp:216-240).         *)
THEOREM TracksStayOwned == Spec => []OwnedRows
<1>1. IInv => OwnedRows
  BY DEF IInv, CopiesInv
<1> QED BY <1>1, LibraryInvariant, PTL

(* A row the next scan would take for current holds what is in the file,        *)
(* whatever was written while a scan read it (LibraryIndexer.cpp:229-270).    *)
THEOREM RowsStayCurrent == Spec => []CurrentRowsAreCurrent
<1>1. IInv => CurrentRowsAreCurrent
  BY DEF IInv, CopiesInv, RowsInv, KnownRows, GoodRow, CurrentRowsAreCurrent
<1> QED BY <1>1, LibraryInvariant, PTL

(* Artwork a row refers to is in the cache, whatever scans were dropped and      *)
(* whatever applyScan() pruned (LibraryIndexer.cpp:340-362).                 *)
THEOREM ArtworkStaysCached == Spec => []ArtworkKept
<1>1. IInv => ArtworkKept
  BY DEF IInv, CopiesInv, RowsInv, KnownRows, GoodRow, ArtworkKept
<1> QED BY <1>1, LibraryInvariant, PTL

(* A scan removes a track only if its file was absent meanwhile, or lies on a   *)
(* volume inside the folder that owns it: an incomplete traversal, a volume     *)
(* that goes or comes back while it is read, a folder removed, and batches       *)
(* that are dropped remove none (LibraryIndexer.cpp:185-305,                   *)
(* LibraryDatabase.cpp:122-244; README.md:48).                               *)
THEOREM ScansRemoveOnlyMissing == Spec => OnlyMissingRemoved
<1>1. IInv /\ [Next]_vars =>
        [\A f \in Files : RemovedWithoutReason(f) => MountedInside(f, tracks[f].root)]_vars
  BY RemovalsHaveReasons DEF IInv
<1> QED BY <1>1, LibraryInvariant, PTL DEF Spec, OnlyMissingRemoved
=============================================================================
