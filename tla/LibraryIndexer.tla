--------------------------- MODULE LibraryIndexer ---------------------------
(***************************************************************************)
(* The library indexer (src/library/LibraryIndexer.cpp) with its database    *)
(* and its controller: scans run on a pool thread, everything else on the    *)
(* event loop, and the files change under both.  A version number stands for  *)
(* a file's size, time and content.  Folders may be nested; a volume mounted   *)
(* at a folder may go away, and what is below it is then hidden.              *)
(***************************************************************************)
EXTENDS LibraryDatabase, Sequences, FiniteSets

CONSTANTS
  Files, Dirs, Roots,  \* external: audio files, directories, those the user may add
  Volumes,             \* external: those of them whose volume may go away
  Home,                \* external: the directory of each file
  Below,               \* external: the directories in each folder, itself included
  MaxWatched,          \* maximumWatchedDirectories
  WithArtwork,         \* external: versions of files that hold artwork
  MaxEvents            \* bound: changes of files, volumes and folders, restarts,
                       \* and times the storage begins to fail

None == "none"

ASSUME TreeAssumption ==
  /\ IsFiniteSet(Roots) /\ None \notin Roots \cup Files
  /\ Volumes \subseteq Roots /\ Roots \subseteq Dirs
  /\ Home \in [Files -> Dirs]
  /\ Below \in [Roots -> SUBSET Dirs]
  /\ \A r \in Roots : r \in Below[r] /\ IsFiniteSet(Below[r])
  /\ \A r, s \in Roots : s \in Below[r] => Below[s] \subseteq Below[r]
  /\ \A r, s \in Roots : Below[r] \cap Below[s] # {} => r \in Below[s] \/ s \in Below[r]
ASSUME LimitsAssumption == {MaxWatched, MaxEvents} \subseteq Nat

VARIABLES
  disk,           \* version of each file, 0 when there is none
  away,           \* volumes that are not mounted
  failing,        \* whether the database and the artwork cache fail
  lastVersion,    \* the version last written
  events,         \* how many changes there have been
  tracks,         \* table tracks, with library_file_state
  storedFolders,  \* table library_folders
  artworkCache,   \* files whose artwork is in the cache directory
  folders,        \* m_folders
  revision,       \* m_folderRevision
  pending,        \* m_rescanPending
  debounce,       \* m_rescanDebounce is active
  watched,        \* directories of m_watcher
  notices,        \* its directoryChanged signals not delivered yet
  scan,           \* m_scanWatcher's future: "idle", "running", "finished"; or "applying"
  scanRevision,   \* the batch's folderRevision
  previous,       \* the scan's previousTracks
  todo,           \* roots the scan has not come to
  step,           \* where the scan is at a root
  root, left,     \* that root, or None, and the files listed there and not read yet
  current, stat,  \* the file being read, or None, and the version it was stat'ed at
  found, observed, complete,   \* LibraryFolderScan of that root
  batch,          \* folder scans that are done
  batchDirs, slots,   \* watchedDirectories and the watch slots it leaves
  synchronized,   \* applyScan()'s local
  missed,         \* files whose change nobody noticed, or whose scan failed (history)
  lost            \* files absent, or back from being hidden, since the scan began (history)

world == <<disk, lastVersion, away, failing, events>>
database == <<tracks, storedFolders, artworkCache>>
folderVars == <<folders, revision>>
watcher == <<watched, notices>>
rootVars == <<step, root, left, current, stat, found, observed, complete>>
batchVars == <<scanRevision, previous, todo, batch, batchDirs, slots>>
scanVars == <<scan, rootVars, batchVars>>
mainVars == <<database, folderVars, pending, debounce, watcher, synchronized>>
history == <<missed, lost>>
vars == <<world, mainVars, scanVars, history>>

NoRows == [f \in {} |-> None]
Reachable(d) == \A r \in away : d \notin Below[r]
Readable(f) == disk[f] # 0 /\ Reachable(Home[f])
HomeIn(dirs) == {f \in Files : Home[f] \in dirs}
In(r) == HomeIn(Below[r])
Entries(s) == {s[i] : i \in DOMAIN s}
FolderSet == Entries(folders)

AtNoRoot(next) ==
  /\ step' = next
  /\ root' = None /\ left' = {} /\ current' = None /\ stat' = 0
  /\ found' = NoRows /\ observed' = {} /\ complete' = TRUE

Happens == events < MaxEvents /\ events' = events + 1

(* A path is sorted before the paths below it. *)
Ordered(s) == \A i, j \in DOMAIN s : i < j => s[i] \notin Below[s[j]]
AsStored(stored) ==
  {s \in [1 .. Cardinality(stored) -> stored] : Ordered(s) /\ Entries(s) = stored}

(* The application starts with folders that were empty when it last ran, and  *)
(* scans them.                                                              *)
Init ==
  /\ disk \in [Files -> {0, 1}] /\ lastVersion = 1 /\ away = {}
  /\ failing = FALSE /\ events = 0
  /\ storedFolders \in SUBSET Roots
  /\ tracks = NoRows /\ artworkCache = {}
  /\ folders \in AsStored(storedFolders) /\ revision = 0
  /\ pending = FALSE /\ debounce = FALSE /\ watched = {} /\ notices = {}
  /\ scan = (IF storedFolders = {} THEN "idle" ELSE "running")
  /\ scanRevision = 0 /\ previous = NoRows /\ todo = folders
  /\ batch = <<>> /\ batchDirs = {} /\ slots = MaxWatched
  /\ step = "next" /\ root = None /\ left = {} /\ current = None /\ stat = 0
  /\ found = NoRows /\ observed = {} /\ complete = TRUE
  /\ synchronized = TRUE
  /\ missed = {}
  /\ lost = (IF storedFolders = {} THEN {} ELSE {f \in Files : disk[f] = 0})

-----------------------------------------------------------------------------
NoScan ==
  /\ scan' = "idle" /\ scanRevision' = 0 /\ previous' = NoRows /\ todo' = <<>>
  /\ batch' = <<>> /\ batchDirs' = {} /\ slots' = MaxWatched
  /\ AtNoRoot("next")
  /\ lost' = {}

(* rescan(), with the rows and the folders as the handler leaves them.  A scan *)
(* that runs on is only marked to be repeated; the batch of one that has       *)
(* finished and was not taken is dropped.                                   *)
StartScan(rows, roots, rev) ==
  /\ scan' = "running" /\ scanRevision' = rev /\ previous' = rows /\ todo' = roots
  /\ batch' = <<>> /\ batchDirs' = {} /\ slots' = MaxWatched
  /\ AtNoRoot("next")
  /\ lost' = {f \in Files : disk[f] = 0}

RescanUnmarked(rows, roots, rev) ==                   \* mutant of Rescan
  /\ UNCHANGED <<pending, missed>>
  /\ \/ scan # "running" /\ StartScan(rows, roots, rev)
     \/ scan = "running" /\ UNCHANGED <<scanVars, lost>>

Rescan(rows, roots, rev) ==
  \/ /\ scan = "running"
     /\ pending' = TRUE
     /\ UNCHANGED <<scanVars, history>>
  \/ /\ scan # "running" /\ ~failing
     /\ StartScan(rows, roots, rev)
     /\ UNCHANGED <<pending, missed>>
  \/ /\ scan # "running" /\ failing
     /\ missed' = Files
     /\ UNCHANGED <<pending, scanVars, lost>>

(* The rescan() at the end of applyScan(), which has taken the result. *)
RescanAfter(roots) ==
  /\ pending' = FALSE
  /\ \/ ~failing /\ StartScan(tracks, roots, revision) /\ UNCHANGED missed
     \/ failing /\ NoScan /\ missed' = Files

-----------------------------------------------------------------------------
(* The event loop, which is busy while applyScan() runs. *)
MainIdle == scan # "applying"

AddFolder(r) ==
  /\ MainIdle /\ Reachable(r) /\ r \notin FolderSet
  /\ Happens
  /\ folders' = Append(folders, r)
  /\ revision' = revision + 1
  /\ Rescan(tracks, folders', revision')
  /\ UNCHANGED <<disk, lastVersion, away, failing, database, debounce, watcher,
                 synchronized>>

(* The rows go first; without that the folder stays. *)
RemoveFolder(r) ==
  /\ MainIdle /\ ~failing
  /\ Happens
  /\ tracks' = FolderRemoved(tracks, r)
  /\ storedFolders' = storedFolders \ {r}
  /\ \E i \in DOMAIN folders :
       folders[i] = r /\ folders' = SubSeq(folders, 1, i - 1) \o SubSeq(folders, i + 1, Len(folders))
  /\ revision' = revision + 1
  /\ Rescan(tracks', folders', revision')
  /\ UNCHANGED <<disk, lastVersion, away, failing, artworkCache, debounce, watcher,
                 synchronized>>

RescanClicked ==
  /\ MainIdle
  /\ Rescan(tracks, folders, revision)
  /\ UNCHANGED <<world, database, folderVars, debounce, watcher, synchronized>>

(* directoryChanged (re)starts the debounce timer. *)
Noticed ==
  /\ MainIdle /\ notices # {}
  /\ notices' = {}
  /\ debounce' = TRUE
  /\ UNCHANGED <<world, database, folderVars, pending, watched, synchronized,
                 scanVars, history>>

DebounceFires ==
  /\ MainIdle /\ debounce
  /\ debounce' = FALSE
  /\ Rescan(tracks, folders, revision)
  /\ UNCHANGED <<world, database, folderVars, watcher, synchronized>>

(* applyScan(): the scan of other folders than those of now is repeated ... *)
NeverStale == FALSE                                   \* mutant of Stale
Stale == scanRevision # revision

TakeResult ==
  /\ scan = "finished"
  /\ \/ /\ Stale
        /\ RescanAfter(folders)
        /\ UNCHANGED synchronized
     \/ /\ ~Stale
        /\ scan' = "applying" /\ synchronized' = TRUE
        /\ UNCHANGED <<pending, rootVars, batchVars, history>>
  /\ UNCHANGED <<world, database, folderVars, debounce, watcher>>

(* ... and otherwise each folder's scan is stored in a transaction, ... *)
Synchronize ==
  /\ scan = "applying" /\ batch # <<>>
  /\ batch' = Tail(batch)
  /\ LET s == Head(batch)
     IN  \/ /\ ~failing
            /\ tracks' = Synchronized(tracks, s.root, s.found, s.observed, s.complete)
            /\ storedFolders' = storedFolders \cup {s.root}
            /\ UNCHANGED <<synchronized, missed>>
         \/ /\ failing
            /\ synchronized' = FALSE /\ missed' = missed \cup In(s.root)
            /\ UNCHANGED <<tracks, storedFolders>>
  /\ UNCHANGED <<world, artworkCache, folderVars, pending, debounce, watcher,
                 scan, rootVars, scanRevision, previous, todo, batchDirs, slots, lost>>

(* ... the watches are replaced, which may lose what the old ones had still   *)
(* to tell, and artwork no row refers to is removed.                        *)
PruneArtworkCache ==
  \/ ~failing /\ artworkCache' = {f \in artworkCache : f \in DOMAIN tracks /\ tracks[f].artwork}
  \/ failing /\ UNCHANGED artworkCache

FinishApply ==
  /\ scan = "applying" /\ batch = <<>>
  /\ IF synchronized THEN PruneArtworkCache ELSE UNCHANGED artworkCache
  /\ synchronized' = TRUE
  /\ watched' = {d \in batchDirs : Reachable(d)}
  /\ \E unheard \in {{}, notices} :
       /\ notices' = notices \ unheard
       /\ \/ ~pending /\ NoScan /\ missed' = missed \cup HomeIn(unheard) /\ UNCHANGED pending
          \/ pending /\ RescanAfter(folders)
  /\ UNCHANGED <<world, tracks, storedFolders, folderVars, debounce>>

EventLoop ==
  \/ \E r \in Roots : AddFolder(r) \/ RemoveFolder(r)
  \/ RescanClicked \/ Noticed \/ DebounceFires
  \/ TakeResult \/ Synchronize \/ FinishApply

-----------------------------------------------------------------------------
(* scanFolders(), on a thread of the pool. *)

ScanOfNoFolder(r, rows, seen, whole) ==               \* mutant of ScanOf
  [root |-> None, found |-> rows, observed |-> seen, complete |-> whole]

ScanOf(r, rows, seen, whole) ==
  [root |-> r, found |-> rows, observed |-> seen, complete |-> whole]

(* A folder that is not there is not scanned, and keeps its tracks. *)
EnterRoot ==
  /\ scan = "running" /\ step = "next" /\ todo # <<>>
  /\ LET r == Head(todo)
     IN  \/ /\ Reachable(r)
            /\ step' = "list" /\ root' = r
            /\ UNCHANGED <<todo, batch>>
         \/ /\ ~Reachable(r)
            /\ todo' = Tail(todo)
            /\ batch' = Append(batch, ScanOf(r, NoRows, {}, FALSE))
            /\ UNCHANGED <<step, root>>
  /\ UNCHANGED <<world, mainVars, scan, left, current, stat, found, observed,
                 complete, scanRevision, previous, batchDirs, slots, history>>

ListedBefore == UNION {In(s.root) : s \in Entries(batch)}

(* The traversal: it may fail half-way, and one whose volume vanishes may     *)
(* also end early without an error.                                         *)
ListRoot ==
  /\ scan = "running" /\ step = "list"
  /\ LET files == {f \in In(root) : Readable(f)}
         dirs == {d \in Below[root] : d = root \/ Reachable(d)}
     IN  \E listed \in SUBSET files, failed \in BOOLEAN, observing \in SUBSET dirs :
           /\ failed \/ ~Reachable(root) \/ listed = files
           /\ IF Cardinality(dirs) > slots THEN Cardinality(observing) = slots
              ELSE observing = dirs \/ (failed /\ observing = {root})
           /\ left' = listed /\ observed' = listed
           /\ complete' = ~failed
           /\ batchDirs' = batchDirs \cup observing
           /\ slots' = slots - Cardinality(observing)
           /\ missed' = IF failed \/ ~Reachable(root)
                        THEN missed \cup In(root)
                        ELSE missed \ (In(root) \ ListedBefore)
  /\ step' = "files"
  /\ UNCHANGED <<world, mainVars, scan, root, current, stat, found,
                 scanRevision, previous, todo, batch, lost>>

With(rows, f, row) == [g \in DOMAIN rows \cup {f} |-> IF g = f THEN row ELSE rows[g]]

(* A file whose size and time are those of its row is not read again. *)
StatFile(f) ==
  /\ scan = "running" /\ step = "files" /\ current = None /\ f \in left
  /\ LET version == IF Readable(f) THEN disk[f] ELSE 0
     IN  IF f \in DOMAIN previous /\ previous[f].stat = version
         THEN /\ found' = With(found, f, previous[f])
              /\ left' = left \ {f}
              /\ UNCHANGED <<current, stat>>
         ELSE /\ current' = f /\ stat' = version
              /\ UNCHANGED <<found, left>>
  /\ UNCHANGED <<world, mainVars, scan, step, root, observed, complete,
                 batchVars, history>>

RowReadFirst(f) ==                                    \* mutant of RowOf
  [root |-> root, stat |-> disk[f], metadata |-> stat, artwork |-> disk[f] \in WithArtwork /\ ~failing]
RowOfUnstored(f) ==                                   \* mutant of RowOf
  [root |-> root, stat |-> stat, metadata |-> disk[f], artwork |-> disk[f] \in WithArtwork]

RowOf(f) ==
  [root |-> root, stat |-> stat, metadata |-> disk[f], artwork |-> disk[f] \in WithArtwork /\ ~failing]

(* Metadata, and artwork, which goes to the cache at once, if it can be        *)
(* stored.  A file that cannot be read keeps its row, for the next scan to     *)
(* try again.                                                              *)
ReadFile ==
  /\ scan = "running" /\ current # None
  /\ \/ /\ Readable(current)
        /\ found' = With(found, current, RowOf(current))
        /\ artworkCache' = artworkCache \cup {f \in {current} : disk[f] \in WithArtwork /\ ~failing}
        /\ UNCHANGED missed
     \/ /\ found' = IF current \in DOMAIN previous
                    THEN With(found, current, previous[current]) ELSE found
        /\ missed' = missed \cup {current}
        /\ UNCHANGED artworkCache
  /\ left' = left \ {current} /\ current' = None /\ stat' = 0
  /\ UNCHANGED <<world, tracks, storedFolders, folderVars, pending, debounce,
                 watcher, synchronized, scan, step, root, observed, complete,
                 batchVars, lost>>

StillThereUnchecked == TRUE                           \* mutant of StillThere
StillThere == Reachable(root)

LeaveRoot ==
  /\ scan = "running" /\ step = "files" /\ left = {} /\ current = None
  /\ batch' = Append(batch, ScanOf(root, found, observed, complete /\ StillThere))
  /\ todo' = Tail(todo)
  /\ AtNoRoot("next")
  /\ UNCHANGED <<world, mainVars, scan, scanRevision, previous, batchDirs, slots,
                 history>>

ScanEnds ==
  /\ scan = "running" /\ step = "next" /\ todo = <<>>
  /\ scan' = "finished"
  /\ previous' = NoRows /\ slots' = MaxWatched
  /\ UNCHANGED <<world, mainVars, rootVars, scanRevision, todo, batch, batchDirs,
                 history>>

ScanThread ==
  EnterRoot \/ ListRoot \/ ReadFile \/ LeaveRoot \/ ScanEnds \/ \E f \in Files : StatFile(f)

-----------------------------------------------------------------------------
(* The world around it. *)

(* A watched directory tells of a file that comes or goes, but not always of  *)
(* one that is rewritten in place.                                          *)
Signalled(f, inPlace) ==
  \/ /\ Home[f] \in watched
     /\ notices' = notices \cup {Home[f]}
     /\ UNCHANGED missed
  \/ /\ inPlace \/ Home[f] \notin watched
     /\ missed' = missed \cup {f}
     /\ UNCHANGED notices

WriteFile(f) ==
  /\ Happens /\ Reachable(Home[f])
  /\ lastVersion' = lastVersion + 1
  /\ disk' = [disk EXCEPT ![f] = lastVersion']
  /\ Signalled(f, disk[f] # 0)
  /\ UNCHANGED <<away, failing, database, folderVars, pending, debounce, watched, synchronized,
                 scanVars, lost>>

DeleteFile(f) ==
  /\ Happens /\ Readable(f)
  /\ disk' = [disk EXCEPT ![f] = 0]
  /\ lost' = IF scan = "idle" THEN {} ELSE lost \cup {f}
  /\ Signalled(f, FALSE)
  /\ UNCHANGED <<lastVersion, away, failing, database, folderVars, pending, debounce, watched,
                 synchronized, scanVars>>

(* A volume goes, and its watches with it; or it is back, unannounced. *)
Unmount(r) ==
  /\ Happens /\ r \notin away
  /\ away' = away \cup {r}
  /\ watched' = watched \ Below[r]
  /\ \/ UNCHANGED notices
     \/ r \in watched /\ notices' = notices \cup {r}
  /\ UNCHANGED <<disk, lastVersion, failing, database, folderVars, pending, debounce,
                 synchronized, scanVars, history>>

Mount(r) ==
  /\ r \in away
  /\ away' = away \ {r}
  /\ missed' = missed \cup In(r)
  /\ lost' = IF scan = "idle" THEN {} ELSE lost \cup In(r)
  /\ UNCHANGED <<disk, lastVersion, failing, events, mainVars, scanVars>>

(* The application ends at any moment, a scan with it, and starts again with  *)
(* the folders it had stored.  (The reads at start-up succeed: nobody would    *)
(* hear of a failure.)                                                      *)
Restart ==
  /\ Happens /\ ~failing
  /\ folders' \in AsStored(storedFolders)
  /\ revision' = 0 /\ pending' = FALSE /\ debounce' = FALSE
  /\ watched' = {} /\ notices' = {} /\ synchronized' = TRUE
  /\ IF storedFolders # {} THEN StartScan(tracks, folders', 0)
     ELSE NoScan
  /\ UNCHANGED <<disk, lastVersion, away, failing, database, missed>>

(* A full disk, say, or a database locked by another process. *)
Fail ==
  /\ ~failing /\ Happens /\ failing' = TRUE
  /\ UNCHANGED <<disk, lastVersion, away, mainVars, scanVars, history>>
Recover ==
  /\ failing /\ failing' = FALSE
  /\ UNCHANGED <<disk, lastVersion, away, events, mainVars, scanVars, history>>

Environment ==
  \/ \E f \in Files : WriteFile(f) \/ DeleteFile(f)
  \/ \E r \in Volumes : Unmount(r) \/ Mount(r)
  \/ Restart \/ Fail \/ Recover

Next == EventLoop \/ ScanThread \/ Environment

(* The pool runs the scan, the event loop delivers signals and timers.  It    *)
(* gets to the result of a scan between two of the user's clicks, if they     *)
(* click for ever.                                                          *)
Fairness ==
  /\ WF_vars(ScanThread)
  /\ WF_vars(Noticed) /\ WF_vars(DebounceFires)
  /\ SF_vars(TakeResult) /\ WF_vars(Synchronize \/ FinishApply)

Spec == Init /\ [][Next]_vars /\ Fairness

-----------------------------------------------------------------------------
Row == [root : Roots, stat : Nat, metadata : Nat, artwork : BOOLEAN]
IsTable(rows) == \E files \in SUBSET Files : rows \in [files -> Row]
IsScan(s) ==
  /\ s \in [root : Roots, found : {s.found}, observed : SUBSET Files, complete : BOOLEAN]
  /\ IsTable(s.found)

WorldOK ==
  /\ disk \in [Files -> Nat] /\ lastVersion \in Nat /\ away \subseteq Roots
  /\ failing \in BOOLEAN /\ events \in 0 .. MaxEvents

MainOK ==
  /\ IsTable(tracks) /\ storedFolders \subseteq Roots /\ artworkCache \subseteq Files
  /\ folders \in Seq(Roots) /\ revision \in Nat
  /\ {pending, debounce, synchronized} \subseteq BOOLEAN
  /\ watched \subseteq Dirs /\ notices \subseteq Dirs

RootOK ==
  /\ step \in {"next", "list", "files"} /\ root \in Roots \cup {None}
  /\ left \subseteq Files /\ current \in Files \cup {None} /\ stat \in Nat
  /\ IsTable(found) /\ observed \subseteq Files /\ complete \in BOOLEAN

BatchOK ==
  /\ scanRevision \in Nat /\ IsTable(previous) /\ todo \in Seq(Roots)
  /\ batch \in Seq(Entries(batch)) /\ (\A s \in Entries(batch) : IsScan(s))
  /\ batchDirs \subseteq Dirs /\ slots \in 0 .. MaxWatched

ScanOK == scan \in {"idle", "running", "finished", "applying"} /\ RootOK /\ BatchOK
HistoryOK == missed \subseteq Files /\ lost \subseteq Files

TypeOK == WorldOK /\ MainOK /\ ScanOK /\ HistoryOK

(* A batch is only stored for the folders it was made for: a folder removed   *)
(* while it is scanned does not come back, nor do its tracks; and a track      *)
(* never outlives, in the database, the folder that could remove it again     *)
(* (tests/LibraryDatabaseTests.cpp:117).                                     *)
OwnedRows ==
  /\ \A f \in DOMAIN tracks : tracks[f].root \in storedFolders
  /\ storedFolders \subseteq FolderSet

(* A row that the next scan will take for current holds the metadata of the   *)
(* file as it is, whatever was written while the scan read it.               *)
CurrentRowsAreCurrent ==
  \A f \in DOMAIN tracks : disk[f] # 0 /\ tracks[f].stat = disk[f] => tracks[f].metadata = disk[f]

(* Artwork a track refers to is in the cache, although scans whose result is   *)
(* dropped write to it as well and applyScan() prunes it.                    *)
ArtworkKept == \A f \in DOMAIN tracks : tracks[f].artwork => f \in artworkCache

RemovedWithoutReason(f) ==
  /\ f \in DOMAIN tracks /\ f \notin DOMAIN tracks'
  /\ tracks[f].root \in FolderSet'
  /\ f \notin lost

(* It lies on a volume that may be mounted inside this folder. *)
MountedInside(f, r) == \E v \in Roots : v \in Below[r] \ {r} /\ f \in In(v)

(* "non-destructive handling of incomplete scans" (README.md:48): a scan      *)
(* removes a track only if its file was absent meanwhile, or its volume was    *)
(* away and back, or it lies on a volume mounted inside the folder that owns   *)
(* the track, which may be away while that one is scanned.                   *)
OnlyMissingRemoved ==
  [][\A f \in Files : RemovedWithoutReason(f) => MountedInside(f, tracks[f].root)]_vars

(* "Library folder is unavailable; keeping its indexed tracks"               *)
(* (LibraryIndexer.cpp:192): a scan removes no track that lies in a library    *)
(* folder whose volume is away.                                             *)
UnavailableKeepsTracks ==
  [][\A f \in Files :
       RemovedWithoutReason(f) => ~ \E r \in FolderSet \cap away : f \in In(r)]_vars

(* What the watcher had a chance to see reaches the library, unless the scan    *)
(* failed: no change is lost between debounce, mark, scan and apply.          *)
Indexed(f) ==
  IF disk[f] = 0 THEN f \notin DOMAIN tracks
  ELSE f \in DOMAIN tracks /\ tracks[f].metadata = disk[f]
Covered(f) == Reachable(Home[f]) /\ \E r \in FolderSet : f \in In(r)

ChangesArrive == \A f \in Files : []<>(Indexed(f) \/ f \in missed \/ ~Covered(f))

-----------------------------------------------------------------------------
(* The inductive invariant behind the theorems of LibraryIndexerProofs: what   *)
(* the thread's and the event loop's copies of rows and folders are worth.   *)

(* A scan of the folders of now scans those folders; only such a scan is      *)
(* applied.  Between two scans nothing of the last one is left.             *)
ScannedRoots == Entries(todo) \cup {s.root : s \in Entries(batch)}

ScanInv ==
  /\ step # "next" => scan = "running" /\ todo # <<>> /\ root = Head(todo)
  /\ step = "next" => found = NoRows
  /\ current # None => step = "files"
  /\ scan # "running" => previous = NoRows
  /\ scanRevision <= revision
  /\ scan = "applying" => scanRevision = revision
  /\ scanRevision = revision => ScannedRoots \subseteq FolderSet

(* Every row there is, stored or on its way through a scan, is as good as a    *)
(* stored one must be.                                                      *)
KnownRows == {tracks, previous, found} \cup {s.found : s \in Entries(batch)}

GoodRow(f, row) ==
  /\ row.stat <= lastVersion
  /\ disk[f] # 0 /\ row.stat = disk[f] => row.metadata = disk[f]
  /\ row.artwork => f \in artworkCache

RowsInv ==
  /\ stat <= lastVersion /\ \A f \in Files : disk[f] <= lastVersion
  /\ \A rows \in KnownRows : \A f \in DOMAIN rows : GoodRow(f, rows[f])

CopiesInv == TypeOK /\ ScanInv /\ OwnedRows /\ RowsInv

(* And what a listing is worth: a scan found only what it listed, and what it   *)
(* did not list although it came to the folder's end was absent meanwhile, or    *)
(* lies on a volume inside; a row lies in the folder that owns it, and no        *)
(* folder is in the library twice.                                         *)
Excused(f, r) == f \in lost \/ MountedInside(f, r)
Listed(r, files, seen) == files \subseteq seen /\ seen \subseteq In(r)
Whole(r, seen) == \A f \in In(r) \ seen : Excused(f, r)

RootListed ==
  /\ step # "files" => found = NoRows
  /\ step = "files" =>
       /\ Listed(root, DOMAIN found \cup left \cup ({current} \ {None}), observed)
       /\ complete /\ Reachable(root) => Whole(root, observed)

BatchListed ==
  \A s \in Entries(batch) :
    Listed(s.root, DOMAIN s.found, s.observed) /\ (s.complete => Whole(s.root, s.observed))

AbsentAreLost == scan # "idle" => \A f \in Files : disk[f] = 0 => f \in lost
IdleIsEmpty == scan = "idle" => batch = <<>>
RowsLieInside == \A rows \in KnownRows : \A f \in DOMAIN rows : f \in In(rows[f].root)
FoldersDiffer == \A i, j \in DOMAIN folders : folders[i] = folders[j] => i = j

ListingInv ==
  RootListed /\ BatchListed /\ AbsentAreLost /\ IdleIsEmpty /\ RowsLieInside /\ FoldersDiffer

IInv == CopiesInv /\ ListingInv
=============================================================================
