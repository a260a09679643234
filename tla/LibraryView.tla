----------------------------- MODULE LibraryView -----------------------------
(***************************************************************************)
(* LibraryController: what the interface shows of the library, its scanning flag   *)
(* and the tracks it read last, against the indexer as the controller sees it      *)
(* (LibraryIndexer has its scans in detail).  The content of the database is a      *)
(* version; every read and every write of it may fail.                           *)
(***************************************************************************)
EXTENDS Naturals, FiniteSets

CONSTANTS
  Folders,        \* bound: the folders a user may add
  MaxVersions     \* bound: changes of the database

ASSUME ViewAssumption == MaxVersions \in Nat

VARIABLES
  viewScanning,     \* m_scanning
  viewRows,         \* the version m_tracks was read at
  storedRows,       \* the version of the database
  indexedFolders,   \* m_folders
  indexerScan,      \* m_scanWatcher: "idle", "running", or "finished" and not applied
  scanOfFolders,    \* whether the scan's folderRevision is the current one
  rescanPending,    \* m_rescanPending
  unread,           \* the last reload() failed (history)
  unstarted         \* an addFolder() since the last scan did not start one (history)

viewVars == <<viewScanning, viewRows, storedRows, indexedFolders, indexerScan,
              scanOfFolders, rescanPending, unread, unstarted>>

ViewInit ==
  /\ viewScanning = FALSE /\ viewRows = 0 /\ storedRows = 0
  /\ indexedFolders \in SUBSET Folders
  /\ indexerScan \in IF indexedFolders = {} THEN {"idle"} ELSE {"running", "idle"}
  /\ scanOfFolders = TRUE /\ rescanPending = FALSE
  /\ unread = FALSE /\ unstarted = FALSE

-----------------------------------------------------------------------------
(* reload() of a database at this version *)
ReloadKeeping(version) ==                             \* mutant of Reload
  UNCHANGED <<viewRows, unread>>
Reload(version) ==
  \/ viewRows' = version /\ unread' = FALSE
  \/ viewRows' = viewRows /\ unread' = TRUE

(* LibraryIndexer::rescan(): a scan that runs is followed by another, one that has   *)
(* not been applied is replaced.  Without a read of the database there is none, and   *)
(* scanFailed() clears the flag.                                                 *)
StartsScan(started) ==
  IF indexerScan = "running"
  THEN started /\ rescanPending' = TRUE /\ UNCHANGED indexerScan
  ELSE indexerScan' = (IF started THEN "running" ELSE indexerScan) /\ UNCHANGED rescanPending

(* addFolder() sets the flag after the indexer's rescan(), and of a folder that is    *)
(* there already without one.                                                    *)
AddFolder(f) ==
  /\ viewScanning' = TRUE
  /\ IF f \in indexedFolders
     THEN /\ unstarted' = TRUE
          /\ UNCHANGED <<indexedFolders, indexerScan, rescanPending, scanOfFolders>>
     ELSE \E started \in BOOLEAN :
            /\ StartsScan(started)
            /\ unstarted' = (unstarted \/ ~started)
            /\ indexedFolders' = indexedFolders \cup {f}
            /\ scanOfFolders' = (started /\ indexerScan # "running")
  /\ UNCHANGED <<viewRows, storedRows, unread>>

RemoveFolder(f) ==
  /\ f \in indexedFolders /\ storedRows < MaxVersions
  /\ indexedFolders' = indexedFolders \ {f}
  /\ storedRows' = storedRows + 1
  /\ \E started \in BOOLEAN :
       /\ StartsScan(started)
       /\ viewScanning' = (viewScanning /\ started)
       /\ scanOfFolders' = (started /\ indexerScan # "running")
  /\ Reload(storedRows')
  /\ UNCHANGED unstarted

RemoveUnknownFolder(f) ==
  /\ f \notin indexedFolders /\ Reload(storedRows)
  /\ UNCHANGED <<viewScanning, storedRows, indexedFolders, indexerScan, scanOfFolders,
                 rescanPending, unstarted>>

(* rescan(), of the user with the flag set first, or of the watcher *)
RescanNow(byUser) ==
  \E started \in BOOLEAN :
    /\ StartsScan(started)
    /\ viewScanning' = (started /\ (byUser \/ viewScanning))
    /\ scanOfFolders' = IF started /\ indexerScan # "running" THEN TRUE ELSE scanOfFolders
    /\ UNCHANGED <<viewRows, storedRows, indexedFolders, unread, unstarted>>

ScanFinishes ==
  /\ indexerScan = "running" /\ indexerScan' = "finished"
  /\ UNCHANGED <<viewScanning, viewRows, storedRows, indexedFolders, scanOfFolders,
                 rescanPending, unread, unstarted>>

(* applyScan() of a scan of other folders: another scan *)
DiscardScan ==
  /\ indexerScan = "finished" /\ ~scanOfFolders
  /\ rescanPending' = FALSE
  /\ \E started \in BOOLEAN :
       /\ indexerScan' = IF started THEN "running" ELSE "idle"
       /\ scanOfFolders' = started
       /\ viewScanning' = (viewScanning /\ started)
  /\ UNCHANGED <<viewRows, storedRows, indexedFolders, unread, unstarted>>

(* applyScan(): some folders are stored, or none; scanFinished() in any case, and    *)
(* the scan that was asked for meanwhile.                                         *)
ApplyScan ==
  /\ indexerScan = "finished" /\ scanOfFolders
  /\ storedRows' \in {storedRows, storedRows + 1} /\ storedRows' <= MaxVersions
  /\ viewScanning' = FALSE /\ unstarted' = FALSE
  /\ Reload(storedRows')
  /\ rescanPending' = FALSE
  /\ indexerScan' \in IF rescanPending THEN {"running", "idle"} ELSE {"idle"}
  /\ UNCHANGED <<indexedFolders, scanOfFolders>>

ViewNext ==
  \/ \E f \in Folders : AddFolder(f) \/ RemoveFolder(f) \/ RemoveUnknownFolder(f)
  \/ \E byUser \in BOOLEAN : RescanNow(byUser)
  \/ ScanFinishes \/ DiscardScan \/ ApplyScan

ViewSpec == ViewInit /\ [][ViewNext]_viewVars

-----------------------------------------------------------------------------
(* Every variable of the view stays in its domain. *)
ViewTypeOK ==
  /\ {viewScanning, scanOfFolders, rescanPending, unread, unstarted} \subseteq BOOLEAN
  /\ viewRows \in 0..storedRows /\ storedRows \in 0..MaxVersions
  /\ indexedFolders \subseteq Folders
  /\ indexerScan \in {"idle", "running", "finished"}

(* The rows on display are those of the database, however scans, removals and the     *)
(* watcher follow each other, unless the last reload() failed; and the interface says   *)
(* that it scans while nothing does only after an addFolder() that started no scan.     *)
LibraryShown ==
  /\ ~unread => viewRows = storedRows
  /\ viewScanning /\ indexerScan = "idle" => unstarted
=============================================================================
