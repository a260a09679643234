-------------------------- MODULE LibraryDatabase --------------------------
(***************************************************************************)
(* What the transactions of src/library/LibraryDatabase.cpp make of the      *)
(* track table.  A table is a function from the files that have a row to      *)
(* their rows; a row names the library folder that owns it (library_root),    *)
(* the file state it was indexed at, the metadata it holds and whether it has *)
(* artwork.  Metadata and file state are named by the version of the file     *)
(* they were taken from.                                                    *)
(***************************************************************************)
EXTENDS Naturals

Without(rows, files) == [f \in DOMAIN rows \ files |-> rows[f]]

OwnedBy(rows, root) == {f \in DOMAIN rows : rows[f].root = root}

(* upsertTrack(): the row of a source, whoever owned it, belongs to this      *)
(* folder from now on.                                                      *)
Stored(rows, root, found) ==
  [f \in DOMAIN rows \cup DOMAIN found |->
     IF f \in DOMAIN found THEN [found[f] EXCEPT !.root = root] ELSE rows[f]]

(* synchronizeFolder(): the rows of the folder whose source was not observed  *)
(* go, provided the scan was complete.                                      *)
Synchronized(rows, root, found, observed, complete) ==
  LET stored == Stored(rows, root, found)
  IN  IF complete THEN Without(stored, OwnedBy(stored, root) \ observed) ELSE stored

(* removeFolder(): the folder's rows go with it. *)
FolderRemoved(rows, root) == Without(rows, OwnedBy(rows, root))
=============================================================================
