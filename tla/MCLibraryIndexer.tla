-------------------------- MODULE MCLibraryIndexer --------------------------
(* A music folder, a folder on a volume mounted in it, and a track there. *)
EXTENDS LibraryIndexer

TheFiles == {"track"}
TheRoots == {"music", "music/usb"}
TheVolumes == {"music/usb"}
TheHome == [f \in TheFiles |-> "music/usb"]
TheBelow == [r \in TheRoots |-> IF r = "music" THEN TheRoots ELSE {"music/usb"}]
=============================================================================
