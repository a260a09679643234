---------------------------- MODULE MCPlaylists ----------------------------
(* Playlists whose names differ in case only, which UNIQUE takes for two names and  *)
(* ORDER BY for one.                                                        *)
EXTENDS Playlists

TheNoCase == [n \in Names |-> 1]
=============================================================================
