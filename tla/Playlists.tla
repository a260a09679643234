------------------------------ MODULE Playlists ------------------------------
(***************************************************************************)
(* Playlists in src/library/LibraryDatabase.cpp: two tables beside the tracks, the *)
(* transaction that fills a playlist, the cascade when tracks go, and the query     *)
(* that reads all playlists back.  SQLite is external: a transaction that fails     *)
(* has no effect, a unique or a foreign key is kept, ORDER BY leaves open how rows   *)
(* with equal keys are ordered, and COLLATE NOCASE compares a name by its class.     *)
(***************************************************************************)
EXTENDS Naturals, Sequences, FiniteSets, SequencesExt, Sublists

CONSTANTS
  TrackIds,      \* external: tracks of the library
  Names,         \* external: trimmed names
  NoCase,        \* the class of a name, as a number
  MaxPlaylists,  \* bound
  MaxItems       \* bound

NoTrack == "null"

ASSUME PlaylistsAssumption ==
  /\ NoTrack \notin TrackIds /\ NoCase \in [Names -> Nat]
  /\ {MaxPlaylists, MaxItems} \subseteq Nat

VARIABLES
  libraryTracks,   \* the IDs in table tracks
  playlistNames,   \* table playlists, by row ID
  playlistItems,   \* table playlist_items
  lastSet          \* what setPlaylistTracks() stored last, less the tracks gone since (history)

playlistVars == <<libraryTracks, playlistNames, playlistItems, lastSet>>

PlaylistsInit ==
  libraryTracks = {} /\ playlistNames = <<>> /\ playlistItems = {} /\ lastSet = <<>>

Item(p, i, t) == [playlist |-> p, position |-> i, track |-> t]
ItemsOf(p) == {item \in playlistItems : item.playlist = p}

-----------------------------------------------------------------------------
CreatePlaylist(name) ==
  /\ Len(playlistNames) < MaxPlaylists
  /\ name \notin Range(playlistNames)
  /\ playlistNames' = Append(playlistNames, name)
  /\ lastSet' = Append(lastSet, <<>>)
  /\ UNCHANGED <<libraryTracks, playlistItems>>

(* setPlaylistTracks(): the old items out, the new ones in at their index.  A track   *)
(* or a playlist that does not exist fails an insert and rolls everything back.       *)
NewItems(p, ids) == {Item(p, i, ids[i]) : i \in DOMAIN ids}

ReplacedItemsOnly(p, ids) ==                          \* mutant of Replaced
  {item \in playlistItems : item.playlist # p \/ item.position > Len(ids)} \cup NewItems(p, ids)
Replaced(p, ids) == (playlistItems \ ItemsOf(p)) \cup NewItems(p, ids)

SetPlaylistTracks(p, ids) ==
  /\ p \in DOMAIN playlistNames /\ Range(ids) \subseteq libraryTracks
  /\ playlistItems' = Replaced(p, ids)
  /\ lastSet' = [lastSet EXCEPT ![p] = ids]
  /\ UNCHANGED <<libraryTracks, playlistNames>>

(* synchronizeFolder() stores tracks, which leaves the items of a stored one alone,  *)
(* and with removeFolder() it deletes tracks: ON DELETE CASCADE.                     *)
TrackStored(t) ==
  /\ libraryTracks' = libraryTracks \cup {t}
  /\ UNCHANGED <<playlistNames, playlistItems, lastSet>>

TracksDeleted(gone) ==
  /\ gone # {} /\ libraryTracks' = libraryTracks \ gone
  /\ playlistItems' = {item \in playlistItems : item.track \notin gone}
  /\ lastSet' = [p \in DOMAIN lastSet |->
                   Sublist(lastSet[p], {i \in DOMAIN lastSet[p] : lastSet[p][i] \notin gone})]
  /\ UNCHANGED playlistNames

PlaylistLists == UNION {[1..n -> TrackIds] : n \in 0..MaxItems}

PlaylistsNext ==
  \/ \E name \in Names : CreatePlaylist(name)
  \/ \E p \in 1..MaxPlaylists, ids \in PlaylistLists : SetPlaylistTracks(p, ids)
  \/ \E t \in TrackIds : TrackStored(t)
  \/ \E gone \in SUBSET libraryTracks : TracksDeleted(gone)

PlaylistsSpec == PlaylistsInit /\ [][PlaylistsNext]_playlistVars

-----------------------------------------------------------------------------
(* playlists(): LEFT JOIN, so that an empty playlist has one row without a track,     *)
(* ordered by name and position ...                                             *)
QueryRows ==
  playlistItems \cup {Item(p, 0, NoTrack) : p \in {q \in DOMAIN playlistNames : ItemsOf(q) = {}}}

Follows(later, earlier) ==
  LET a == NoCase[playlistNames[earlier.playlist]]
      b == NoCase[playlistNames[later.playlist]]
  IN  a < b \/ (a = b /\ earlier.position <= later.position)

QueryResults ==
  {rows \in [1..Cardinality(QueryRows) -> QueryRows] :
     /\ IsInjective(rows)
     /\ \A i, j \in DOMAIN rows : i < j => Follows(rows[j], rows[i])}

(* ... and read row by row: a row of another playlist than the last begins a new one. *)
Opened(lists, row) ==
  IF lists # <<>> /\ lists[Len(lists)].id = row.playlist THEN lists
  ELSE Append(lists, [id |-> row.playlist, trackIds |-> <<>>])
WithTrack(lists, track) ==
  IF track = NoTrack THEN lists
  ELSE [lists EXCEPT ![Len(lists)].trackIds = Append(@, track)]

Grouped(rows) ==
  LET after[n \in 0..Len(rows)] ==
        IF n = 0 THEN <<>> ELSE WithTrack(Opened(after[n - 1], rows[n]), rows[n].track)
  IN  after[Len(rows)]

ReadsBack(lists) ==
  /\ Len(lists) = Len(playlistNames)
  /\ \A p \in DOMAIN playlistNames :
       \E i \in DOMAIN lists : lists[i] = [id |-> p, trackIds |-> lastSet[p]]

-----------------------------------------------------------------------------
(* Every table stays in its domain, and every item refers to rows that exist. *)
PlaylistsTypeOK ==
  /\ libraryTracks \subseteq TrackIds
  /\ playlistNames \in Seq(Names) /\ IsInjective(playlistNames)
  /\ playlistItems \subseteq
       {Item(p, i, t) : p \in DOMAIN playlistNames, i \in 1..MaxItems, t \in libraryTracks}
  /\ Len(lastSet) = Len(playlistNames)

(* A playlist is read back once, with the tracks it was given, less those deleted, in   *)
(* their order, whatever order SQLite picks for rows with equal keys, as long as no     *)
(* two names differ in case only.                                                *)
PlaylistsReadBack ==
  IsInjective([p \in DOMAIN playlistNames |-> NoCase[playlistNames[p]]]) =>
    \A rows \in QueryResults : ReadsBack(Grouped(rows))

(* "Library playlists retain track order" (tests/LibraryDatabaseTests.cpp:37), whatever   *)
(* they are called: some order of the rows with equal keys reads every playlist back.    *)
PlaylistsRetainOrder == \E rows \in QueryResults : ReadsBack(Grouped(rows))
=============================================================================
