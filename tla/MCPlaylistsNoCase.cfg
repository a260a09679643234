SPECIFICATION PlaylistsSpec
CONSTANTS
  TrackIds = {"t1", "t2"}
  Names = {"Mix", "mix"}
  NoCase <- TheNoCase
  MaxPlaylists = 2
  MaxItems = 2
INVARIANT PlaylistsRetainOrder
CHECK_DEADLOCK FALSE
