SPECIFICATION Spec
CONSTANTS
  Jobs = {j1, j2}
  Files = {}
  Tracks = {track}
  Stations = {station}
  None = None
  MaxMetadata = 0
  MaxPlaylistLoads = 0
PROPERTIES LoadingSettles BufferingSettles LiveReopens
CHECK_DEADLOCK FALSE
