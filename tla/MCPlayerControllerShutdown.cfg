SPECIFICATION Spec
CONSTANTS
  Jobs = {j1, j2}
  Files = {}
  Tracks = {}
  Stations = {station}
  None = None
  MaxMetadata = 0
  MaxPlaylistLoads = 1
SYMMETRY JobSymmetry
INVARIANT ShutdownIsFinal
CHECK_DEADLOCK FALSE
