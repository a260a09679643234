SPECIFICATION Spec
CONSTANTS
  Jobs = {j1, j2}
  Files = {file}
  Tracks = {}
  Stations = {station}
  None = None
  MaxMetadata = 1
  MaxPlaylistLoads = 1
SYMMETRY JobSymmetry
INVARIANTS
  TypeOK GenerationNamesStream NoOrphanDecoder
  StateMatchesOutput
CHECK_DEADLOCK FALSE
