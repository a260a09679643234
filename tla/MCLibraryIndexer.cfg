SPECIFICATION Spec
CONSTANTS
  Files <- TheFiles
  Dirs <- TheRoots
  Roots <- TheRoots
  Volumes <- TheVolumes
  Home <- TheHome
  Below <- TheBelow
  MaxWatched = 2
  WithArtwork = {1}
  MaxEvents = 2
INVARIANTS IInv OwnedRows CurrentRowsAreCurrent ArtworkKept
PROPERTIES OnlyMissingRemoved ChangesArrive
