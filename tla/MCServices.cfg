SPECIFICATION ServicesSpec
CONSTANTS
  Entries = {e1, e2, e3}
  MaxQueued = 3
  MinimumNormal = 3
  DefaultNormal = 4
  MiniSize = 2
  MaximumDimension = 6
  Screens <- TheScreens
  Windows <- TheWindows
  Hop = 2
  QueueFrames = 5
  DecayInterval = 1
  InactiveAfter = 2
  Levels = 1
  MaxSubmissions = 5
  MaxResets = 2
  Keys = {"popular", "jazz"}
  MaxMirrors = 2
  MaxDirectoryRequests = 3
  MaxClicks = 1
  MaxSaved = 2
  DirectoryStations <- TheDirectoryStations
  ImportedStations <- TheImportedStations
  Providers = {"p"}
  Accounts = {"a"}
  JellyfinAccounts = {"a"}
  Queries = {"q1"}
  Cursors = {"c"}
  MaxCached = 1
  MaxSupervisors = 2
  MaxGenerations = 2
  MaxRequestId = 2
  MaxPages = 1
  MaxEvents = 2
  Users = {"u1", "u2"}
  KindOf <- TheKind
  Askers = {"jellyfin", "opensubsonic"}
  Readers = {"jellyfin"}
  MaxHandles = 1
  Lifetime = 1
  MaxClock = 1
  MaxTests = 1
  MaxRestarts = 1
  MaxTroubled = 1
  MaxInFlight = 2
  MaxHostIds = 3
  MaxSdkIds = 1
  Base = 2
  MaxPayload = 2
  Json <- TheJson
  Written <- TheWritten
  MaxWritten = 3
  Api = 1
  KnownPermissions = {"slot"}
  Roots = 2
  MaxChanged = 1
  Hues = {0, 1}
  Packages <- ThePackages
  ByName <- TheByName
  TrackIds = {"t1", "t2"}
  Names = {"Mix", "mix", "Jazz"}
  NoCase <- TheNoCase
  MaxPlaylists = 2
  MaxItems = 2
  Folders = {"f1", "f2"}
  MaxVersions = 3
INVARIANTS
  ServicesTypeOK WindowOnScreen NoStaleSpectrum OneLiveRequest OnlyRetiredMisanswer
  PendingIsAnswerable RuntimeFollowsTrust StoresAgree ProtocolKept PlaylistsReadBack
  LibraryShown
PROPERTIES
  CurrentSurvives HandlesOneShot RadioSettles
CHECK_DEADLOCK FALSE
