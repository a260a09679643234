# Yaap in TLA+

Yaap is a C++20/Qt music player: FFmpeg decodes local files, internet streams
and radio stations on threads of their own into a lock-free ring that the audio
device drains; a player controller on the Qt event loop ties decoding, output,
timers and the playback state together; a library indexer scans folders on a
pool thread; provider extensions are processes supervised over local IPC, and a
gateway merges what they, the media servers and its cache answer.

This directory holds TLA+ models of the parts of that program whose correctness
depends on the order in which things happen, TLC configurations that check them
on small instances, and TLAPS proofs of what matters most. Each definition names
the code it models in `PROJECT.json` ("map"), and each property has there a
mutant: a plausible bug that breaks it.

Parse with `tlasany M.tla`, check with `tlc -config X.cfg MCM.tla`, prove with
`tlapm MProofs.tla` for each of the modules named `*Proofs`.

## 1. Inventory of the system

Paths are relative to `src/` of the repository. Everything runs on the Qt event
loop ("GUI thread") unless a thread is named.

### Audio

| Component | State | Operations | Talks to |
|---|---|---|---|
| PCM ring buffer, `audio/SpscPcmRingBuffer` | samples, `m_writeFrame`, `m_readFrame`, `m_totalFramesRead` (atomics) | `write` (decoder thread), `read` (device thread), `reset` | owned by the stream; a second one by the analysis |
| PCM stream, `audio/PcmStream` | ring, `m_playing`, `m_endOfStream`, `m_hasAudio`, `m_producedFrames`, `m_underrunCount`, `m_spaceGeneration` | `write`, `waitForWritableFrames`, `interruptProducerWait`, `render`, `play`, `pause`, `markEndOfStream`, `isFinished` | shared by decoder, device and GUI threads |
| FFmpeg decoder, `audio/FFmpegDecoder` | locals of `streamInput()`; its `stop_token` | open, probe, seek, read, convert, write or wait, ready callback, flush, end | writes to the stream, calls back into the player |
| Audio output, `audio/MiniaudioOutput` | device, attached stream, gain and mute | `initialize`, `attach`, `play`, `pause`, `clear`; the device callback | renders the stream, feeds the analysis |
| Audio analysis, `audio/AudioAnalysisEngine` | a ring of its own, a worker thread, `m_resetGeneration`, the published frame, `m_droppedFrames` | `submit` (device thread), `reset`, the worker's window, snapshots | visualisation model |

Hard: two threads share the ring without a lock; a decoder that waits for space
must be woken by a render or a stop, never lost; `isFinished()` reads three
atomics one after the other. Correct when frames are heard once and in order, no
wake-up is lost, the end is reported once everything was heard and never before,
and a stop always ends the decode.

### Player

| Component | State | Operations | Talks to |
|---|---|---|---|
| Playback state machine, `core/PlaybackState` | the state | `transition`, which refuses what the table does not list | player |
| Player controller, `app/PlayerController` | source, stream, decode thread and generation, reconnect, position and metadata timers' state | open, play, pause, stop, seek, retry, shutdown; posted ready, metadata and result callbacks; `updatePosition`, reconnect timeout; playlist replies | decoder threads (by posted events), output, state machine, playlist loader, task reaper |
| Task reaper, `core/AsyncTaskReaper` | threads that were asked to stop | `retire`, joining on its own thread | player |
| Playlist and ICY parsing, `radio/RadioPlaylist*` | none | text to entries | player |

Hard: a superseded decode job still has callbacks in the event queue; timers
survive the calls that make them pointless; transitions may be refused while
their side effects happen. Correct when the player never acts for a job that is
not its own, leaves no decoder running unnoticed, shows the state the output is
in, and neither loads nor buffers for ever.

### Library

| Component | State | Operations | Talks to |
|---|---|---|---|
| Library database, `library/LibraryDatabase` | SQLite tables tracks, library_file_state, library_folders, playlists | `synchronizeFolder`, `removeFolder`, `indexedTracks`, playlists | indexer, controller |
| Library indexer, `library/LibraryIndexer` | folders and their revision, watcher, debounce timer, pending mark, a future | `addFolder`, `removeFolder`, `rescan`, `applyScan`; `scanFolders` on a pool thread | database, artwork cache, file system |
| Library controller, `app/LibraryController` | the list shown, `m_scanning` | slots around the indexer, playlists | QML |

Hard: files, volumes, folders and the storage change under a scan, and scans are
dropped, repeated or half-done; a playlist is written in several statements and
read back by a query whose order decides where one ends. Correct when a scan
never stores anything stale or for a folder that is gone, removes only what is
really missing, noticed changes arrive in the end, the list shown is the one
stored, and a playlist comes back as it was put in.

### Providers

| Component | State | Operations | Talks to |
|---|---|---|---|
| Process supervisor, `provider_runtime/ProviderProcessSupervisor` | process, server, socket, startup timer, outstanding requests, the single shots of `stop()` | `start`, handshake, `request`, `cancel`, `stop`, failure and exit handlers | the provider process; the manager |
| Extension manager, `provider_runtime/ProviderExtensionManager` | sessions with crash times, retiring supervisors | `reconcile`, crash and stop handlers, restarts, `host.credential.read` | supervisors, credential broker, gateway |
| Gateway, `provider_runtime/ProviderGateway` | requests, pending count, generation, items, offline mode | search, browse, play, cancel, `handleResponse` | clients, manager, cache, player |
| Cache, `provider_runtime/ProviderCache` | SQLite rows with time and size | get, put, prune | gateway |
| Accounts and credentials, `providers/ProviderAccountStore`, `security/*` | accounts; handles with an expiry | save, remove; issue and consume a handle once | gateway, manager, system keychain |
| Built-in clients, `providers/ProviderClients` | network replies in flight | search, browse, resolve | gateway |
| Protocol codec, `provider_protocol/*`, and the C++ SDK, `sdk/cpp` | receive buffer; cancelled ids | frame, unframe; dispatch | supervisor; extensions |

Hard: a provider may crash, hang, lie or ignore signals at any step, while
single shots of an earlier stop are still due; answers come late, from a process
that has been replaced, or for a search that has been superseded; an account
lives in three stores that are written one after the other. Correct when
requests belong to the process that runs and end in an answer, a time-out or a
cancellation, a stopped process ends, a failed session restarts or says why not,
an answer is shown and cached for its own query only, messages arrive as they
were sent, and a secret is handed out once and to whom it was issued.

### The rest

| Component | State | Why it matters |
|---|---|---|
| Radio browser, `radio/RadioBrowserClient`, `app/RadioController`, its model | mirrors, waiters, generation, active reply, pending clicks, offline cache | fail-over between mirrors while searches supersede each other |
| Extensions, `mods/*` (ModManager, PermissionStore, ExtensionRegistry, ThemeManager) | enabled flags, digest-bound grants, the active theme, the registry | enabling, revoking and updating in any order |
| Manifests and API, `extension_api/*`, `mods/ModManifestParser` | none | validation of a document |
| Metadata, `audio/MediaMetadata`, `audio/StreamMetadata` | none, or a small demuxer state | text extraction |
| Domain model, `domain/*` | a queue the application does not use yet | sequential, unit-tested |
| Window, shell, QML | geometry, masks | presentation |

`PROJECT.json` lists the same components with their status, and under "hazards"
the places where each bites.

## 2. Modules

| Module | Models | Built on |
|---|---|---|
| `PcmFifo` | abstract: a bounded FIFO of frames, as two counters and what was last heard | |
| `SpscRing` | `SpscPcmRingBuffer`, one step per atomic access and per copied frame | implements `PcmFifo` (`ImplementsFifo`) |
| `PcmStream` | `PcmStream`'s state and operations for three threads, one step per atomic access | `PcmFifo` for its ring |
| `StreamDecoder` | `FFmpegDecoder::streamInput()` on the decoder thread, composed with the device and the GUI thread | extends `PcmStream` |
| `PlaybackState` | the transition table | |
| `PlayerController` | the controller, its decode jobs, the device, the event queue, timers and replies | extends `PlaybackState` |
| `AudioAnalysis` | the analysis queue, its resets and the worker | a FIFO, as `SpscRing` is shown to be |
| `LibraryDatabase`, `LibraryIndexer` | the table of tracks; event loop, pool thread, watcher, files, volumes, storage, restarts | the indexer extends the database |
| `Playlists` | playlists as stored, filled in a transaction and read back by the query | `Sublists` for what a deletion leaves |
| `LibraryView` | `LibraryController`: the list shown and the scanning flag | the indexer as its signals |
| `ProviderSession` | one session of the extension manager with its supervisor and the provider process | |
| `ProviderLink` | one connection between the supervisor and the SDK: both counts of outstanding requests, both queues | a FIFO in each direction |
| `ProtocolCodec` | the frames of that connection, byte by byte | |
| `ProviderProtocol` | what the messages and their bytes promise together | extends `ProviderLink`, `ProtocolCodec` |
| `ProviderGateway` | the gateway with the list of sessions and retiring supervisors, the cache, and the account searches of the clients | the supervisors as `ProviderSession` leaves them |
| `ProviderAccounts` | the account store, the credential store, the handle broker and `host.credential.read` | |
| `RadioDirectory` | mirror lookup and fail-over, the directory model and its cache, saved stations, clicks, playlist import | |
| `Extensions` | packages, permissions, the registry, and which theme is active | |
| `PlaybackQueue` | the queue of `domain/` | |
| `WindowPresentation` | mode, geometry and settings of the window | |
| `Sublists` | some elements of a list in their order, for what is selected by a query or a filter | |
| `SpscRingProofs`, `StreamDecoderProofs`, `PlayerControllerProofs`, `LibraryIndexerProofs`, `ProviderSessionProofs`, `SublistsProofs` | theorems and lemmas | the module they are about |
| `ServicesProofs` | theorems about `PlaybackQueue`, `AudioAnalysis`, `WindowPresentation`, `LibraryView`, `RadioDirectory`, `Extensions`, `Playlists`, and the services together | `MCServices`, `ProviderProofs` |
| `ProviderProofs` | theorems about `ProviderGateway`, `ProviderAccounts`, `ProviderLink`, `ProtocolCodec`, `ProviderProtocol` | these modules |
| `MC*` | instances for TLC | the module they instantiate |

`MCServices` holds eleven of them: the components beside playback, the indexer
and the supervisor. They share no variable, so each behaviour of its
specification moves one of them and leaves the others in their first state; the
states of one run are the sum of those of the components, not the product.

How they correspond to the code:

- **Ring.** `samples`, `writeFrame`, `readFrame`, `totalFramesRead` are the
  members. A thread's load of the other side's index may return any value the
  index held since its last load (`seenRead .. readFrame`): C++ promises an
  acquire load no more. `std::copy_n` is one step per frame, so that a slot that
  both threads touch would be seen. `reset()` needs both threads idle, as its
  header demands.
- **Stream and decoder.** The ring's operations are single steps here, which is
  what the refinement justifies. Everything else is one atomic access per step:
  the generation loaded before the tests that justify sleeping, the bump and the
  notification as two steps, the three loads of `isFinished()`. FFmpeg calls are
  external: they succeed, fail or end, and notice a stop request as the
  interrupt callback lets them.
- **Player.** A slot or posted callback is one action, with every call it makes
  (`startStream`, `cancelDecode`, `setError`, ...) as an operator inside it. A
  decode job is an identity; the generation the code compares is represented by
  `current`, the job of the newest generation. The stream is reduced to what the
  player looks at: nothing, less than 250 ms, or enough buffered.
- **Provider session.** Times are ticks. `terminations` and `kills` are the
  single shots of `stop()`, which are not tied to a process, as in the code. Where
  versions of Qt differ the model follows Qt 6, which `CMakeLists.txt:83` requires:
  a crash is reported when the process no longer counts as running, and aborting a
  socket signals that it disconnected.
- **Library.** A version stands for a file's size, time and content. `disk` is
  the file system, `away` the volumes that are gone, `failing` says that the
  database and the artwork cache fail. `scanFolders()` is several steps per
  root: enter, list, stat and read each file, leave. `applyScan()` is one step
  per stored folder and one at the end, and the event loop is busy meanwhile.
  `missed` and `lost` are history: changes nobody could notice, and files that
  were absent or hidden since the scan began. A volume that goes away takes its
  mount point with it (an empty directory left behind would be a complete scan
  without files, and its tracks would go, as the code intends for an empty
  folder).
- **Analysis.** A frame is tagged with the number of resets asked for before it
  was submitted, a spectrum with the tag of its oldest frame. The device callback
  submits while the worker empties the queue, and the user may reset again
  before the worker has honoured the last reset.
- **Gateway.** A result is known by the query it answers. A supervisor is what
  the gateway sees of one: ready or not, its next request number, and what is
  outstanding; it may refuse a request, which the gateway then does not count.
  Storing an entry and the eviction after it may each fail, the eviction half-way
  too, as the gateway ignores both results; a session that is replaced leaves a retiring supervisor behind
  that may still answer. `crossed` records that such an answer met a number its
  successor had given out too.
- **Accounts.** Row, settings and secret are three stores, each write a step that
  may fail, with a crash between any two; `troubled` records for which accounts
  that happened. Handles live in memory and expire by the wall clock.
- **Connection.** Each side handles a message in one step, but a chunk that holds
  several is handled as several steps. The socket loses and reorders nothing; it
  may break. `ProtocolCodec` cuts the stream of bytes at any place, and lets a
  peer write frames `encode()` would not.
- **Radio.** A request is known by its cache key. `mirrorWaiters` are the thunks
  that wait for a lookup, `mirrorPosts` the single shots, `radioReplies` the
  replies under way. The rows of the directory lie in the providers' cache, whose
  eviction by size may take any of them at any time (`EvictStations`).
- **Extensions.** A package is its mod ID, its digest and what its manifest
  declares, as the last scan read them; the file system may hold other packages
  at the next scan. Grants are bound to a digest, as the permission store writes
  them. A theme file is read again by every `rebuildRuntime()`, without its
  digest: `themeFiles` says of each whether it is as scanned, has other content,
  or cannot be read any more, and `ThemeFileChanges` changes it between two
  rebuilds. What a provider's executable or a QML file holds when it is started
  or loaded is not compared with the digest either; the model ends where the
  registry names them. A session that is dropped here is a supervisor that
  retires: its process runs on until its `stop()` has taken effect
  (`ProviderSession`, `ProviderGateway`).
- **Playlists.** Each statement of the transaction may fail, which rolls it back.
  SQLite may return rows with equal sort keys in any order, and
  `COLLATE NOCASE` compares names by their class.
- **Window.** One axis of every rectangle, as the code treats both alike. That a
  geometry is recorded in normal mode only is a guard of its one caller,
  `Main.qml`, and so one of the action.

## 3. What the runs check

| Run | Properties | What it shows |
|---|---|---|
| `ring` | `IInv`, `NoSlotRace`, `ImplementsFifo` | one writer, one reader, stale loads and wrap-around: no slot is touched by both, frames stay intact, the ring is the FIFO |
| `stream` | `NoLostWakeup`, `OutcomeMatchesStream`, `StopEndsDecode`, `PlayingNeverStalls` | three threads on one stream: no lost wake-up, no premature end, ready before blocking, every stop ends the decode |
| `player` | `GenerationNamesStream`, `NoOrphanDecoder`, `StateMatchesOutput` | every order of user calls, timers, callbacks, replies, two jobs and the device |
| `player_live` | `LoadingSettles`, `BufferingSettles`, `LiveReopens` | loading and buffering end, a live station is opened again |
| `provider` | `RequestsOfThisProcess`, `StopEndsProcess`, `NeverSilentlyDead`, `RetiredIsReleased` | a provider that fails in any way at any time |
| `library` | `OwnedRows`, `CurrentRowsAreCurrent`, `ArtworkKept`, `OnlyMissingRemoved`, `ChangesArrive`, and the inductive `IInv` | scans against changing files, folders, volumes and storage, and restarts |
| `services` | for the gateway `OnlyRetiredMisanswer`, `PendingIsAnswerable`; the accounts `HandlesOneShot`, `StoresAgree`; the connection and its frames `ProtocolKept`; the radio `OneLiveRequest`, `RadioSettles`; extensions `RuntimeFollowsTrust`; playlists `PlaylistsReadBack`; the list `LibraryShown`; the analysis `NoStaleSpectrum`; the queue `CurrentSurvives`; the window `WindowOnScreen` | each component with every order of its calls, answers, timers, faults and restarts |
| `player_shutdown` | `ShutdownIsFinal` is violated | finding 1 |
| `provider_crash_loop` | `SuppressedAfterThree` is violated | finding 2 |
| `provider_deadline` | `DeadlineApplies` is violated | finding 3 |
| `library_nested` | `UnavailableKeepsTracks` is violated | finding 4 |
| `playlists_nocase` | `PlaylistsRetainOrder` is violated | finding 5 |

Each passing run but `player_live`, which shares its module with `player`, also
checks its module's type invariant (`ring` and `library` as a part of `IInv`,
`services` that of the component that moves). Several properties are conjunctions
of named parts that belong together: `OutcomeMatchesStream` has `FinishedIsFinal`
and `ReadyBeforeWaiting`, `GenerationNamesStream` has `MetadataOfSource`,
`StateMatchesOutput` has `OnlyKnownRejections` and `OnlyLiveReconnects`,
`RequestsOfThisProcess` has `OutstandingBounded`, and `ProtocolKept` has
`DecodedAsSent`, `ResponsesAreExpected` and `SlotsSuffice`.

### Bounds, and why they are enough

- `ring`: Capacity 3 (the size of the repository's wrap-around test), writes of
  up to 4 frames (more than fit), reads of up to 3, 6 frames in all: indices go
  round the ring twice, every split of a copy and every staleness occurs. The
  proofs make the instance irrelevant for the safety properties.
- `stream`: Capacity 2, packets of up to 3 frames, reads of 2, 3 frames in all,
  a prebuffer of 3. The ring fills in one packet, so the decoder must wait with
  frames left; the prebuffer is larger than the ring, so the ready callback
  before waiting is exercised; the underrun counter saturates at 1, as only
  "one more" is ever compared.
- `player`: two jobs, one in use and one retired and still running, an identity
  being reused when no trace of it is left; a file and a station; one queued
  metadata callback per job and one playlist in flight. Two jobs suffice because
  the code only ever tells the current job from any other. Jobs are symmetric
  (safety run only). `player_live` has a remote track and a station, no symmetry.
- `provider`: two requests, a cap of one, delays in the order of the real ones
  (a restart before the kill of the stop before it; three failures within the
  crash window). The violation runs use ticks of 250 ms and the code's numbers.
- `library`: a folder, a folder on a volume mounted inside it, one track there,
  two watch slots, artwork in the first version only, and two events (writes,
  deletions, unmounts, folder changes, restarts, the storage beginning to fail);
  rescans, timers, mounts and recovery are free. Two events suffice for a change
  during a scan that is itself repeated or dropped; a third multiplies the
  states without a new kind of overlap that this many actors can have.
- `services`, by component. Gateway: a provider and a Jellyfin account of two
  pages, a query and a cursor, a cache of one entry, two supervisors in turn with
  two request numbers each, two generations and two outside events: enough for a
  retiring supervisor to answer a number that was given out again, for a search
  to supersede one, and for an entry to be evicted. Accounts: two users of two
  kinds, one handle, two providers that ask and one that is granted, a restart,
  and one account with a write that failed or was cut short; a second would only
  repeat the first, as every write is of one account. Connection: two slots,
  three requests of the host and one of the SDK, so that the cap is met while a
  cancel is under way. Frames: base 2, the four bytes of a length, payloads of up to
  two bytes, three frames: the length may be too large, and every cut of a header or
  a payload occurs. Radio: two mirrors, two keys, three requests, so that a
  fail-over of a superseded request overlaps the next one. Extensions: four
  packages in two roots (duplicates, an update, kinds that differ, missing entry
  points), and one theme file at a time that is not as it was scanned; one is
  enough, as no step compares two. Playlists: two tracks, two playlists of two items, three names of
  which two differ in case. Analysis: a hop of 2, a queue of 5, so that hops and
  the queue's end do not coincide, five submissions and two resets. Queue: three
  entries. Window: screens 6, 2 and 5 wide, smaller and larger than the window
  and at another origin, and twelve geometries partly or wholly outside. List:
  two folders and three versions of the database.

Deadlock is checked except in the player, provider, playlist and services runs,
where the user may stop using a player that stands still, a suppressed or
released session is the end of it, and a component has used up what its bounds
let the user do. The stream run stutters at its end by the GUI's polling.

### Fairness

- `stream`: weak fairness of each thread. The decoder's covers its FFmpeg calls,
  which the 15 second I/O deadline and the interrupt callback bound; the
  device's covers a render that has begun, and rendering while it plays; the
  GUI's covers a call that has begun. Nothing obliges the GUI to begin one.
- `player`: timers fire and posted callbacks are delivered while the event loop
  runs; a decoder thread goes on writing or ends. Nothing obliges the user or
  the device.
- `provider`: time passes, single shots and deadlines happen, and a process that
  was sent a deadly signal dies. The provider owes the host nothing.
- `services`: a DNS lookup ends, a single shot fires, and a reply finishes, at the
  latest with the time-outs `RadioBrowserClient` and the importer set
  (`RadioFairness`). No other component is assumed to do anything.
- `library`: the pool runs the scan, signals and timers are delivered. Taking a
  scan's result is strongly fair: each click on "rescan" drops the finished
  result, and the user is assumed to leave a gap between two clicks now and then.
  Folder, file and volume changes are not fair.

## 4. What is proved

### The ring (`SpscRingProofs`)

For every `Capacity \in Nat \ {0}` (`CapacityAssumption`: the constructor
refuses zero) and every bound in `Nat` (`BoundsAssumption`):

- `RingInvariant`: `Spec => []IInv`;
- `FramesStayIntact`: `Spec => [](BufferedFramesIntact /\ CountersAgree)`;
- `RaceFreedom`: `Spec => []NoSlotRace`;
- `Refinement`: `Spec => ImplementsFifo`.

None of the last three is inductive: whether a copy disturbs a buffered frame
depends on how far the two copies have come and on what the stale indices are
worth. `IInv` adds exactly that. `ViewsAreSafe`: a stale view errs on the safe
side (`seenRead <= readFrame`, `seenWrite <= writeFrame`, and the producer's
view of the use never exceeds the capacity). `WriteFits`, `ReadFits`: the copy
in progress stays within what its thread's view allows. `WrittenSoFar`: the
frames copied are in their slots before the store that publishes them.
`ReadSoFar`: the output holds the frames copied and silence after them. The
arithmetic heart is that two positions less than `Capacity` apart never share a
slot, and that the split copy puts position `f` into slot `f % Capacity`.

### The library (`LibraryIndexerProofs`)

For every set of files, every tree of directories and every limit in `Nat`
(`LimitsAssumption`). `TreeAssumption` says what a tree is: what the user may add
is a finite set of directories, each with finitely many directories below it,
itself among them; what is below one of them has everything below it there too,
and two that share a directory lie one below the other.

- `LibraryInvariant`: `Spec => []IInv`;
- `TracksStayOwned`: `Spec => []OwnedRows`;
- `RowsStayCurrent`: `Spec => []CurrentRowsAreCurrent`;
- `ArtworkStaysCached`: `Spec => []ArtworkKept`;
- `ScansRemoveOnlyMissing`: `Spec => OnlyMissingRemoved`.

`IInv` has two halves. `CopiesInv` is about what the table may hold, which
depends on what scans carry towards it. `RowsInv` says
that every row, in the table, in the copy a scan started from, in the folder
being scanned and in the batch, is good already (`GoodRow`): it was not read
from a later version than there is, its metadata is right if its file state is
that of the file, and its artwork is in the cache. It needs no knowledge of
which scan is in progress, which is why dropping and repeating scans is harmless;
pruning is safe because it happens when no row is under way. `ScanInv` says that
a scan with the folders' revision only carries those folders, so that the check
of the revision in `applyScan()` (`Stale`) is what `OwnedRows` rests on.

`ListingInv` is about what the removal of a row rests on: a traversal that came
to its end listed every file of the folder but those that were absent meanwhile
(`lost`) or lie on a volume inside (`Whole`), the files with a row in the batch
are among those listed, and a file that does not exist while a scan runs is
`lost`. That a row lies inside the folder that owns it (`RowsLieInside`), and
that no folder is in the library twice, is what keeps the synchronisation of one
folder from removing the rows of another.

### The decoder and its stream (`StreamDecoderProofs`)

For every capacity but zero, every prebuffer and every size of packets, reads and
writes (`CapacityAssumption`, `BoundsAssumption`, `ChunkAssumption`):

- `DecoderTyped`: `Spec => []TypeOK`;
- `NoWakeupIsLost`: `Spec => []NoLostWakeup`;
- `OutcomeIsTheStreams`: `Spec => []OutcomeMatchesStream`.

`NoLostWakeup` speaks of a sleeper only, and a sleeper got there through four
tests. `Wakeups` follows it: from the load of the generation on, any bump is a
change (`Loaded`); once the stop flag was tested, a stop has bumped or is about
to (`StopBumps`); once the space was tested, space that appeared has bumped or is
about to (`SpaceBumps`); and whoever bumped still has its notification to give to
a thread asleep (`BumpNotifies`). `Accounts` ties the ring, the stream's counter
and the decoder's own count together across the steps of a write, which gives
both that a full ring was reported ready (`ReadyFirst`) and that an ended stream
is complete; `Seen` says that an end of stream that `isFinished()` saw fixes the
write index it reads next.

### The player (`PlayerControllerProofs`)

For any number of decode jobs, files, tracks and stations (`NoneAssumption`,
`KindsAssumption`, `BoundsAssumption`):

- `PlayerTyped`: `Spec => []TypeOK`;
- `GenerationIsEnough`: `Spec => []GenerationNamesStream`;
- `DecodersAreAccountedFor`: `Spec => []NoOrphanDecoder`;
- `PlayerStateIsTrue`: `Spec => []StateMatchesOutput`.

The first two properties of streams are inductive with a few facts about whose
audio is buffered (`StreamInv`). The last is not: that Ready is never refused
rests on the ready callback finding the player Loading, and that on the order of
the callbacks. `ReadyComesFirst` says that while the stream in use has not been
reported ready, the player is Loading and nothing but metadata of that stream is
queued, and that this holds up to the place of a ready callback in the queue.

### The provider session (`ProviderSessionProofs`)

For any set of requests, any cap in `Nat` and any delays:

- `RequestsStayWithProcess`: `Spec => []RequestsOfThisProcess`. The property is
  inductive; `SessionInv` adds that the outstanding requests are finitely many, so
  that they can be counted.
- `SessionIsTyped`: `Spec => []TypeOK`. Its content is in the bounds: a crash
  within the window is the first or the second when a restart is scheduled, so
  that none is due later than twice the base delay. It needs that the crashes
  kept (`Recent`) are a part of those remembered, in their order.

### The gateway (`ProviderProofs`)

For any finite sets of providers and accounts, any queries and any bounds
(`GatewayAssumption`):

- `GatewayStaysConsistent`: `GatewaySpec => []GatewayInv`;
- `GatewayIsTyped`: `GatewaySpec => []GatewayTypeOK`;
- `OnlyRetiredSupervisorsMisanswer`: `GatewaySpec => []OnlyRetiredMisanswer`;
- `PendingAnswersCanCome`: `GatewaySpec => []PendingIsAnswerable`.

A gateway's request and a supervisor's are known by the same number, and nothing
but the order of events ties the two together. `SupsOK` says that a supervisor's
outstanding numbers are below its next one and that the requests of the present
process begin at `first`; `SessionsOK` that the supervisor in a session is the
only one of its provider that has not retired; `RequestsOK` that what the gateway
waits for is what the supervisor it asked has outstanding under that number, if
it is outstanding (`Awaited`), and was asked in the present generation and, if it
is a list, for the present query. A response of the supervisor in the session
thus answers its own request, and any other sets `crossed`. `SearchesOK` says that
an account is searched once in a generation; `CountOK` ties the count to the
requests and the searches of the present generation, as an equality until a
supervisor retires (a number given out again overwrites its entry).

### The accounts (`ProviderProofs`)

For any users, handles and providers (`AccountsAssumption`):

- `AccountsAreTyped`: `AccountsSpec => []AccountsTypeOK`;
- `AccountStoresAgree`: `AccountsSpec => []StoresAgree`;
- `HandlesDiscloseOnce`: `AccountsSpec => HandlesOneShot`.

`StoresTell` adds to `StoresAgree` that the settings in memory agree with the rows
too, as `QSettings` may write them out at any time. `GrantsTell` says that a grant
is what was issued under its handle, that a disclosed handle has none, and that
the account of a grant is still stored, because removing an account revokes its
handles.

### The connection (`ProviderProofs`)

For any number of slots and any number of requests of either side
(`LinkAssumption`):

- `LinkIsTyped`: `LinkSpec => []LinkTypeOK`;
- `AnswersAreExpected`: `LinkSpec => []ResponsesAreExpected`;
- `BothCountTheSameSlots`: `LinkSpec => []SlotsSuffice`.

Supervisor and SDK count the same requests at different times. The invariant
`LinkInv` follows a request from one to the other and back: it is in transit
(`SentIds`), with the provider (`sdkOutstanding`) or answered (`AnsweredIds`), and
in that order of IDs (`IdsInOrder`), because the provider reads them in order. A
cancel has a larger ID than what it cancels and cancels no cancel
(`CancelsTell`), so that the response it makes stray lies before its own
(`AllExpected`). The SDK's cap is the hard part. `hostOutstanding` may lose a
cancelled request that the SDK still counts, for a cancel that takes its slot:
`SlotsTell` counts what the SDK owes (`OwedIds`: the calls it will read, what it
works on, and the cancels that will find nothing left to free) and says that they
are no more than what the supervisor waits for without an answer under way. Every
step that lets one join or leave the second set lets one join or leave the first
(`BothGrow`, `BothShrink`, `OneMoves`). When the SDK quits, what it has not read in
the same chunk is lost, and the calls that are left are bounded by the cap alone.

### The frames (`ProviderProofs`)

For any base of two or more, any payloads whose length four bytes can hold, and
any limit (`CodecAssumption`):

- `CodecIsTyped`: `CodecSpec => []CodecTypeOK`;
- `MessagesAsSent`: `CodecSpec => []DecodedAsSent`;
- `ProtocolIsKept`: `LinkSpec /\ CodecSpec => []ProtocolKept`.

The invariant `CodecInv` says that the bytes in the buffer followed by those on
the way spell the payloads that were put in and not decoded yet (`Spells`: there
are places, from the first byte to the last, at which the frames begin). A frame
that is complete is taken off the front of such bytes (`FrameTaken`), and a frame
that is written is spelt behind them (`FrameAppended`). `InProgress` is the same
of the loop in `append()`, after any number of frames; the loop has ended after as
many steps as there are bytes, because each step takes some (`DecodeEnds`). That a
length survives its header is `FourDigits`, four divisions with remainder.

### The playlists (`ServicesProofs`)

For any tracks, names and classes of names, and any number of playlists and items
(`PlaylistsAssumption`: the value a row without a track has is no track):

- `PlaylistsAreTyped`: `PlaylistsSpec => []PlaylistsTypeOK`;
- `PlaylistsAreReadBack`: `PlaylistsSpec => []PlaylistsReadBack`.

`PlaylistsInv` says that the items of a playlist are the tracks of its list at
growing positions (`ListStored`). Positions keep gaps when tracks are deleted, so the
list is not the table's function of the position, but its order (`KeptStored`).
What `playlists()` does with a result is then shown for any order of the rows
with equal keys: the rows of a playlist lie together, because equal classes mean
the same playlist, and follow its list (`Sorted`); every row is there once
(`RowsSorted`, by counting); so a row of another playlist than the last begins one
not begun before (`OpenedReads`), and a row's track is the next of its list
(`NextTrack`). `Read` is the loop invariant: the lists begun are those of the rows
read, each with as many of its tracks.

### The other services (`ServicesProofs`)

- Analysis: `AnalysisTyped` and `SpectrumIsFresh`
  (`AnalysisSpec => []NoStaleSpectrum`), for any hop, queue and number of resets.
  The invariant `AnalysisInv` tags every frame in the queue and in the window at
  least as new as the reset the worker has honoured, although it empties the
  queue while the callback fills it.
- Queue: `QueueTyped` and `RemovalKeepsCurrent`
  (`QueueSpec => CurrentSurvives`), for any tracks and any length.
- Window: `WindowTyped` and `WindowStaysOnScreen`
  (`WindowSpec => []WindowOnScreen`), for any screens and geometries; the
  invariant `WindowInv` says how the record in memory and the settings agree.
- List: `ViewIsCurrent` (`ViewSpec => [](ViewTypeOK /\ LibraryShown)`), for any
  folders; the two together are inductive.
- Radio: `RadioStaysInv`, `RadioIsTyped` and `LoadingHasOneRequest`
  (`RadioSpec => []OneLiveRequest`), for any mirrors, keys and stations
  (`RadioAssumption`: an imported station has no UUID of the directory). Client
  and directory each have a generation, and a reply is checked against both:
  `GenerationsAgree` says that the two of a fetch are current together or stale
  together, and a current one was asked under the key of the last request.
  `OnePath` counts the waiting thunks, single shots and replies that are current:
  one while the page loads, none when it does not.
- Extensions: `ExtensionsStayConsistent`, `ExtensionsAreTyped` and
  `OnlyTrustedExtensionsRun` (`ExtensionsSpec => []RuntimeFollowsTrust`), for any
  packages and any order of the package directories (`ExtensionsAssumption`: the
  order is one, and a package has a digest, without which nothing is granted).
  Digests are those of the scan. The theorem says that every rebuild reaches all
  that was built before, and that a theme has another content than the one that
  was granted only if its file changed after the scan, not that it never has.
  The first package of an ID in the order of the directories is the original,
  the others are duplicates, but entries are sorted by name before they are
  looked up (`OneOriginal`). So `revokeAll()` may find a duplicate, and clear the
  setting and the grant but not the flag of the original: `EnabledInSettings`
  says that an entry which is enabled in spite of the settings is hidden by such
  a duplicate and has no grant, which is what keeps it from running.

### Sublists (`SublistsProofs`)

What a filter or a query returns is `Sublist(list, places)`: the elements at some
places, from the first to the last. `SublistsProofs` proves that it is as long as
there are places and enumerates them in order, for every finite set of places, by
induction over their number: `AllNumbers` states induction over `Nat` with a set
for the property, which the provers can instantiate where they cannot instantiate
the library's theorems, whose property is an operator. The models use `Sublist` in
the place of `SelectSeq`, which is a `RECURSIVE` operator in all but name: its
definition is beyond the provers.

In the same way `Iterable` proves that a step can be repeated any number of times:
there is a function with a given start whose every value is the step applied to
the one before. The loops of `append()` and `playlists()` are recursive functions,
and their values are known because such a function exists. `Division`,
`QuotientBelow` and `OneDigit` are what the digits of a length need, and `Parts`
what cutting a sequence in two leaves.

### The services together (`ServicesProofs`)

- `ServicesAreTyped`: `ServicesSpec => []ServicesTypeOK`;
- `ServicesStaySafe`: `ServicesSpec` implies every other safety property that the
  run `services` checks.

The theorems about a component are about its own specification (`RadioSpec`,
`GatewaySpec`, ...). A step of `MCServices` is a step of one component and leaves
the others alone, so that `ServicesSpec` implies the specification of each
(`ServicesAreComponents`), and with it what was proved of it.

### Only model-checked

All liveness: `StopEndsDecode`, `PlayingNeverStalls`, `LoadingSettles`,
`BufferingSettles`, `LiveReopens`, `StopEndsProcess`, `NeverSilentlyDead`,
`RetiredIsReleased`, `ChangesArrive` and `RadioSettles`. It is beyond TLAPS here.
Every safety property that a passing run checks is proved.

## 5. Findings

1. `PlayerController.cpp:201`. `shutdown()` "requests cancellation of background
   work" (`PlayerController.hpp:86`), but not of a playlist load: its reply
   calls `openStream()`, and a decoder runs that nobody asked to stop.
2. `ProviderProcessSupervisor.cpp:263`. Crash loops are suppressed "after three
   failures" (`docs/provider-protocol.md:51`), but when a crash is reported
   `stop()` finds the process not running and posts a `processStopped`, beside the
   one `finished()` emits: each crash counts twice, and the second suppresses.
3. `ProviderProcessSupervisor.cpp:62`. "A 20-second request deadline"
   (`docs/provider-protocol.md:50`) is not applied to requests outstanding when
   the process ends: they are forgotten without a response.
4. `LibraryDatabase.cpp:184`. The log says "keeping its indexed tracks" of an
   unavailable folder (`LibraryIndexer.cpp:189`); when it lies inside another
   library folder that owns its rows, that folder's scan removes them.
5. `LibraryDatabase.cpp:422`. `playlists()` starts a playlist wherever the id
   differs from the row before, and sorts by `p.name COLLATE NOCASE, i.position`
   (line 414), while names are unique byte for byte: the rows of "Mix" and "mix"
   alternate, and each comes back in pieces, against what
   `tests/LibraryDatabaseTests.cpp:37` and `:51` require of a playlist.

Observed while modelling, mostly contradicted by no document:

- `play()` while loading starts the device although Loading to Playing is
  refused; the state then becomes Ready or Paused while sound is heard and
  `pause()` is ignored. A device that drains the stream as fast as it is decoded
  may keep the prebuffer, and so the ready callback, away for ever, hence the
  disjunct `started` in `LoadingSettles`.
- The reconnect timer survives `pause()`, `play()` at the end of the stream and
  an error, and then opens the station again and plays it.
- Paused to Buffering and Finished to Error are refused; the failed stream of a
  paused station stays Paused (`OnlyKnownRejections` lists all refusals).
- A launch that fails leaves the server listening, so a later start is refused;
  a supervisor retired while its launch fails is not released before the manager
  goes; a pending restart fires after suppression too.
- The terminate and kill shots of a `stop()` whose process ended at once find the
  process of the restart and end it, which counts as another failure.
- Adding a folder that is there already, or failing to add one, leaves the
  controller's "scanning" on. An added folder is persisted by its first scan
  only. Changes between listing and watching, rewrites in place, and changes on
  an unavailable volume wait for the next rescan (`missed`). Removing a nested
  folder drops its tracks from playlists although the outer folder adds them
  again.
- A supervisor that is retiring still answers under the provider ID of the session
  that replaced it; its response is taken, shown and cached as the successor's
  answer to the same number. `AnswersOfTheirQuery` fails for that reason only,
  which is what `OnlyRetiredMisanswer` checks. The comparison of the generation in
  `handleResponse()` never fails, as `clearRequests()` comes with every bump.
- A session that ends forgets its requests without a word, so that the page shows
  "loading" until the next search; and a number given out again before the old
  answer came overwrites its entry, so that the count never gets back to zero.
- A search of an account that is answered after the account was removed puts its
  entries back into the cache.
- The host takes a response that crosses its cancel for a protocol error of the
  provider (`ProviderProcessSupervisor.cpp:375`), although the provider conforms;
  and an error in a chunk drops the good messages decoded before it.
- Nothing but the tests issues credential handles so far. Disabling an account
  does not revoke its handles; they expire by the wall clock, which may be set.
- Several `play()` calls may be answered out of order: the last answer plays.
- Nothing prunes the offline cache of the radio directory by age; the gateway
  evicts its rows, in the cache they share, when that grows too large
  (`ProviderGateway.cpp:148`, `:270`), and ignores it when that fails, so that the
  size is a bound only while evictions succeed.
- A theme file that changed after the scan is applied under the old grant by the
  next rebuild, a grant or a revocation of any other package included
  (`ThemeManager.cpp:172-187`, `ModManager.cpp:222-224`), while
  `docs/modding.md:24` says "Any content change invalidates the grant." One that
  broke is listed with its diagnostic only then. A refresh reads both anew.
- A hue chosen less than 300 ms before the themes are rebuilt is lost
  (`ThemeManager.cpp:196-198`). Of two packages with one mod ID, the later one is
  listed with a diagnostic, and grants are looked up by ID and digest.
- Importing a playlist twice saves its stations twice.
- The user cannot rescan while the list says it scans (`Main.qml:627`), so a flag
  left on by an `addFolder()` that started no scan stays until the watcher starts
  one; it is off while a rescan the user asked for still waits for a running scan.

## 6. Not modelled

Gain, mute, position and duration arithmetic; wording and logging; the QML, the
shaped-window masks and `main()`; FFmpeg, Qt, SQLite and miniaudio themselves,
which appear as the outcomes the code distinguishes. Further:

- The reading of a theme file (`ThemeManager.cpp:387-760`: colours, layout,
  shapes) and of a manifest's JSON: each is one pass over a document, whose
  result is here whether it is accepted and what it declares.
- ICY and media metadata and the playlist parsers: text extraction, whose inputs
  are far too long for a small instance and whose cases the unit tests list.
- Building HTTP requests and decoding their JSON in the clients and in
  `RadioBrowserClient`: around a reply, which is modelled, they keep no state.
- The Fourier transform and the visualisation's smoothing: numerics; the level of
  a spectrum is arbitrary here.
- The migration of the database schema, which runs once before anything else.
- Tools, samples and tests.

Changes between listing and watching a folder are the one hazard without a
property: the indexer does not see them, and `missed` keeps account of that until
the next scan. Some hazards are covered in part, as their notes in `PROJECT.json`
say: no property tells which entry the cache evicts (an entry may be lost at any
time, and what is served is right all the same); `StoresAgree` does not judge the
account whose own write failed; `LibraryShown` names the case in which a scanning
flag stays, and `RuntimeFollowsTrust` the one in which a theme is not what was
granted.

Cancelling a cancel is left out of `ProviderLink`: `cancel()` would take the number
of one, but its caller, the gateway, cancels requests of its own only.

Of the C++ memory model only stale acquire loads are represented, in `SpscRing`.
The other modules read and write atomics in one global order. That is an
assumption; where one thread waits for another (`waitForWritableFrames()` against
`render()` and `interruptProducerWait()`) the code publishes with release what
the waiting side acquires through `m_spaceGeneration`, and needs no more.
