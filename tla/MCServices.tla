----------------------------- MODULE MCServices -----------------------------
(***************************************************************************)
(* The components beside playback and the indexer, one per behaviour: they share    *)
(* no state, so that the states of all of them together say no more than the states  *)
(* of each with the others at rest.                                              *)
(***************************************************************************)
EXTENDS PlaybackQueue, WindowPresentation, AudioAnalysis, RadioDirectory,
        ProviderGateway, ProviderAccounts, ProviderProtocol, Extensions,
        Playlists, LibraryView

VARIABLE component    \* the one that moves

servicesVars == <<queueVars, windowVars, analysisVars, radioVars, gatewayVars, accountVars,
                  linkVars, codecVars, extensionVars, playlistVars, viewVars, component>>

-----------------------------------------------------------------------------
TheScreens == {Geometry(0, 6), Geometry(0, 2), Geometry(6, 5)}
TheWindows == {Geometry(at, len) : at \in {-1, 2, 7}, len \in {1, 3, 5, 8}}

TheDirectoryStations == {[url |-> u, uuid |-> "d"] : u \in {"u1", "u2"}}
TheImportedStations == {[url |-> "u1", uuid |-> Nothing]}

TheKind == ("u1" :> "jellyfin") @@ ("u2" :> "opensubsonic")

TheJson == {<<0>>, <<1, 0>>, <<1, 1, 1>>}
TheWritten == TheJson \cup {<<>>, <<0, 1>>}

Package(id, digest, kinds, theme, files) ==
  [id |-> id, digest |-> digest, kinds |-> kinds, theme |-> theme, files |-> files,
   minimum |-> 1, maximum |-> 3, permissions |-> {"slot"}, slots |-> {"slot"}]
ThePackages ==
  { Package("m", "d1", {"theme", "provider", "ui-extension"}, TRUE, TRUE),
    Package("m", "d2", {"provider"}, TRUE, TRUE),
    Package("m", "d3", {"theme"}, TRUE, FALSE),
    Package("n", "d4", {"theme"}, TRUE, TRUE) }
TheByName == <<2, 1>>

TheNoCase == [n \in Names |-> IF n = "Jazz" THEN 1 ELSE 2]

-----------------------------------------------------------------------------
(* A window and a library at rest are those of a first start. *)
ServicesInit ==
  /\ component \in {"queue", "window", "analysis", "radio", "gateway", "accounts", "link",
                    "codec", "extensions", "playlists", "view"}
  /\ QueueInit /\ WindowInit /\ AnalysisInit /\ RadioInit /\ GatewayInit /\ AccountsInit
  /\ LinkInit /\ CodecInit /\ ExtensionsInit /\ PlaylistsInit /\ ViewInit
  /\ component # "window" =>
       windowSettings = DefaultSettings /\ screen = CHOOSE s \in Screens : TRUE
  /\ component # "view" => indexedFolders = {}

OthersAtRest ==
  /\ component # "queue" => UNCHANGED queueVars
  /\ component # "window" => UNCHANGED windowVars
  /\ component # "analysis" => UNCHANGED analysisVars
  /\ component # "radio" => UNCHANGED radioVars
  /\ component # "gateway" => UNCHANGED gatewayVars
  /\ component # "accounts" => UNCHANGED accountVars
  /\ component # "link" => UNCHANGED linkVars
  /\ component # "codec" => UNCHANGED codecVars
  /\ component # "extensions" => UNCHANGED extensionVars
  /\ component # "playlists" => UNCHANGED playlistVars
  /\ component # "view" => UNCHANGED viewVars
  /\ UNCHANGED component

ServicesNext ==
  \/ component = "queue" /\ OthersAtRest /\ QueueNext
  \/ component = "window" /\ OthersAtRest /\ WindowNext
  \/ component = "analysis" /\ OthersAtRest /\ AnalysisNext
  \/ component = "radio" /\ OthersAtRest /\ RadioNext
  \/ component = "gateway" /\ OthersAtRest /\ GatewayNext
  \/ component = "accounts" /\ OthersAtRest /\ AccountsNext
  \/ component = "link" /\ OthersAtRest /\ LinkNext
  \/ component = "codec" /\ OthersAtRest /\ CodecNext
  \/ component = "extensions" /\ OthersAtRest /\ ExtensionsNext
  \/ component = "playlists" /\ OthersAtRest /\ PlaylistsNext
  \/ component = "view" /\ OthersAtRest /\ ViewNext

(* With the fairness of RadioDirectory: a radio at rest has nothing to end. *)
ServicesSpec == ServicesInit /\ [][ServicesNext]_servicesVars /\ RadioFairness

(* The type invariant of the component that moves: the others keep their first state *)
ServicesTypeOK ==
  /\ component = "queue" => QueueTypeOK
  /\ component = "window" => WindowTypeOK
  /\ component = "analysis" => AnalysisTypeOK
  /\ component = "radio" => RadioTypeOK
  /\ component = "gateway" => GatewayTypeOK
  /\ component = "accounts" => AccountsTypeOK
  /\ component = "link" => LinkTypeOK
  /\ component = "codec" => CodecTypeOK
  /\ component = "extensions" => ExtensionsTypeOK
  /\ component = "playlists" => PlaylistsTypeOK
  /\ component = "view" => ViewTypeOK
=============================================================================
