----------------------------- MODULE Extensions -----------------------------
(***************************************************************************)
(* Extension packages: ModManifestParser, ModManager, PermissionStore,          *)
(* ExtensionRegistry, and the selection and the hue of themes in ThemeManager.   *)
(* A package is known by its mod ID and its content digest, both as scanned; a    *)
(* new scan may find other packages.  Theme files are read again at every rebuild, *)
(* and may have been changed by then.                                        *)
(*                                                                         *)
(* Permission changes rebuild the runtime by a signal and again by the caller.   *)
(* The second rebuild finds what the first one made, so that one stands for both;  *)
(* a theme file that changes between them does so before or after that one.      *)
(***************************************************************************)
EXTENDS Naturals, Sequences, FiniteSets, SequencesExt, Sublists

CONSTANTS
  Packages,          \* external: what a package directory may hold
  Api,               \* extensionApiVersion
  KnownPermissions,  \* permission::isKnown()
  Roots,             \* bound: a package directory in each search root, in scan order
  ByName,            \* the same directories, ordered by package name
  MaxChanged,        \* bound: theme files changed since the scan
  Hues               \* spectrum hue shifts, 0 the one of a theme file

ASSUME ExtensionsAssumption ==
  /\ Api \in Nat /\ Roots \in Nat
  /\ ByName \in [1..Roots -> 1..Roots] /\ IsInjective(ByName)
  /\ 0 \in Hues
  /\ \A p \in Packages : p.minimum \in Nat /\ p.maximum \in Nat /\ p.digest # "none"

VARIABLES
  themeFiles,        \* external: the theme file of each root, "scanned" as it was
                     \* when its digest was taken, else "edited" or "broken" since
  modEntries,        \* m_entries of ModManager, in model order
  enabledSetting,    \* the IDs whose mods/enabled/<id> is true
  grants,            \* mods/grants: digest and permissions of every granted ID
  themeSetting,      \* mods/currentTheme
  availableThemes,   \* m_themes, as IDs
  currentTheme,      \* m_currentThemeId, the digest of its package, and what its
                     \* data was read from
  uiExtensions,      \* the entries of ExtensionRegistry
  providerSessions,  \* m_sessions of ProviderExtensionManager: ID and digest
  hueShown, savedHue, hueTimer  \* of the current theme; in settings; m_huePersistTimer

extensionVars == <<themeFiles, modEntries, enabledSetting, grants, themeSetting, availableThemes,
                   currentTheme, uiExtensions, providerSessions,
                   hueShown, savedHue, hueTimer>>

BuiltIn == [id |-> "builtin.default", digest |-> "none", content |-> "scanned"]
Ids == {p.id : p \in Packages}
NoGrant == [digest |-> "none", permissions |-> {}]

-----------------------------------------------------------------------------
(* parsePackage(): the manifest, or an error.  What a manifest names must exist   *)
(* in the package, which p.files says of all its files.                       *)
Parses(p) ==
  /\ p.minimum < p.maximum /\ Api >= p.minimum /\ Api < p.maximum
  /\ p.kinds # {} /\ p.kinds \subseteq {"theme", "ui-extension", "provider"}
  /\ p.permissions \subseteq KnownPermissions
  /\ "ui-extension" \in p.kinds => p.slots # {} /\ p.slots \subseteq p.permissions
  /\ p.files

HasKind(e, kind) == e.diagnostic # "unparsed" /\ kind \in e.package.kinds
Named(e, id) == e.diagnostic # "unparsed" /\ e.package.id = id

(* find(): the first entry of the model order, an unavailable one included *)
Found(id) == \E i \in DOMAIN modEntries : Named(modEntries[i], id)
Find(id) == CHOOSE i \in DOMAIN modEntries :
  Named(modEntries[i], id) /\ \A j \in 1..(i - 1) : ~Named(modEntries[j], id)

(* hasAllDeclared(), of version and content in one *)
Granted(p, g) == g[p.id].digest = p.digest /\ p.permissions \subseteq g[p.id].permissions

-----------------------------------------------------------------------------
(* ThemeManager *)

SavedOr(id, hue) == IF savedHue[id] # {} THEN CHOOSE h \in savedHue[id] : TRUE ELSE hue

(* selectTheme() of an available theme after resetAvailableThemes(), which has     *)
(* made the built-in theme current: a pending hue is not adjustable any more, so   *)
(* that committing it here stores nothing.                                    *)
SelectTheme(theme) ==
  /\ currentTheme' = theme
  /\ hueShown' = IF theme = BuiltIn THEN 0 ELSE SavedOr(theme.id, 0)
  /\ themeSetting' = theme.id
  /\ hueTimer' = FALSE

SetSpectrumHueShift(hue) ==
  /\ currentTheme # BuiltIn /\ hue # hueShown
  /\ hueShown' = hue
  /\ hueTimer' = TRUE
  /\ UNCHANGED <<themeFiles, modEntries, enabledSetting, grants, themeSetting,
                 availableThemes, currentTheme, uiExtensions, providerSessions, savedHue>>

(* By the timer, or when the slider is released *)
CommitSpectrumHueShift ==
  /\ hueTimer
  /\ hueTimer' = FALSE
  /\ savedHue' = IF currentTheme = BuiltIn THEN savedHue
                 ELSE [savedHue EXCEPT ![currentTheme.id] = {hueShown}]
  /\ UNCHANGED <<themeFiles, modEntries, enabledSetting, grants, themeSetting,
                 availableThemes, currentTheme, uiExtensions, providerSessions, hueShown>>

-----------------------------------------------------------------------------
(* registerTheme() takes the file as it is now: nothing compares it with the       *)
(* digest that was granted.                                                  *)
ThemeReads(e, files) ==
  files[e.root] = "edited" \/ (files[e.root] = "scanned" /\ e.package.theme)

(* rebuildRuntime(), for entries es, grants g and theme files as they are now, and  *)
(* the sessions that reconcile() opens when it hears of it.  A theme that the user   *)
(* activates is selected after the one of the settings, unless it cannot be read.   *)
RebuildRuntime(es, g, files, activated) ==
  LET marked == [i \in DOMAIN es |->
        IF es[i].diagnostic = "none" /\ HasKind(es[i], "theme") /\ ~ThemeReads(es[i], files)
        THEN [es[i] EXCEPT !.diagnostic = "theme"] ELSE es[i]]
      usable == {i \in DOMAIN es : marked[i].diagnostic = "none"}
      active == {marked[i].package : i \in {j \in usable :
                   marked[j].enabled /\ Granted(marked[j].package, g)}}
      themes == {[id |-> marked[i].package.id, digest |-> marked[i].package.digest,
                  content |-> files[marked[i].root]] :
                   i \in {j \in usable : HasKind(marked[j], "theme")}}
      first == {i \in DOMAIN es : Named(es[i], themeSetting)
                   /\ \A j \in 1..(i - 1) : ~Named(es[j], themeSetting)}
      bySetting == IF \E i \in first : es[i].enabled /\ Granted(es[i].package, g)
                   THEN {t \in themes : t.id = themeSetting} ELSE {BuiltIn}
      byUser == {t \in themes : t.id \in activated}
      chosen == IF byUser # {} THEN byUser ELSE bySetting
  IN  /\ modEntries' = marked
      /\ availableThemes' = {BuiltIn.id} \cup {t.id : t \in themes}
      /\ uiExtensions' = UNION {
           {<<p.id, p.digest, slot>> : slot \in p.slots \cap g[p.id].permissions} :
             p \in {q \in active : "ui-extension" \in q.kinds}}
      /\ providerSessions' = {<<p.id, p.digest>> :
             p \in {q \in active : "provider" \in q.kinds}}
      /\ IF chosen # {} THEN SelectTheme(CHOOSE t \in chosen : TRUE)
         ELSE /\ currentTheme' = BuiltIn /\ hueShown' = 0
              /\ UNCHANGED <<themeSetting, hueTimer>>
      /\ themeFiles' = files
      /\ UNCHANGED savedHue

(* Somebody writes the theme file of a package that will be read again. *)
ThemeFileChanges(i, content) ==
  /\ i \in DOMAIN modEntries
  /\ LET e == modEntries[i]
         others == {r \in 1..Roots \ {e.root} : themeFiles[r] # "scanned"}
     IN  /\ e.diagnostic = "none" /\ HasKind(e, "theme") /\ themeFiles[e.root] # content
         /\ Cardinality(others) < MaxChanged
         /\ themeFiles' = [themeFiles EXCEPT ![e.root] = content]
  /\ UNCHANGED <<modEntries, enabledSetting, grants, themeSetting, availableThemes,
                 currentTheme, uiExtensions, providerSessions, hueShown, savedHue, hueTimer>>

(* refresh(), of what the search roots hold now: the second package of an ID is   *)
(* a duplicate, and the entries are sorted by name only then.                 *)
Scanned(disk) ==
  LET present == {r \in 1..Roots : disk[r] # {}}
      package(r) == CHOOSE p \in disk[r] : TRUE
      entry(r) ==
        IF ~Parses(package(r))
        THEN [root |-> r, package |-> package(r), enabled |-> FALSE,
              diagnostic |-> "unparsed"]
        ELSE IF \E q \in present : q < r /\ Parses(package(q))
                                   /\ package(q).id = package(r).id
        THEN [root |-> r, package |-> package(r), enabled |-> FALSE,
              diagnostic |-> "duplicate"]
        ELSE [root |-> r, package |-> package(r),
              enabled |-> package(r).id \in enabledSetting, diagnostic |-> "none"]
      order == Sublist(ByName, {k \in DOMAIN ByName : ByName[k] \in present})
  IN  [i \in DOMAIN order |-> entry(order[i])]

AsScanned == [r \in 1..Roots |-> "scanned"]

RefreshMods(disk) ==
  /\ RebuildRuntime(Scanned(disk), grants, AsScanned, {})
  /\ UNCHANGED <<enabledSetting, grants>>

Disks == [1..Roots -> {{}} \cup {{p} : p \in Packages}]

ExtensionsInit ==
  /\ themeFiles = AsScanned /\ modEntries = <<>>
  /\ enabledSetting = {} /\ grants = [id \in Ids |-> NoGrant]
  /\ themeSetting = BuiltIn.id /\ availableThemes = {BuiltIn.id} /\ currentTheme = BuiltIn
  /\ uiExtensions = {} /\ providerSessions = {}
  /\ hueShown = 0 /\ savedHue = [id \in Ids |-> {}] /\ hueTimer = FALSE

(* grantDeclared(): when the settings cannot be written the grant is there, but   *)
(* nobody hears of it.                                                      *)
GrantDeclared(id, written) ==
  /\ Found(id)
  /\ LET e == modEntries[Find(id)]
         g == [grants EXCEPT ![id] =
                 [digest |-> e.package.digest, permissions |-> e.package.permissions]]
     IN  /\ e.diagnostic = "none"
         /\ grants' = g
         /\ IF written THEN RebuildRuntime(modEntries, g, themeFiles, {})
            ELSE UNCHANGED <<themeFiles, modEntries, themeSetting, availableThemes, currentTheme,
                             uiExtensions, providerSessions, hueShown, savedHue, hueTimer>>
  /\ UNCHANGED enabledSetting

RevokeAllQuietly(id) ==                               \* mutant of RevokeAll
  /\ Found(id)
  /\ modEntries' = [modEntries EXCEPT ![Find(id)].enabled = FALSE]
  /\ grants' = [grants EXCEPT ![id] = NoGrant]
  /\ enabledSetting' = enabledSetting \ {id}
  /\ UNCHANGED <<themeFiles, themeSetting, availableThemes, currentTheme, uiExtensions,
                 providerSessions, hueShown, savedHue, hueTimer>>

RevokeAll(id) ==
  /\ Found(id)
  /\ LET g == [grants EXCEPT ![id] = NoGrant]
     IN  /\ grants' = g
         /\ RebuildRuntime([modEntries EXCEPT ![Find(id)].enabled = FALSE], g, themeFiles, {})
  /\ enabledSetting' = enabledSetting \ {id}

(* setEnabled(), and activateTheme(), which enables and then selects *)
SetModEnabled(id, on, activated) ==
  /\ Found(id)
  /\ LET e == modEntries[Find(id)]
     IN  e.diagnostic = "none" /\ (on => Granted(e.package, grants))
  /\ enabledSetting' = IF on THEN enabledSetting \cup {id} ELSE enabledSetting \ {id}
  /\ RebuildRuntime([modEntries EXCEPT ![Find(id)].enabled = on], grants, themeFiles,
                    activated)
  /\ UNCHANGED grants

SetEnabled(id, on) == SetModEnabled(id, on, {})

ActivateTheme(id) ==
  /\ Found(id) /\ HasKind(modEntries[Find(id)], "theme")
  /\ SetModEnabled(id, TRUE, {id})

ExtensionsNext ==
  \/ \E i \in 1..Roots, content \in {"edited", "broken"} : ThemeFileChanges(i, content)
  \/ \E disk \in Disks : RefreshMods(disk)
  \/ \E id \in Ids, written \in BOOLEAN : GrantDeclared(id, written)
  \/ \E id \in Ids : RevokeAll(id)
  \/ \E id \in Ids, on \in BOOLEAN : SetEnabled(id, on)
  \/ \E id \in Ids : ActivateTheme(id)
  \/ \E hue \in Hues : SetSpectrumHueShift(hue)
  \/ CommitSpectrumHueShift

ExtensionsSpec == ExtensionsInit /\ [][ExtensionsNext]_extensionVars

-----------------------------------------------------------------------------
(* Every variable of the extensions stays in its domain. *)
ExtensionsTypeOK ==
  /\ enabledSetting \subseteq Ids
  /\ currentTheme.id \in availableThemes
  /\ \A i \in DOMAIN modEntries :
       modEntries[i].diagnostic \in {"none", "unparsed", "duplicate", "theme"}
  /\ hueShown \in Hues /\ hueTimer \in BOOLEAN

(* An ID and digest that may run: an available package that is enabled, here and  *)
(* in the settings, and granted at the digest it was scanned with. *)
Trusted(id, digest) ==
  /\ id \in enabledSetting
  /\ \E i \in DOMAIN modEntries :
       LET e == modEntries[i]
       IN  /\ e.diagnostic = "none" /\ e.enabled
           /\ e.package.id = id /\ e.package.digest = digest
           /\ Granted(e.package, grants)

(* Whatever was scanned, granted, revoked, enabled and activated, in any order, with *)
(* duplicates on disk and theme files that change and break after the scan, no       *)
(* provider keeps its session, no UI extension is shown and no theme is current      *)
(* unless its package, as scanned, is trusted now.  This is about rebuildRuntime()    *)
(* reaching every one of them after each change.  It is not about the files: a theme  *)
(* may be current with a content nobody granted, but only if its file was changed     *)
(* after the scan.                                                           *)
RuntimeFollowsTrust ==
  /\ \A p \in providerSessions : Trusted(p[1], p[2])
  /\ \A u \in uiExtensions : Trusted(u[1], u[2])
  /\ currentTheme = BuiltIn \/ Trusted(currentTheme.id, currentTheme.digest)
  /\ currentTheme.content = "edited" =>
       \E i \in DOMAIN modEntries :
         /\ modEntries[i].package.id = currentTheme.id
         /\ modEntries[i].package.digest = currentTheme.digest
         /\ themeFiles[modEntries[i].root] # "scanned"

=============================================================================
