------------------------- MODULE WindowPresentation -------------------------
(***************************************************************************)
(* WindowPresentationController (src/src/app): full window or miniplayer, the   *)
(* geometry of either, and the settings they are restored from.  The two axes  *)
(* of a rectangle are treated alike and apart, so one of them is modelled; the  *)
(* right edge is at + len, and the screen is the available geometry.         *)
(***************************************************************************)
EXTENDS Integers, FiniteSets

CONSTANTS
  MinimumNormal, DefaultNormal, MiniSize,  \* minimumNormalSize(), default...Size()
  MaximumDimension,                        \* maximumPersistedDimension
  Screens,                                 \* available geometries
  Windows                                  \* bound: the geometries a user leaves

ASSUME WindowAssumption ==
  /\ {MinimumNormal, DefaultNormal, MiniSize, MaximumDimension} \subseteq Nat \ {0}
  /\ Screens \cup Windows \subseteq [at : Int, len : Nat \ {0}]

VARIABLES
  presentation,     \* the members of the controller
  windowSettings,   \* the persisted keys; a set of at most one where one may be absent
  screen            \* the screen the window is on: the user may change it

windowVars == <<presentation, windowSettings, screen>>

Geometry(at, len) == [at |-> at, len |-> len]
Smaller(a, b) == IF a < b THEN a ELSE b
Clamp(v, lo, hi) == IF v < lo THEN lo ELSE IF v > hi THEN hi ELSE v

(* clampGeometry() *)
ClampUnsized(g, minimum, area) ==                     \* mutant of ClampGeometry
  Geometry(Clamp(g.at, area.at, area.at + area.len - g.len), g.len)

ClampGeometry(g, minimum, area) ==
  LET len == Clamp(g.len, Smaller(minimum, area.len), area.len)
  IN  Geometry(Clamp(g.at, area.at, area.at + area.len - len), len)

Centered(size, area) ==
  LET len == Smaller(size, area.len)
  IN  Geometry(area.at + (area.len - len) \div 2, len)

IsPlausible(g) == g.len >= MinimumNormal /\ g.len <= MaximumDimension

Defaults == [mode |-> "normal", normal |-> Geometry(0, DefaultNormal), hasNormal |-> FALSE,
             mini |-> 0, hasMini |-> FALSE]
DefaultSettings == [current |-> TRUE, mode |-> "normal", normal |-> {}, mini |-> {}]

(* load(), of a controller whose members have their defaults *)
Loaded(s) ==
  IF ~s.current THEN Defaults
  ELSE LET kept == {g \in s.normal : IsPlausible(g)}
       IN  [mode |-> s.mode,
            normal |-> IF kept = {} THEN Defaults.normal ELSE CHOOSE g \in kept : TRUE,
            hasNormal |-> kept # {},
            mini |-> IF s.mini = {} THEN 0 ELSE CHOOSE p \in s.mini : TRUE,
            hasMini |-> s.mini # {}]

SettingsAfterLoad(s) == IF s.current THEN s ELSE DefaultSettings

(* The settings of a first start, or those another version or screen left. *)
WindowInit ==
  /\ \E current \in BOOLEAN, mode \in {"normal", "mini"},
        normal \in {{}} \cup {{g} : g \in Windows}, mini \in {{}} \cup {{g.at} : g \in Windows} :
       LET s == [current |-> current, mode |-> mode, normal |-> normal, mini |-> mini]
       IN  presentation = Loaded(s) /\ windowSettings = SettingsAfterLoad(s)
  /\ screen \in Screens

(* normalGeometryFor() and miniPlayerGeometryFor() *)
NormalGeometryFor(p, area) ==
  ClampGeometry(IF p.hasNormal /\ IsPlausible(p.normal) THEN p.normal
                ELSE Centered(DefaultNormal, area), MinimumNormal, area)

MiniPlayerGeometryFor(p, area) ==
  ClampGeometry(IF p.hasMini THEN Geometry(p.mini, MiniSize)
                ELSE Centered(MiniSize, area), MiniSize, area)

(* recordNormalGeometry() and the position half of recordMiniPlayerPosition()    *)
(* and of enterMiniPlayer(): the members and the settings change together.    *)
WithNormal(p, g) ==
  IF ~IsPlausible(g) THEN p
  ELSE [p EXCEPT !.normal = ClampGeometry(g, MinimumNormal, screen), !.hasNormal = TRUE]

WithMini(p, at) ==
  [p EXCEPT !.mini = ClampGeometry(Geometry(at, MiniSize), MiniSize, screen).at,
            !.hasMini = TRUE]

Persist(p) ==
  /\ presentation' = p
  /\ windowSettings' = [current |-> TRUE, mode |-> p.mode,
       normal |-> IF p.normal = presentation.normal /\ p.hasNormal = presentation.hasNormal
                  THEN windowSettings.normal ELSE {p.normal},
       mini |-> IF p.mini = presentation.mini /\ p.hasMini = presentation.hasMini
                THEN windowSettings.mini ELSE {p.mini}]
  /\ UNCHANGED screen

EnterMiniPlayer(g) ==
  /\ presentation.mode = "normal"
  /\ Persist([WithMini(WithNormal(presentation, g), g.at) EXCEPT !.mode = "mini"])

RestoreFullPlayer ==
  /\ presentation.mode = "mini"
  /\ Persist([presentation EXCEPT !.mode = "normal"])

(* The user moves or resizes the window.  That it is recorded for the mode it is in     *)
(* is up to savePresentationGeometry() of Main.qml, the only caller.          *)
RecordNormalGeometry(g) ==
  presentation.mode = "normal" /\ Persist(WithNormal(presentation, g))

RecordMiniPlayerPosition(g) ==
  presentation.mode = "mini" /\ Persist(WithMini(presentation, g.at))

ResetToDefaults ==
  /\ presentation' = Defaults
  /\ windowSettings' = DefaultSettings
  /\ UNCHANGED screen

ChangeScreen(area) == screen' = area /\ UNCHANGED <<presentation, windowSettings>>

(* The program ends, in whatever way, and starts again. *)
RestartWindow ==
  /\ presentation' = Loaded(windowSettings)
  /\ windowSettings' = SettingsAfterLoad(windowSettings)
  /\ UNCHANGED screen

WindowNext ==
  \/ \E g \in Windows : EnterMiniPlayer(g)
  \/ RestoreFullPlayer
  \/ \E g \in Windows : RecordNormalGeometry(g)
  \/ \E g \in Windows : RecordMiniPlayerPosition(g)
  \/ ResetToDefaults
  \/ \E area \in Screens : ChangeScreen(area)
  \/ RestartWindow

WindowSpec == WindowInit /\ [][WindowNext]_windowVars

-----------------------------------------------------------------------------
(* Every variable of the window stays in its domain. *)
WindowTypeOK ==
  /\ presentation.mode \in {"normal", "mini"}
  /\ presentation.normal.len > 0
  /\ windowSettings.current
  /\ Cardinality(windowSettings.normal) <= 1 /\ Cardinality(windowSettings.mini) <= 1
  /\ screen \in Screens

Inside(g, area) == g.at >= area.at /\ g.len > 0 /\ g.at + g.len <= area.at + area.len

(* Whatever was recorded on whatever screen, the window that either mode asks    *)
(* for lies on the present one, and a restart brings back the mode, the          *)
(* position and the geometry, save one that a small screen had bounded below     *)
(* the least plausible size.  This is about the clamping of every geometry and  *)
(* about load() reading what the record functions wrote.                     *)
WindowOnScreen ==
  /\ Inside(NormalGeometryFor(presentation, screen), screen)
  /\ Inside(MiniPlayerGeometryFor(presentation, screen), screen)
  /\ LET restored == Loaded(windowSettings)
     IN  /\ restored.mode = presentation.mode
         /\ restored.mini = presentation.mini /\ restored.hasMini = presentation.hasMini
         /\ IsPlausible(presentation.normal) =>
              restored.normal = presentation.normal

=============================================================================
