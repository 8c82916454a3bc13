----------------------------- MODULE UpdateService -----------------------------
(***************************************************************************)
(* The update manager together with its settings                           *)
(* (skeys-core/update/settings.go, skeys-daemon/internal/adapter/update.go)*)
(* Every check reads update-settings.json anew; SetUpdateSettings writes   *)
(* it with os.WriteFile, which empties the file before it fills it, while  *)
(* checks go on and the daemon may be killed.                              *)
(*                                                                         *)
(* A behaviour has one of two parts: in "install" releases are downloaded  *)
(* and applied under settings that do not change; in "settings" the        *)
(* settings change and updates are only looked for.                        *)
(***************************************************************************)
EXTENDS UpdateManager

CONSTANTS
    NoSettings,   \* there is no settings file
    TornSettings, \* a file that json.Unmarshal rejects
    MaxSets,      \* bound: how often SetUpdateSettings is called
    SavingParts   \* bound: the parts in which the store saves

Settings == [pre : BOOLEAN, patches : BOOLEAN]

ASSUME SettingsAssumption ==
    /\ MaxSets \in Nat
    /\ NoSettings \notin Settings /\ TornSettings \notin Settings
    /\ NoSettings # TornSettings

VARIABLES
    part,
    file,     \* update-settings.json
    setting,  \* what a SetUpdateSettings under way is about to write, or NoSettings
    sets,     \* how often SetUpdateSettings was called
    settled,  \* history: the settings in force, or NoSettings after a write that did
              \* not end well
    asked,    \* history: the settings that were ever sent
    loaded,   \* loaded[c]: the settings the check of c uses
    allowed,  \* history: allowed[c]: the settings it may use
    shown     \* the last answer of GetUpdateSettings, and what was settled then

svars == <<part, file, setting, sets, settled, asked, loaded, allowed, shown>>
vars == <<uvars, svars>>

DefaultSettings == [pre |-> FALSE, patches |-> TRUE]
ZeroSettings == [pre |-> FALSE, patches |-> FALSE]

Init ==
    /\ UpdateInit
    /\ part \in {"install", "settings"}
    /\ file = NoSettings
    /\ setting = NoSettings
    /\ sets = 0
    /\ settled = DefaultSettings
    /\ asked = {}
    /\ loaded = [c \in Checkers |-> DefaultSettings]
    /\ allowed = [c \in Checkers |-> {}]
    /\ shown = [answer |-> DefaultSettings, settled |-> DefaultSettings]
--------------------------------------------------------------------------------
\* Mutant: a file that cannot be parsed is trusted with everything on.
LoadSettingsTrusting(readable) ==
    IF file = NoSettings THEN DefaultSettings
    ELSE IF file = TornSettings THEN [pre |-> TRUE, patches |-> TRUE]
    ELSE IF readable THEN file ELSE ZeroSettings

\* LoadSettings: without a file, and with one that cannot be parsed, the
\* defaults; with one that cannot be read, Settings{}.  CheckForUpdates drops
\* the error that comes with the last two.
LoadSettings(readable) ==
    IF file = NoSettings THEN DefaultSettings
    ELSE IF ~readable THEN ZeroSettings
    ELSE IF file = TornSettings THEN DefaultSettings ELSE file

\* The settings that a check may use when it begins now.
Allowed ==
    IF settled # NoSettings /\ setting = NoSettings THEN {settled, ZeroSettings}
    ELSE asked \union {DefaultSettings, ZeroSettings}

\* The handler of CheckForUpdates: load the settings, then ask the manager.
CheckLoad(c, readable) ==
    /\ part = "settings"
    /\ CheckBegin(c)
    /\ loaded' = [loaded EXCEPT ![c] = LoadSettings(readable)]
    /\ allowed' = [allowed EXCEPT ![c] = Allowed]
    /\ UNCHANGED <<part, file, setting, sets, settled, asked, shown>>

CheckForUpdates(c) ==
    /\ part = "settings"
    /\ Check(c, loaded[c].pre, loaded[c].patches)
    /\ UNCHANGED svars

\* GetUpdateSettings: here the error of LoadSettings is the answer (NoSettings).
GetUpdateSettings(readable) ==
    /\ part = "settings" /\ up
    /\ shown' = [answer  |-> IF file # NoSettings /\ (~readable \/ file = TornSettings)
                             THEN NoSettings ELSE LoadSettings(readable),
                 settled |-> IF setting = NoSettings THEN settled ELSE NoSettings]
    /\ UNCHANGED <<uvars, part, file, setting, sets, settled, asked, loaded, allowed>>

\* SetUpdateSettings -> SaveSettings -> os.WriteFile: the file is emptied, ...
SaveOpen(s) ==
    /\ part = "settings" /\ up
    /\ setting = NoSettings /\ sets < MaxSets
    /\ sets' = sets + 1
    /\ setting' = s
    /\ file' = TornSettings
    /\ asked' = asked \union {s}
    /\ UNCHANGED <<uvars, part, settled, loaded, allowed, shown>>

\* Mutant: what is written is what was in force.
SaveWriteStale ==
    /\ setting # NoSettings /\ up
    /\ file' = IF settled = NoSettings THEN DefaultSettings ELSE settled
    /\ settled' = setting
    /\ setting' = NoSettings
    /\ UNCHANGED <<uvars, part, sets, asked, loaded, allowed, shown>>

\* ... filled, and the call is answered with the settings, ...
SaveWrite ==
    /\ setting # NoSettings /\ up
    /\ file' = setting
    /\ settled' = setting
    /\ setting' = NoSettings
    /\ UNCHANGED <<uvars, part, sets, asked, loaded, allowed, shown>>

\* ... or the write fails and the call is an error.
SaveFails ==
    /\ setting # NoSettings /\ up
    /\ settled' = NoSettings
    /\ setting' = NoSettings
    /\ UNCHANGED <<uvars, part, file, sets, asked, loaded, allowed, shown>>

\* The daemon is killed, or comes back; a write under way is cut off.
CrashOrRestart ==
    /\ part = "settings"
    /\ Crash \/ Restart
    /\ settled' = IF setting = NoSettings THEN settled ELSE NoSettings
    /\ setting' = NoSettings
    /\ UNCHANGED <<part, file, sets, asked, loaded, allowed, shown>>

\* Bound: in this part the settings include prereleases.
Install ==
    /\ part = "install"
    /\ \/ \E c \in Checkers :
             CheckBegin(c) \/ \E patches \in BOOLEAN : Check(c, TRUE, patches)
       \/ UpdateStep
    /\ UNCHANGED svars

Next ==
    \/ Install
    \/ \E c \in Checkers :
          CheckForUpdates(c) \/ \E readable \in BOOLEAN : CheckLoad(c, readable)
    \/ \E readable \in BOOLEAN : GetUpdateSettings(readable)
    \/ (\E s \in Settings : SaveOpen(s)) \/ SaveWrite \/ SaveFails
    \/ CrashOrRestart
    \/ part = "settings" /\ Publish /\ UNCHANGED svars
    \/ part \in SavingParts /\ StoreSave /\ UNCHANGED svars

Spec == Init /\ [][Next]_vars
--------------------------------------------------------------------------------
\* Types.
TypeOK ==
    /\ UpdateTypeOK
    /\ file \in Settings \union {NoSettings, TornSettings}
    /\ setting \in Settings \union {NoSettings}
    /\ settled \in Settings \union {NoSettings}
    /\ loaded \in [Checkers -> Settings]
    /\ shown.answer \in Settings \union {NoSettings}

\* ApplyUpdate never leaves the user without a version to run: none of its steps
\* that fails, and no kill between two of them.
InstallationSafe == TypeOK /\ IdleIsInstalled /\ FailedApplyRestores /\ SomeVersionSurvives

Patch(r) == isPatchUpdate(Tag[current], Tag[r])

\* "include_prereleases", "include_patches": a release offered by a check is
\* one the settings in force when it began include.  While a write of the
\* settings is under way, failed or was cut off, one that the defaults or
\* settings that were sent include: a prerelease is never offered to a user
\* who did not ask for prereleases.
OfferWanted ==
    [][\A c \in Checkers :
          (/\ part = "settings" /\ up'
           /\ pc[c] = "fetch" /\ pc'[c] = "idle" /\ state' = "available") =>
             \E s \in allowed[c] :
                /\ available' \in Prereleases => s.pre
                /\ Patch(available') => s.patches]_vars

\* GetUpdateSettings shows the settings of the last SetUpdateSettings that was
\* answered, over restarts of the daemon too, unless a later one is under way,
\* failed or was cut off; until the next one is answered it may then be an
\* error, the defaults, or what was sent.
SettingsShown ==
    \/ shown.answer = NoSettings
    \/ shown.answer = shown.settled
    \/ shown.settled = NoSettings /\ shown.answer \in asked \union {DefaultSettings}
================================================================================
