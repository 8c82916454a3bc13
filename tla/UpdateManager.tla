----------------------------- MODULE UpdateManager -----------------------------
(***************************************************************************)
(* update.Manager (skeys-core/update/manager.go) and its gRPC adapter:     *)
(* the daemon checks for a release, downloads its tarball into the cache   *)
(* and replaces the installation directory by it.  Nothing serialises the  *)
(* three calls; m.mu only guards the status.  The installation directory,  *)
(* ~/.local/share/skeys, is also where the metadata store keeps its file,  *)
(* so the model has the store's saves as well.                             *)
(*                                                                         *)
(* A directory is the version it holds, whether all of it was extracted,   *)
(* whether the tarball matched its checksum, and the last save of the      *)
(* store in it (0: no metadata.json).                                      *)
(***************************************************************************)
EXTENDS VersionCheck

CONSTANTS
    Clients,      \* callers of DownloadUpdate and ApplyUpdate, each one call at a time
    Checkers,     \* callers of CheckForUpdates
    NoDir,        \* the directory does not exist
    Faults,       \* bound: how many steps of one ApplyUpdate fail
    MaxVersion,   \* bound: the newest release that is ever published
    Tag,          \* Tag[v]: the version that release v is tagged with
    Prereleases,  \* the releases that GitHub marks as prereleases
    MaxSaves      \* bound: how often the store is saved

Releases == 1..MaxVersion

Dir == [version : 0..MaxVersion, whole : BOOLEAN, sound : BOOLEAN, meta : 0..MaxSaves]

ASSUME UpdateAssumption ==
    /\ Faults \in Nat
    /\ MaxVersion \in Nat \ {0}
    /\ Tag \in [Releases -> Versions]
    /\ Prereleases \subseteq Releases /\ 1 \notin Prereleases
    /\ MaxSaves \in Nat
    /\ NoDir \notin Dir

VARIABLES
    up,         \* the daemon is running
    current,    \* m.currentVersion
    latest,     \* the newest release on GitHub
    state,      \* m.status.State
    available,  \* m.status.AvailableUpdate (0: nil)
    progress,   \* m.status.DownloadProgress: it belongs to the download that set it
    tar,        \* tar[v]: the tarball of release v in the cache
    opener,     \* opener[v]: who created that file last
    install,    \* m.installDir
    backup,     \* m.installDir + ".backup"
    pc,         \* pc[c]: where the call of c is
    rel,        \* rel[c]: the release it is about; between calls, what c downloaded
    before,     \* before[c]: m.installDir when ApplyUpdate began
    left,       \* left[c]: how many of its steps may still fail
    reply,      \* reply[c]: how the last ApplyUpdate of c ended
    saves,      \* saves of the store, the last one in memory
    acked,      \* the last save that was acknowledged
    skipped,    \* the releases downloaded without their checksum
    cut         \* whether a kill cut off an ApplyUpdate, and another began over it

uvars == <<up, current, latest, state, available, progress, tar, opener, install, backup,
           pc, rel, before, left, reply, saves, acked, skipped, cut>>

dirs == <<install, backup>>
cache == <<tar, opener>>
client == <<rel, before, left, reply>>
store == <<saves, acked>>
ghost == <<skipped, cut>>
world == <<up, current, latest>>

States == {"idle", "checking", "available", "downloading", "ready", "applying", "error"}
DownloadStates == {"downloading", "verifying", "completed"}

\* path is the release whose tarball DownloadedPath names, 0 for none.  Starting
\* and failed downloads leave no progress of their own in the status.
Progress(c, s, path) == [by |-> {c}, state |-> s, path |-> path]
NoProgress == [by |-> {}, state |-> "none", path |-> 0]

\* What os.MkdirAll leaves where nothing was.
EmptyDir == [version |-> 0, whole |-> FALSE, sound |-> TRUE, meta |-> 0]

\* install.sh, NewManager and NewStore.
UpdateInit ==
    /\ up = TRUE
    /\ current = 1
    /\ latest = 1
    /\ state = "idle"
    /\ available = 0
    /\ progress = NoProgress
    /\ tar = [v \in Releases |-> "none"]
    /\ opener \in [Releases -> Clients]
    /\ install = [version |-> 1, whole |-> TRUE, sound |-> TRUE, meta |-> 0]
    /\ backup = NoDir
    /\ pc = [c \in Clients \union Checkers |-> "idle"]
    /\ rel = [c \in Clients |-> 0]
    /\ before = [c \in Clients |-> NoDir]
    /\ left = [c \in Clients |-> 0]
    /\ reply = [c \in Clients |-> "none"]
    /\ saves = 0
    /\ acked = 0
    /\ skipped = {}
    /\ cut = "no"

ApplySteps == {"clean", "stash", "mkdir", "open", "extract", "remove", "restore"}

\* No ApplyUpdate is under way.
Quiet == up /\ \A c \in Clients : pc[c] \notin ApplySteps

At(c, from, to) ==
    /\ up
    /\ pc[c] = from
    /\ pc' = [pc EXCEPT ![c] = to]

--------------------------------------------------------------------------------
\* CheckForUpdates up to the request to GitHub.
CheckBegin(c) ==
    /\ At(c, "idle", "fetch")
    /\ state' = "checking"
    /\ UNCHANGED <<world, available, progress, cache, dirs, client, store, ghost>>

\* The request fails.
CheckFails(c) ==
    /\ At(c, "fetch", "idle")
    /\ state' = "error"
    /\ UNCHANGED <<world, available, progress, cache, dirs, client, store, ghost>>

\* fetchLatestRelease: GitHub's releases/latest leaves prereleases out.
Fetched(pre) ==
    CHOOSE r \in 1..latest :
       /\ pre \/ r \notin Prereleases
       /\ \A q \in r+1..latest : ~pre /\ q \in Prereleases

\* That release is newer, and the settings include it.
Offered(pre, patches) ==
    /\ isNewerVersion(Tag[Fetched(pre)], Tag[current])
    /\ patches \/ ~isPatchUpdate(Tag[current], Tag[Fetched(pre)])

\* An update found earlier stays available.
CheckNothing(c, pre, patches) ==
    /\ At(c, "fetch", "idle")
    /\ ~Offered(pre, patches)
    /\ state' = "idle"
    /\ UNCHANGED <<world, available, progress, cache, dirs, client, store, ghost>>

CheckFound(c, pre, patches) ==
    /\ At(c, "fetch", "idle")
    /\ Offered(pre, patches)
    /\ state' = "available"
    /\ available' = Fetched(pre)
    /\ UNCHANGED <<world, progress, cache, dirs, client, store, ghost>>

--------------------------------------------------------------------------------
\* DownloadUpdate, of the release that was found last.
DownloadBegin(c) ==
    /\ available # 0
    /\ At(c, "idle", "create")
    /\ state' = "downloading"
    /\ rel' = [rel EXCEPT ![c] = available]
    /\ UNCHANGED <<world, available, progress, cache, dirs, before, left, reply, store, ghost>>

\* Any step of a download fails: no such asset, no network, a full disk.  Its
\* progress has replaced the last one if bytes had come.
DownloadFails(c) ==
    /\ \/ At(c, "create", "idle") /\ UNCHANGED progress
       \/ At(c, "body", "idle") /\ progress' \in {progress, Progress(c, "downloading", 0)}
    /\ state' = "error"
    /\ rel' = [rel EXCEPT ![c] = 0]
    /\ UNCHANGED <<world, available, cache, dirs, before, left, reply, store, ghost>>

\* os.Create empties the file, also under another download of the release.
DownloadCreate(c) ==
    /\ At(c, "create", "body")
    /\ tar' = [tar EXCEPT ![rel[c]] = "part"]
    /\ opener' = [opener EXCEPT ![rel[c]] = c]
    /\ UNCHANGED <<world, state, available, progress, dirs, client, store, ghost>>

\* The last byte is written.  The file is whole unless it was emptied or
\* removed since; what came over the network may be damaged.
DownloadBody(c) ==
    /\ At(c, "body", "checksum")
    /\ \E got \in {"good", "bad"} :
          tar' = IF opener[rel[c]] = c /\ tar[rel[c]] # "none"
                 THEN [tar EXCEPT ![rel[c]] = got] ELSE tar
    /\ progress' = Progress(c, "downloading", 0)
    /\ UNCHANGED <<world, state, available, opener, dirs, client, store, ghost>>

\* verifyChecksum
Verify(c) == tar[rel[c]] = "good"

\* Mutant: the error of the verification does not end the download.
DownloadRejectedGoesOn(c) ==
    /\ At(c, "checksum", "idle")
    /\ ~Verify(c)
    /\ tar' = [tar EXCEPT ![rel[c]] = "none"]
    /\ state' = "ready"
    /\ progress' = Progress(c, "completed", rel[c])
    /\ UNCHANGED <<world, available, opener, dirs, client, store, ghost>>

\* "checksum verification failed": both files are removed.  The status shows
\* the progress of the download itself, unless another one has replaced it.
DownloadRejected(c) ==
    /\ At(c, "checksum", "idle")
    /\ ~Verify(c)
    /\ progress' = IF progress.by = {c} THEN [progress EXCEPT !.state = "verifying"] ELSE progress
    /\ tar' = [tar EXCEPT ![rel[c]] = "none"]
    /\ state' = "error"
    /\ rel' = [rel EXCEPT ![c] = 0]
    /\ UNCHANGED <<world, available, opener, dirs, before, left, reply, store, ghost>>

\* The checksum matches, or the checksum file is not available.
DownloadDone(c) ==
    /\ At(c, "checksum", "idle")
    /\ \/ Verify(c) /\ UNCHANGED skipped
       \/ skipped' = skipped \union {rel[c]}
    /\ state' = "ready"
    /\ progress' = Progress(c, "completed", rel[c])
    /\ UNCHANGED <<world, available, cache, dirs, client, store, cut>>

--------------------------------------------------------------------------------
\* A step of ApplyUpdate of c may fail.
Spend(c) == left' = [left EXCEPT ![c] = IF @ > 0 THEN @ - 1 ELSE 0]
Fault(c) == left[c] > 0 /\ Spend(c)

Return(c, how) ==
    /\ reply' = [reply EXCEPT ![c] = how]
    /\ state' = IF how = "ok" THEN "idle" ELSE "error"

\* ApplyUpdate of the tarball whose path the download gave.
ApplyBegin(c) ==
    /\ rel[c] # 0
    /\ At(c, "idle", "clean")
    /\ state' = "applying"
    /\ before' = [before EXCEPT ![c] = install]
    /\ left' = [left EXCEPT ![c] = Faults]
    /\ reply' = [reply EXCEPT ![c] = "none"]
    /\ cut' = IF cut = "yes" THEN "over" ELSE cut
    /\ UNCHANGED <<world, available, progress, cache, dirs, rel, store, skipped>>

\* os.RemoveAll of the old backup; a failure is logged, and leaves a part of it.
ApplyClean(c) ==
    /\ At(c, "clean", "stash")
    /\ \/ backup' = NoDir /\ UNCHANGED left
       \/ Fault(c) /\ backup # NoDir /\ backup' = [backup EXCEPT !.whole = FALSE]
    /\ UNCHANGED <<world, state, available, progress, cache, install, rel, before, reply, store, ghost>>

\* os.Rename of the installation to the backup, whose place must be free.
ApplyStash(c) ==
    /\ At(c, "stash", "mkdir")
    /\ install = NoDir \/ backup = NoDir
    /\ IF install = NoDir THEN UNCHANGED dirs ELSE backup' = install /\ install' = NoDir
    /\ UNCHANGED <<world, state, available, progress, cache, client, store, ghost>>

\* "failed to create backup"
ApplyStashFails(c) ==
    /\ At(c, "stash", "idle")
    /\ install # NoDir
    /\ \/ backup # NoDir /\ UNCHANGED left
       \/ backup = NoDir /\ Fault(c)
    /\ Return(c, "error")
    /\ UNCHANGED <<world, available, progress, cache, dirs, rel, before, store, ghost>>

\* os.MkdirAll of the installation directory.
ApplyMkdir(c) ==
    /\ At(c, "mkdir", "open")
    /\ install' = IF install = NoDir THEN EmptyDir ELSE install
    /\ UNCHANGED <<world, state, available, progress, cache, backup, client, store, ghost>>

\* Mutant: the backup is not renamed back.
ApplyMkdirFailsReturns(c) ==
    /\ At(c, "mkdir", "idle")
    /\ install = NoDir
    /\ Fault(c)
    /\ Return(c, "error")
    /\ UNCHANGED <<world, available, progress, cache, dirs, rel, before, store, ghost>>

\* "failed to create install directory"
ApplyMkdirFails(c) ==
    /\ At(c, "mkdir", "restore")
    /\ install = NoDir
    /\ Fault(c)
    /\ UNCHANGED <<world, state, available, progress, cache, dirs, rel, before, reply, store, ghost>>

\* extractTarball: the first files are written ...
ApplyExtract(c) ==
    /\ At(c, "open", "extract")
    /\ tar[rel[c]] # "none"
    /\ install # NoDir
    /\ install' = [install EXCEPT !.version = rel[c], !.whole = FALSE,
                                  !.sound = (tar[rel[c]] = "good")]
    /\ UNCHANGED <<world, state, available, progress, cache, backup, client, store, ghost>>

\* ... and the last.  The state is idle again before the tarball is removed.
ApplyDone(c) ==
    /\ At(c, "extract", "idle")
    /\ tar[rel[c]] # "part"
    /\ install # NoDir
    /\ install' = [install EXCEPT !.whole = TRUE]
    /\ tar' = [tar EXCEPT ![rel[c]] = "none"]
    /\ Return(c, "ok")
    /\ UNCHANGED <<world, available, progress, opener, backup, rel, before, left, store, ghost>>

\* "failed to extract update": no tarball, one that is not what was released,
\* or a failed write.
ApplyExtractFails(c) ==
    /\ \E at \in {"open", "extract"} : At(c, at, "remove")
    /\ left[c] > 0 \/ tar[rel[c]] # "good"
    /\ Spend(c)
    /\ UNCHANGED <<world, state, available, progress, cache, dirs, rel, before, reply, store, ghost>>

\* os.RemoveAll of what was extracted; an error is ignored.
ApplyRemove(c) ==
    /\ At(c, "remove", "restore")
    /\ \/ install' = NoDir /\ UNCHANGED left
       \/ Fault(c) /\ UNCHANGED install
    /\ UNCHANGED <<world, state, available, progress, cache, backup, rel, before, reply, store, ghost>>

\* os.Rename of the backup to the installation; an error is ignored.
ApplyRestore(c) ==
    /\ At(c, "restore", "idle")
    /\ \/ install = NoDir /\ install' = backup /\ backup' = NoDir /\ UNCHANGED left
       \/ install # NoDir /\ UNCHANGED <<dirs, left>>
       \/ Fault(c) /\ UNCHANGED dirs
    /\ Return(c, "error")
    /\ UNCHANGED <<world, available, progress, cache, rel, before, store, ghost>>

--------------------------------------------------------------------------------
\* A new release on GitHub.
Publish ==
    /\ latest < MaxVersion
    /\ latest' = latest + 1
    /\ UNCHANGED <<up, current, state, available, progress, cache, dirs, pc, client, store, ghost>>

\* The store saves metadata.json (Store): it does so only if the directory is there.
StoreSave ==
    /\ up
    /\ saves < MaxSaves
    /\ saves' = saves + 1
    /\ IF install = NoDir
       THEN UNCHANGED <<install, acked>>
       ELSE install' = [install EXCEPT !.meta = saves + 1] /\ acked' = saves + 1
    /\ UNCHANGED <<world, state, available, progress, cache, backup, pc, client, ghost>>

\* The daemon is killed; the calls end without an answer, a download without a path.
Crash ==
    /\ up
    /\ up' = FALSE
    /\ cut' = IF cut = "no" /\ ~Quiet THEN "yes" ELSE cut
    /\ rel' = [c \in Clients |-> IF pc[c] \in {"create", "body", "checksum"} THEN 0 ELSE rel[c]]
    /\ pc' = [c \in Clients \union Checkers |-> "idle"]
    /\ UNCHANGED <<current, latest, state, available, progress, cache, dirs,
                   before, left, reply, store, skipped>>

\* systemd starts the daemon that is installed.
Restart ==
    /\ ~up
    /\ install # NoDir /\ install.version # 0
    /\ up' = TRUE
    /\ current' = install.version
    /\ state' = "idle"
    /\ available' = 0
    /\ progress' = NoProgress
    /\ UNCHANGED <<latest, cache, dirs, pc, client, store, ghost>>

\* CheckForUpdates for a caller whose settings say pre and patches.
Check(c, pre, patches) ==
    CheckFails(c) \/ CheckNothing(c, pre, patches) \/ CheckFound(c, pre, patches)

Download(c) ==
    \/ DownloadBegin(c) \/ DownloadFails(c) \/ DownloadCreate(c) \/ DownloadBody(c)
    \/ DownloadRejected(c) \/ DownloadDone(c)

Apply(c) ==
    \/ ApplyBegin(c) \/ ApplyClean(c) \/ ApplyStash(c) \/ ApplyStashFails(c)
    \/ ApplyMkdir(c) \/ ApplyMkdirFails(c) \/ ApplyExtract(c) \/ ApplyDone(c)
    \/ ApplyExtractFails(c) \/ ApplyRemove(c) \/ ApplyRestore(c)

\* Everything but the checks and the store.
UpdateStep ==
    \/ \E c \in Clients : Download(c) \/ Apply(c)
    \/ Publish
    \/ Crash
    \/ Restart

UpdateNext ==
    \/ \E c \in Checkers :
          CheckBegin(c) \/ \E pre, patches \in BOOLEAN : Check(c, pre, patches)
    \/ UpdateStep
    \/ StoreSave

UpdateSpec == UpdateInit /\ [][UpdateNext]_uvars

--------------------------------------------------------------------------------
\* convertUpdateState
ConvertUpdateState(s) ==
    [idle |-> "IDLE", checking |-> "CHECKING", available |-> "UPDATE_AVAILABLE",
     downloading |-> "DOWNLOADING", ready |-> "READY_TO_APPLY", applying |-> "APPLYING",
     error |-> "ERROR"][s]

\* convertDownloadState
ConvertDownloadState(s) ==
    [downloading |-> "DOWNLOADING", verifying |-> "VERIFYING", completed |-> "COMPLETED"][s]

\* The DownloadProgress message, in the stream of DownloadUpdate and in the status.
ToProtoProgress(p) ==
    IF p = NoProgress THEN {} ELSE {[state |-> ConvertDownloadState(p.state), downloadedPath |-> p.path]}

\* GetUpdateStatus, of this moment.  An absent message is an empty set.
GetUpdateStatus ==
    [state |-> ConvertUpdateState(state),
     availableUpdate |-> {Tag[r] : r \in {available} \ {0}},
     downloadProgress |-> ToProtoProgress(progress)]

\* Types; in the state StateUpdateAvailable there is an update, which the
\* adapter's CheckForUpdates dereferences.
UpdateTypeOK ==
    /\ up \in BOOLEAN
    /\ current \in Releases
    /\ latest \in Releases
    /\ state \in States
    /\ available \in 0..MaxVersion
    /\ progress \in [by : {{c} : c \in Clients}, state : DownloadStates, path : 0..MaxVersion] \union {NoProgress}
    /\ tar \in [Releases -> {"none", "part", "good", "bad"}]
    /\ opener \in [Releases -> Clients]
    /\ install \in Dir \union {NoDir}
    /\ backup \in Dir \union {NoDir}
    /\ pc \in [Clients \union Checkers ->
              {"idle", "fetch", "create", "body", "checksum"} \union ApplySteps]
    /\ rel \in [Clients -> 0..MaxVersion]
    /\ before \in [Clients -> Dir \union {NoDir}]
    /\ left \in [Clients -> 0..Faults]
    /\ reply \in [Clients -> {"none", "ok", "error"}]
    /\ saves \in 0..MaxSaves
    /\ acked \in 0..MaxSaves
    /\ skipped \subseteq Releases
    /\ cut \in {"no", "yes", "over"}
    /\ state = "available" => available # 0

Whole(dir) == dir # NoDir /\ dir.whole

\* Whatever step of ApplyUpdate fails, a daemon that is not applying an update
\* has a whole installation behind it, unless a kill cut an update off.
IdleIsInstalled == (Quiet /\ cut = "no") => Whole(install)

\* "If an update fails, the previous version is automatically restored": an
\* ApplyUpdate that was answered with an error left the version it found.
FailedApplyRestores ==
    \A c \in Clients :
       reply[c] = "error" => /\ install # NoDir
                             /\ before[c] # NoDir
                             /\ install.version = before[c].version

\* Whenever ApplyUpdate fails or is cut off, one whole installation is on the
\* disk, in its place or as the backup; it is lost only when another update is
\* applied over one that was cut off.
SomeVersionSurvives == cut # "over" => Whole(install) \/ Whole(backup)

\* "Verify the download checksum": what is installed passed the verification,
\* unless the checksum file was not available when it was downloaded.
InstalledVerified == Whole(install) => install.sound \/ install.version \in skipped

\* "Downloaded update is ready to apply": a client that is told so by
\* GetUpdateStatus also finds a completed download there, and at the path it
\* names a whole tarball; and one that is told of an update finds which.
ReadyIsComplete ==
    LET s == GetUpdateStatus IN
    /\ s.state = "READY_TO_APPLY" =>
          \E p \in s.downloadProgress :
             p.state = "COMPLETED" /\ p.downloadedPath # 0 /\ tar[p.downloadedPath] \in {"good", "bad"}
    /\ s.state \in {"UPDATE_AVAILABLE", "DOWNLOADING", "READY_TO_APPLY"} => s.availableUpdate # {}

\* What comes from the network: only a verified tarball is installed, and only
\* a whole one is announced.
DownloadSafe == InstalledVerified /\ ReadyIsComplete

\* "compares semantic versions, returns true if a > b": of two versions that
\* numbers tell apart, the daemon's and a release's, isNewerVersion finds the
\* higher; and of no two versions is each an update of the other.  It does not
\* say that a prerelease comes before its release, nor that a higher build number
\* comes after a lower one: in the code they do not.  A fact about all pairs of
\* versions: one evaluation, where the daemon starts.
NewerIsHigher == UpdateInit => OrderAgrees /\ NewerOneWay

\* Without patch releases a release of three or more parts, with a label or a
\* build number or without, is offered exactly when its major or minor version
\* is higher (isPatchUpdate after isNewerVersion).
PatchesExcluded == UpdateInit => PatchRuleAgrees

\* The comparison of versions that decides what is offered: right where numbers
\* decide, never both ways, and right about what is more than a patch.
VersionsOrdered == NewerIsHigher /\ PatchesExcluded

\* "provides persistent storage": after an update the saved remotes and key
\* metadata are still where the next daemon will read them.
DataKept == Quiet => install # NoDir /\ install.meta = acked

================================================================================
