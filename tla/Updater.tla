------------------------------ MODULE Updater ------------------------------
(* The installation of a release on the panel's machine. The panel's update thread
   (app_update.cpp) or the updater a user starts (updater_entry.cpp) saves the manifest
   and starts a runner, a copy of the updater, which downloads the three files, waits
   until the panel has ended, replaces them one by one and, when anything fails, puts
   back what it had saved. It may be killed between any two of these steps.

   A file is the release it belongs to, or absent or damaged. What is downloaded has
   been verified: hashes and signatures are left out. *)
EXTENDS Integers, FiniteSets

CONSTANTS
    Runners,     \* runner processes, each of which may run again and again
    MaxRelease,  \* bound: releases published
    MaxTroubles  \* bound: failed calls and damage from outside; runners are killed at any time

NoRunner == "none"
UpdaterAssumption ==
    MaxRelease \in Nat \ {0} /\ MaxTroubles \in Nat /\ NoRunner \notin Runners

VARIABLES
    latest,     \* the release in latest.json
    installed,  \* the files
    pending,    \* pending-update.json: a release, or Absent
    panel,      \* the panel's process
    launch,     \* who starts runners: the panel's update thread, the standalone updater
    runner,     \* the runners
    installer,  \* who holds kInstallerMutexName
    spoilt,     \* history: files damaged from outside, or by a copy back that was cut short
    troubles

vars == <<latest, installed, pending, panel, launch, runner, installer, spoilt, troubles>>

Executable == "HomePanel.exe"
Files      == {Executable, "HomePanelUpdater.exe", "WebView2Loader.dll"}
Launchers  == {"panel", "standalone"}
Absent     == 0
Damaged    == -1
Intact(v)  == v > 0
NoLaunch   == [at |-> "idle", release |-> 0]
NoFiles    == [f \in Files |-> Absent]
Ended      == [at |-> "idle", file |-> 1, by |-> "panel", release |-> 0, before |-> NoFiles]

\* Mistakes: the executable first, or last when files are put back.
ReplacingExecutableFirst == <<Executable, "HomePanelUpdater.exe", "WebView2Loader.dll">>
RestoringExecutableLast == <<"WebView2Loader.dll", "HomePanelUpdater.exe", Executable>>

\* The order in which files are replaced, and in which they are put back.
Replacing == <<"WebView2Loader.dll", "HomePanelUpdater.exe", Executable>>
Restoring == <<Executable, "HomePanelUpdater.exe", "WebView2Loader.dll">>

Launch == [at: {"idle", "save", "copy", "create"}, release: 0 .. MaxRelease]
Runner == [at: {"idle", "lock", "check", "download", "wait", "backup", "replace", "verify",
                "restore", "done", "failed"},
           file: 1 .. 3, by: Launchers, release: 0 .. MaxRelease,
           before: [Files -> -1 .. MaxRelease]]

TypeOK ==
    /\ latest \in 1 .. MaxRelease
    /\ installed \in [Files -> -1 .. MaxRelease] /\ pending \in 0 .. MaxRelease
    /\ panel \in {"running", "closing", "stopped"}
    /\ launch \in [Launchers -> Launch] /\ runner \in [Runners -> Runner]
    /\ installer \in Runners \cup {NoRunner}
    /\ spoilt \subseteq Files /\ troubles \in 0 .. MaxTroubles

Init ==
    /\ latest = 1 /\ installed = [f \in Files |-> 1] /\ pending = Absent
    /\ panel = "running"
    /\ launch = [l \in Launchers |-> NoLaunch]
    /\ runner = [r \in Runners |-> Ended]
    /\ installer = NoRunner /\ spoilt = {} /\ troubles = 0

Trouble == troubles < MaxTroubles /\ troubles' = troubles + 1

-----------------------------------------------------------------------------
(* Around the updater. *)

Publish ==
    /\ latest < MaxRelease /\ latest' = latest + 1
    /\ UNCHANGED <<installed, pending, panel, launch, runner, installer, spoilt, troubles>>

\* A file is damaged or removed by something else.
Spoil(f) ==
    /\ Trouble
    /\ \E v \in {Absent, Damaged} : installed' = [installed EXCEPT ![f] = v]
    /\ spoilt' = spoilt \cup {f}
    /\ UNCHANGED <<latest, pending, panel, launch, runner, installer>>

\* Someone starts the panel; a second instance would end at once (App::Run).
StartPanel ==
    /\ panel = "stopped" /\ Intact(installed[Executable])
    /\ panel' = "running"
    /\ UNCHANGED <<latest, installed, pending, launch, runner, installer, spoilt, troubles>>

\* StopServices waits for the update thread.
PanelEnds ==
    /\ panel = "closing" /\ launch["panel"].at = "idle"
    /\ panel' = "stopped"
    /\ UNCHANGED <<latest, installed, pending, launch, runner, installer, spoilt, troubles>>

-----------------------------------------------------------------------------
(* Starting a runner. *)

To(l, at) == launch' = [launch EXCEPT ![l].at = at]

\* CheckForUpdateAsync: only a newer release. A version that cannot be read is taken
\* from the running program.
CheckForUpdate ==
    /\ panel = "running" /\ launch["panel"].at = "idle"
    /\ Intact(installed[Executable]) => latest > installed[Executable]
    /\ launch' = [launch EXCEPT !["panel"] = [at |-> "save", release |-> latest]]
    /\ UNCHANGED <<latest, installed, pending, panel, runner, installer, spoilt, troubles>>

\* HardenedRunStandalone: also the release that is installed, to repair it.
RunStandalone ==
    /\ launch["standalone"].at = "idle"
    /\ Intact(installed[Executable]) /\ latest >= installed[Executable]
    /\ launch' = [launch EXCEPT !["standalone"] = [at |-> "save", release |-> latest]]
    /\ UNCHANGED <<latest, installed, pending, panel, runner, installer, spoilt, troubles>>

\* The manifest is saved; the standalone updater then asks the panel to close.
SaveManifest(l) ==
    /\ launch[l].at = "save"
    /\ pending' = launch[l].release
    /\ panel' = IF l = "standalone" /\ panel = "running" THEN "closing" ELSE panel
    /\ To(l, "copy")
    /\ UNCHANGED <<latest, installed, runner, installer, spoilt, troubles>>

\* A runner that runs keeps its file from being replaced.
CopyRunner(l) ==
    /\ launch[l].at = "copy"
    /\ IF installed["HomePanelUpdater.exe"] # Absent /\ \A r \in Runners : runner[r].at = "idle"
       THEN To(l, "create") ELSE To(l, "idle")
    /\ UNCHANGED <<latest, installed, pending, panel, runner, installer, spoilt, troubles>>

\* The copy of a damaged updater does not start. The panel closes once the runner does.
CreateRunner(l, r) ==
    /\ launch[l].at = "create" /\ runner[r].at = "idle"
    /\ launch' = [launch EXCEPT ![l] = NoLaunch]
    /\ IF Intact(installed["HomePanelUpdater.exe"])
       THEN /\ runner' = [runner EXCEPT ![r] = [Ended EXCEPT !.at = "lock", !.by = l,
                                                            !.release = launch[l].release]]
            /\ panel' = IF l = "panel" /\ panel = "running" THEN "closing" ELSE panel
       ELSE UNCHANGED <<runner, panel>>
    /\ UNCHANGED <<latest, installed, pending, installer, spoilt, troubles>>

LaunchFails(l) ==
    /\ launch[l].at # "idle" /\ Trouble
    /\ launch' = [launch EXCEPT ![l] = NoLaunch]
    /\ UNCHANGED <<latest, installed, pending, panel, runner, installer, spoilt>>

-----------------------------------------------------------------------------
(* HardenedInstallPendingUpdate. *)

At(r, at) == runner[r].at = at
GoOn(r, at) == runner' = [runner EXCEPT ![r].at = at, ![r].file = 1]

\* On to the next of the three files, or past them.
NextFile(r, past) ==
    IF runner[r].file = 3 THEN GoOn(r, past) ELSE runner' = [runner EXCEPT ![r].file = @ + 1]

\* A second runner ends without a word.
Lock(r) ==
    /\ At(r, "lock")
    /\ IF installer = NoRunner THEN installer' = r /\ GoOn(r, "check")
       ELSE runner' = [runner EXCEPT ![r] = Ended] /\ UNCHANGED installer
    /\ UNCHANGED <<latest, installed, pending, panel, launch, spoilt, troubles>>

Whole(v) == \A f \in Files : installed[f] = v

\* The manifest is still the one the runner was started for, and no downgrade.
Installable(r) ==
    /\ pending = runner[r].release
    /\ Intact(installed[Executable]) => installed[Executable] <= runner[r].release

\* A release that is installed already is verified and, when that fails, repaired.
CheckManifest(r) ==
    /\ At(r, "check")
    /\ \/ /\ ~Installable(r) /\ GoOn(r, "failed") /\ UNCHANGED troubles
       \/ /\ Installable(r) /\ Whole(runner[r].release)
          /\ GoOn(r, "done") /\ UNCHANGED troubles
       \/ /\ Installable(r) /\ ~Whole(runner[r].release)
          /\ GoOn(r, "download") /\ UNCHANGED troubles
       \/ /\ Installable(r) /\ Whole(runner[r].release)  \* a file could not be read
          /\ GoOn(r, "download") /\ Trouble
    /\ UNCHANGED <<latest, installed, pending, panel, launch, installer, spoilt>>

Download(r) ==
    /\ At(r, "download") /\ GoOn(r, "wait")
    /\ UNCHANGED <<latest, installed, pending, panel, launch, installer, spoilt, troubles>>

\* WaitForExit and EnsureHomePanelStopped: the launcher has ended, and so has the panel
\* that was told to, or is terminated. A panel that runs is one started since.
PanelStopped(r) ==
    /\ At(r, "wait") /\ launch[runner[r].by].at = "idle"
    /\ \/ panel # "closing" /\ UNCHANGED <<panel, launch>>
       \/ /\ panel = "closing" /\ runner[r].by = "standalone"
          /\ panel' = "stopped" /\ launch' = [launch EXCEPT !["panel"] = NoLaunch]
    /\ GoOn(r, "backup")
    /\ UNCHANGED <<latest, installed, pending, installer, spoilt, troubles>>

\* The backup holds the files that were there.
Backup(r) ==
    /\ At(r, "backup")
    /\ runner' = [runner EXCEPT ![r].at = "replace", ![r].before = installed]
    /\ UNCHANGED <<latest, installed, pending, panel, launch, installer, spoilt, troubles>>

ReplaceOne(r) ==
    /\ At(r, "replace")
    /\ \/ /\ installed' = [installed EXCEPT ![Replacing[runner[r].file]] = runner[r].release]
          /\ NextFile(r, "verify") /\ UNCHANGED troubles
       \/ /\ GoOn(r, "restore") /\ Trouble
          /\ UNCHANGED installed
    /\ UNCHANGED <<latest, pending, panel, launch, installer, spoilt>>

VerifyInstalledFiles(r) ==
    /\ At(r, "verify")
    /\ \/ Whole(runner[r].release) /\ GoOn(r, "done") /\ UNCHANGED troubles
       \/ ~Whole(runner[r].release) /\ GoOn(r, "restore") /\ UNCHANGED troubles
       \/ GoOn(r, "restore") /\ Trouble
    /\ UNCHANGED <<latest, installed, pending, panel, launch, installer, spoilt>>

\* Copying back is no replacement: cut short it leaves a damaged file.
CutShort(f) ==
    /\ installed' = [installed EXCEPT ![f] = Damaged]
    /\ spoilt' = spoilt \cup {f}

RestoreBackup(r) == LET f == Restoring[runner[r].file] IN
    /\ At(r, "restore")
    /\ \/ /\ installed' = [installed EXCEPT ![f] = runner[r].before[f]]
          /\ NextFile(r, "failed") /\ UNCHANGED <<spoilt, troubles>>
       \/ /\ CutShort(f) \/ UNCHANGED <<installed, spoilt>>
          /\ GoOn(r, "failed") /\ Trouble
    /\ UNCHANGED <<latest, pending, panel, launch, installer>>

\* The mutex goes with the process.
Released(r) == IF installer = r THEN NoRunner ELSE installer

\* The panel is restarted either way; its second instance ends at once.
Finish(r) ==
    /\ At(r, "done") \/ At(r, "failed")
    /\ pending' \in (IF At(r, "done") THEN {Absent, pending} ELSE {pending})
    /\ panel' = IF panel = "stopped" /\ Intact(installed[Executable]) THEN "running" ELSE panel
    /\ runner' = [runner EXCEPT ![r] = Ended] /\ installer' = Released(r)
    /\ UNCHANGED <<latest, installed, launch, spoilt, troubles>>

\* An error before the first file is replaced: nothing to put back.
InstallFails(r) ==
    /\ runner[r].at \in {"check", "download", "wait", "backup"} /\ Trouble
    /\ GoOn(r, "failed")
    /\ UNCHANGED <<latest, installed, pending, panel, launch, installer, spoilt>>

\* The process is killed, or the machine loses power.
KillRunner(r) ==
    /\ ~At(r, "idle")
    /\ \/ UNCHANGED <<installed, spoilt>>
       \/ At(r, "restore") /\ CutShort(Restoring[runner[r].file])
    /\ runner' = [runner EXCEPT ![r] = Ended] /\ installer' = Released(r)
    /\ UNCHANGED <<latest, pending, panel, launch, troubles>>

-----------------------------------------------------------------------------
Next ==
    \/ Publish \/ StartPanel \/ PanelEnds \/ CheckForUpdate \/ RunStandalone
    \/ \E f \in Files : Spoil(f)
    \/ \E l \in Launchers :
          \/ SaveManifest(l) \/ CopyRunner(l) \/ LaunchFails(l)
          \/ \E r \in Runners : CreateRunner(l, r)
    \/ \E r \in Runners :
          \/ Lock(r) \/ CheckManifest(r) \/ Download(r) \/ PanelStopped(r) \/ Backup(r)
          \/ ReplaceOne(r) \/ VerifyInstalledFiles(r) \/ RestoreBackup(r) \/ Finish(r)
          \/ InstallFails(r) \/ KillRunner(r)

Spec == Init /\ [][Next]_vars

-----------------------------------------------------------------------------
\* The executable says which release is installed and whether there is anything to do.
\* Wherever runners are killed or fail, an executable of the newest release is never
\* beside files of another: an update that stopped half way is taken up again.
NewestIsWhole ==
    installed[Executable] = latest =>
        \A f \in Files : installed[f] = latest \/ f \in spoilt

\* An installation that fails, and whose last copy back succeeds, has changed nothing.
FailedStepUndoes == \A r \in Runners :
    At(r, "restore") /\ At(r, "failed")' /\ troubles' = troubles =>
        \A f \in Files : installed'[f] = runner[r].before[f] \/ f \in spoilt'
=============================================================================
