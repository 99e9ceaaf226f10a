------------------------------ MODULE Updates ------------------------------
(***************************************************************************)
(* The desktop app's updates: the daily and the manual check, the offer    *)
(* they leave behind, the download and the install.  The phase the window  *)
(* shows, the update waiting to be installed and the tray's entry are      *)
(* guarded by a mutex each; a check and an install run as tasks beside one *)
(* another.                                                                *)
(***************************************************************************)
EXTENDS Naturals

CONSTANTS Versions, MaxUpdateRuns, NoVersion

ASSUME UpdatesAssumption == MaxUpdateRuns \in Nat /\ NoVersion \notin Versions

VARIABLES phase, beforeCheck,   \* Machine
          offer,                \* Updates::pending
          trayShows,            \* the tray's entry for an update
          autoCheck,            \* the setting: in memory and in updates.json
          checkTask, installTask,
          runs                  \* checks and installs started so far

updateVars == <<phase, beforeCheck, offer, trayShows, autoCheck, checkTask, installTask, runs>>

Phase(at, v) == [at |-> at, version |-> v]
IdlePhase == Phase("idle", NoVersion)
NoTask == [at |-> "none"]

UpdatesInit ==
    /\ phase = IdlePhase /\ beforeCheck = IdlePhase
    /\ offer = NoVersion
    /\ trayShows = FALSE
    /\ autoCheck \in [memory : BOOLEAN, file : BOOLEAN] /\ autoCheck.memory = autoCheck.file
    /\ checkTask = NoTask /\ installTask = NoTask
    /\ runs = 0

MayRun == runs < MaxUpdateRuns /\ runs' = runs + 1

Offers(p) == p.at = "available"

-----------------------------------------------------------------------------
\* begin_check refuses while a check or an install runs.
MayCheck == phase.at \notin {"checking", "downloading", "installing"}

BeginCheck(manual) ==
    /\ checkTask = NoTask /\ MayCheck /\ MayRun
    /\ manual \/ autoCheck.memory
    /\ beforeCheck' = phase /\ phase' = Phase("checking", NoVersion)
    /\ checkTask' = [at |-> "fetch", manual |-> manual]
    /\ trayShows' = FALSE
    /\ UNCHANGED <<offer, autoCheck, installTask>>

\* The server answers: an update, or none; the update waits from here on.
Fetched(v) ==
    /\ checkTask.at = "fetch"
    /\ offer' = v
    /\ checkTask' = [checkTask EXCEPT !.at = IF v = NoVersion THEN "upToDate" ELSE "found"]
    /\ UNCHANGED <<phase, beforeCheck, trayShows, autoCheck, installTask, runs>>

\* An error, or CHECK_TIMEOUT.
FetchFails ==
    /\ checkTask.at = "fetch"
    /\ checkTask' = [checkTask EXCEPT !.at = "failed"]
    /\ UNCHANGED <<phase, beforeCheck, offer, trayShows, autoCheck, installTask, runs>>

\* finish_check: a failed background check keeps the offer that was shown.
PhaseAfterCheck ==
    CASE checkTask.at = "found" -> Phase("available", offer)
      [] checkTask.at = "upToDate" -> IdlePhase
      [] checkTask.at = "failed" /\ checkTask.manual -> Phase("failed", NoVersion)
      [] OTHER -> IF Offers(beforeCheck) THEN beforeCheck ELSE IdlePhase

FinishCheck ==
    /\ checkTask.at \in {"found", "upToDate", "failed"}
    /\ phase' = PhaseAfterCheck /\ beforeCheck' = IdlePhase
    /\ checkTask' = [at |-> "publish", offers |-> Offers(PhaseAfterCheck)]
    /\ UNCHANGED <<offer, trayShows, autoCheck, installTask, runs>>

\* publish reads the phase and sets the tray afterwards.
CheckPublishes ==
    /\ checkTask.at = "publish"
    /\ trayShows' = checkTask.offers
    /\ checkTask' = NoTask
    /\ UNCHANGED <<phase, beforeCheck, offer, autoCheck, installTask, runs>>

-----------------------------------------------------------------------------
\* install: only from an offer; elsewhere the releases page is opened.
BeginInstall ==
    /\ installTask = NoTask /\ Offers(phase) /\ MayRun
    /\ phase' = Phase("downloading", phase.version)
    /\ installTask' = [at |-> "take", version |-> phase.version]
    /\ UNCHANGED <<beforeCheck, offer, trayShows, autoCheck, checkTask>>

Failing == phase' = Phase("failed", NoVersion) /\ installTask' = [at |-> "publish", offers |-> FALSE]

TakeOffer ==
    /\ installTask.at = "take"
    /\ offer' = NoVersion
    /\ IF offer = NoVersion THEN Failing /\ UNCHANGED trayShows
       ELSE installTask' = [at |-> "download", version |-> offer] /\ trayShows' = FALSE /\ UNCHANGED phase
    /\ UNCHANGED <<beforeCheck, autoCheck, checkTask, runs>>

\* The download fails or DOWNLOAD_TIMEOUT ends it, or the vault is locked and
\* the installer runs; on success the app restarts.
DownloadEnds(done) ==
    /\ installTask.at = "download"
    /\ IF done THEN phase' = Phase("installing", NoVersion) /\ installTask' = [installTask EXCEPT !.at = "install"]
       ELSE Failing
    /\ UNCHANGED <<beforeCheck, offer, trayShows, autoCheck, checkTask, runs>>

InstallFails ==
    /\ installTask.at = "install"
    /\ Failing
    /\ UNCHANGED <<beforeCheck, offer, trayShows, autoCheck, checkTask, runs>>

InstallRestarts ==
    /\ installTask.at = "install"
    /\ phase' = IdlePhase /\ beforeCheck' = IdlePhase /\ offer' = NoVersion
    /\ trayShows' = FALSE /\ autoCheck' = [autoCheck EXCEPT !.memory = autoCheck.file]
    /\ checkTask' = NoTask /\ installTask' = NoTask
    /\ UNCHANGED runs

InstallPublishes ==
    /\ installTask.at = "publish"
    /\ trayShows' = FALSE
    /\ installTask' = NoTask
    /\ UNCHANGED <<phase, beforeCheck, offer, autoCheck, checkTask, runs>>

\* set_update_auto_check: the file first; without it nothing changes.
SetAutoCheck(on) ==
    /\ on # autoCheck.memory
    /\ autoCheck' = [memory |-> on, file |-> on]
    /\ UNCHANGED <<phase, beforeCheck, offer, trayShows, checkTask, installTask, runs>>

UpdateTasks ==
    \/ \E v \in Versions \cup {NoVersion} : Fetched(v)
    \/ FetchFails \/ FinishCheck \/ CheckPublishes
    \/ TakeOffer \/ InstallFails \/ InstallRestarts \/ InstallPublishes
    \/ \E b \in BOOLEAN : DownloadEnds(b)

UpdatesNext ==
    \/ UpdateTasks \/ BeginInstall
    \/ \E b \in BOOLEAN : BeginCheck(b) \/ SetAutoCheck(b)

\* A check and a download end by their timeouts; the answer itself may never come.
UpdatesFairness ==
    /\ WF_updateVars(FetchFails) /\ WF_updateVars(FinishCheck)
    /\ WF_updateVars(CheckPublishes) /\ WF_updateVars(TakeOffer)
    /\ WF_updateVars(DownloadEnds(FALSE)) /\ WF_updateVars(InstallFails)
    /\ WF_updateVars(InstallPublishes)

UpdatesSpec == UpdatesInit /\ [][UpdatesNext]_updateVars /\ UpdatesFairness

-----------------------------------------------------------------------------
UpdatesTypeOK ==
    /\ phase \in [at : {"idle", "checking", "available", "downloading", "installing", "failed"},
                  version : Versions \cup {NoVersion}]
    /\ offer \in Versions \cup {NoVersion}
    /\ checkTask.at \in {"none", "fetch", "upToDate", "found", "failed", "publish"}
    /\ installTask.at \in {"none", "take", "download", "install", "publish"}
    /\ trayShows \in BOOLEAN /\ runs \in 0..MaxUpdateRuns

\* The update the window offers, and the one being downloaded, is the one
\* that will be installed: the phase and the waiting update change under two
\* mutexes and agree whenever an install may begin.
OfferIsHeld ==
    /\ Offers(phase) => offer = phase.version
    /\ phase.at = "downloading" /\ installTask.at = "download" => installTask.version = phase.version

\* A check or a download never stays for ever, so the next one may start.
UpdatesEnd == phase.at \in {"checking", "downloading"} ~> phase.at \notin {"checking", "downloading"}
=============================================================================
