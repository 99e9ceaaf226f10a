-------------------------- MODULE BackgroundProofs --------------------------
(***************************************************************************)
(* What runs beside the vault, for every number of threads, devices,       *)
(* files, openings and versions: each part gets the invariant its steps    *)
(* preserve, and the composition takes them together.                      *)
(***************************************************************************)
EXTENDS MCAppsBackground, FiniteSetTheorems, TLAPS

-----------------------------------------------------------------------------
(* The session.                                                             *)

ReachKinds == {"offline", "online", "unreachable"}
AskKinds == {"none", "connect", "pull", "push"}

\* A session that is not being dropped belongs to the opening of now, and an
\* opening that has begun is the latest: a sign-in that a lock overtook finds
\* another opening, or none.
ReachInv ==
    /\ openings \in 0..MaxOpenings /\ opening \in {0, openings}
    /\ reach \in [kind : ReachKinds, of : 0..MaxOpenings]
    /\ asking \in [Asks -> [kind : AskKinds, of : 0..MaxOpenings]]
    /\ dropping \in BOOLEAN /\ answering \in BOOLEAN /\ attempted \in BOOLEAN
    /\ \A a \in Asks : asking[a].kind = "connect" => asking[a].of # 0
    /\ reach.kind # "offline" => reach.of # 0
    /\ reach.kind # "offline" /\ ~dropping => reach.of = opening

\* The device starts locked and without a session.
LEMMA ReachStarts == ReachInit => ReachInv
<1> SUFFICES ASSUME ReachInit PROVE ReachInv OBVIOUS
<1>1. /\ NoSession \in [kind : ReachKinds, of : 0..MaxOpenings] /\ NoSession.kind = "offline"
      /\ NoAsk \in [kind : AskKinds, of : 0..MaxOpenings] /\ NoAsk.kind = "none"
  BY ReachAssumption DEF NoSession, NoAsk, ReachKinds, AskKinds
<1>2. asking \in [Asks -> [kind : AskKinds, of : 0..MaxOpenings]]
      /\ \A a \in Asks : asking[a].kind # "connect"
  BY <1>1 DEF ReachInit
<1>3. dropping \in BOOLEAN /\ answering \in BOOLEAN /\ attempted \in BOOLEAN BY DEF ReachInit
<1> QED BY <1>1, <1>2, <1>3, ReachAssumption DEF ReachInit, ReachInv

\* Unlocks, locks, and requests that end in any order keep the session's opening.
LEMMA ReachSteps == ReachInv /\ [ReachNext]_reachVars => ReachInv'
<1> SUFFICES ASSUME ReachInv, [ReachNext]_reachVars PROVE ReachInv' OBVIOUS
<1> USE ReachAssumption DEF ReachKinds, AskKinds, NoAsk, NoSession
<1>1. ASSUME NEW a \in Asks, UnlockAndConnect(a) PROVE ReachInv'
  BY <1>1 DEF ReachInv, UnlockAndConnect
<1>2. ASSUME NEW a \in Asks, PullStarts(a) PROVE ReachInv'
  BY <1>2 DEF ReachInv, PullStarts, Starts, PullDue
<1>3. ASSUME NEW a \in Asks, PushStarts(a) PROVE ReachInv'
  BY <1>3 DEF ReachInv, PushStarts, Starts
<1>4. ASSUME NEW a \in Asks, NEW b \in BOOLEAN, ConnectEnds(a, b) PROVE ReachInv'
  <2> DEFINE session == [kind |-> "online", of |-> asking[a].of]
  <2>1. reach' \in {MarkedUnreachable, NoSession, reach} \/ (asking[a].of = opening /\ reach' = session)
    BY <1>4 DEF ConnectEnds, StillWanted
  <2>2. reach' \in [kind : ReachKinds, of : 0..MaxOpenings]
    BY <2>1 DEF ReachInv, MarkedUnreachable
  <2>3. reach'.kind # "offline" => reach'.of # 0 /\ (~dropping => reach'.of = opening)
    BY <2>1, <1>4 DEF ReachInv, MarkedUnreachable, ConnectEnds
  <2> QED BY <1>4, <2>2, <2>3 DEF ReachInv, ConnectEnds
<1>5. ASSUME NEW a \in Asks, NEW b \in BOOLEAN, RequestEnds(a, b) PROVE ReachInv'
  <2>1. reach' \in {MarkedUnreachable, NoSession, reach, MarkedReachable}
    BY <1>5 DEF RequestEnds
  <2>2. reach' \in [kind : ReachKinds, of : 0..MaxOpenings]
    BY <2>1 DEF ReachInv, MarkedUnreachable, MarkedReachable
  <2>3. reach'.kind # "offline" => reach'.of # 0 /\ (~dropping => reach'.of = opening)
    BY <2>1 DEF ReachInv, MarkedUnreachable, MarkedReachable
  <2> QED BY <1>5, <2>2, <2>3 DEF ReachInv, RequestEnds
<1>6. CASE LocksVault BY <1>6 DEF ReachInv, LocksVault
<1>7. CASE DropsSession
  <2>1. NoSession \in [kind : ReachKinds, of : 0..MaxOpenings] /\ NoSession.kind = "offline"
    BY DEF NoSession, ReachKinds
  <2> HIDE DEF NoSession
  <2> QED BY <1>7, <2>1 DEF ReachInv, DropsSession
<1>8. CASE IntervalPasses BY <1>8 DEF ReachInv, IntervalPasses
<1>9. CASE NetworkTurns BY <1>9 DEF ReachInv, NetworkTurns
<1>10. CASE UNCHANGED reachVars BY <1>10 DEF ReachInv, reachVars
<1> QED BY <1>1, <1>2, <1>3, <1>4, <1>5, <1>6, <1>7, <1>8, <1>9, <1>10 DEF ReachNext

LEMMA ReachTypes == ReachInv => ReachTypeOK /\ SessionOfThisOpening
BY ReachAssumption DEF ReachInv, ReachTypeOK, SessionOfThisOpening, ReachKinds, AskKinds

-----------------------------------------------------------------------------
(* The desktop app's updates.                                               *)

MaybeVersion == Versions \cup {NoVersion}
PhaseNames == {"idle", "checking", "available", "downloading", "installing", "failed"}
Phases == [at : PhaseNames, version : MaybeVersion]
CheckTasks == [at : {"fetch", "found", "upToDate", "failed"}, manual : BOOLEAN]
InstallTasks == [at : {"take", "download", "install"}, version : MaybeVersion]
PublishTasks == [at : {"publish"}, offers : BOOLEAN]

UpdatesTyped ==
    /\ phase \in Phases /\ beforeCheck \in Phases /\ offer \in MaybeVersion
    /\ checkTask \in {NoTask} \cup CheckTasks \cup PublishTasks
    /\ installTask \in {NoTask} \cup InstallTasks \cup PublishTasks
    /\ trayShows \in BOOLEAN /\ runs \in 0..MaxUpdateRuns

\* The phase says which of the two tasks may change the waiting update: a check
\* works in the phase "checking" alone, an install in its own two.  So what
\* a check or an install found waiting is still there when it looks again.
UpdatesInv ==
    /\ UpdatesTyped
    /\ checkTask \in CheckTasks => phase.at = "checking"
    /\ installTask.at \in {"take", "download"} => phase.at = "downloading"
    /\ installTask.at = "install" => phase.at = "installing"
    /\ checkTask.at \in {"fetch", "failed"} /\ Offers(beforeCheck) => offer = beforeCheck.version
    /\ Offers(phase) \/ installTask.at = "take" => offer = phase.version
    /\ installTask.at = "download" => installTask.version = phase.version

\* The app starts without an offer.
LEMMA UpdatesStart == UpdatesInit => UpdatesInv
<1> SUFFICES ASSUME UpdatesInit PROVE UpdatesInv OBVIOUS
<1>1. IdlePhase \in Phases /\ IdlePhase.at = "idle" /\ IdlePhase.version = NoVersion
  BY DEF IdlePhase, Phase, Phases, PhaseNames, MaybeVersion
<1>2. NoTask.at = "none" /\ NoTask \notin CheckTasks BY DEF NoTask, CheckTasks
<1>3. runs \in 0..MaxUpdateRuns /\ offer \in MaybeVersion
  BY UpdatesAssumption DEF UpdatesInit, MaybeVersion
<1>5. trayShows \in BOOLEAN BY DEF UpdatesInit
<1>4. UpdatesTyped BY <1>1, <1>3, <1>5 DEF UpdatesInit, UpdatesTyped
<1> QED BY <1>1, <1>2, <1>4 DEF UpdatesInit, UpdatesInv, Offers

\* Neither task changes what the other holds.
LEMMA UpdatesStep == UpdatesInv /\ [UpdatesNext]_updateVars => UpdatesInv'
<1> SUFFICES ASSUME UpdatesInv, [UpdatesNext]_updateVars PROVE UpdatesInv' OBVIOUS
<1> USE UpdatesAssumption DEF MaybeVersion, PhaseNames, Phases, CheckTasks, InstallTasks,
      PublishTasks, NoTask, Phase, IdlePhase, Offers
<1>0. ASSUME Failing
      PROVE /\ installTask' \in PublishTasks /\ installTask'.at = "publish"
            /\ phase' \in Phases /\ phase'.at = "failed"
  BY <1>0 DEF Failing
<1>1. ASSUME NEW b \in BOOLEAN, BeginCheck(b) PROVE UpdatesInv'
  <2>1. /\ checkTask' \in CheckTasks /\ checkTask'.at = "fetch" /\ phase' \in Phases
        /\ phase'.at = "checking" /\ beforeCheck' = phase
    BY <1>1 DEF BeginCheck
  <2>2. trayShows' \in BOOLEAN BY <1>1 DEF BeginCheck
  <2>3. runs' \in 0..MaxUpdateRuns BY <1>1 DEF BeginCheck, MayRun, UpdatesInv, UpdatesTyped
  <2> QED BY <1>1, <2>1, <2>2, <2>3 DEF UpdatesInv, UpdatesTyped, BeginCheck, MayCheck
<1>2. ASSUME NEW v \in MaybeVersion, Fetched(v) PROVE UpdatesInv'
  <2>1. checkTask \in CheckTasks BY <1>2 DEF UpdatesInv, UpdatesTyped, Fetched
  <2>2. checkTask' \in CheckTasks /\ checkTask'.at \in {"upToDate", "found"}
    BY <1>2, <2>1 DEF Fetched
  <2>3. ~Offers(phase) /\ installTask.at \notin {"take", "download"} BY <2>1 DEF UpdatesInv
  <2> QED BY <1>2, <2>1, <2>2, <2>3 DEF UpdatesInv, UpdatesTyped, Fetched
<1>3. CASE FetchFails BY <1>3 DEF UpdatesInv, UpdatesTyped, FetchFails
<1>4. CASE FinishCheck BY <1>4 DEF UpdatesInv, UpdatesTyped, FinishCheck, PhaseAfterCheck
<1>5. CASE CheckPublishes BY <1>5 DEF UpdatesInv, UpdatesTyped, CheckPublishes
<1>6. CASE BeginInstall BY <1>6 DEF UpdatesInv, UpdatesTyped, BeginInstall, MayRun
<1>7. CASE TakeOffer
  <2>1. installTask \in InstallTasks /\ phase.at = "downloading" /\ checkTask \notin CheckTasks
    BY <1>7 DEF UpdatesInv, UpdatesTyped, TakeOffer
  <2>2. CASE offer = NoVersion
    BY <1>0, <1>7, <2>1, <2>2 DEF TakeOffer, UpdatesInv, UpdatesTyped
  <2>3. CASE offer # NoVersion
    <3>1. trayShows' = FALSE /\ installTask' \in InstallTasks
      BY <1>7, <2>3 DEF TakeOffer, UpdatesInv, UpdatesTyped
    <3>2. trayShows' \in BOOLEAN BY <3>1
    <3> QED BY <1>7, <2>1, <2>3, <3>1, <3>2 DEF TakeOffer, UpdatesInv, UpdatesTyped
  <2> QED BY <2>2, <2>3
<1>8. ASSUME NEW b \in BOOLEAN, DownloadEnds(b) PROVE UpdatesInv'
  <2>1. installTask \in InstallTasks /\ phase.at = "downloading" /\ checkTask \notin CheckTasks
    BY <1>8 DEF UpdatesInv, UpdatesTyped, DownloadEnds
  <2>2. CASE b
    BY <1>8, <2>1, <2>2 DEF DownloadEnds, UpdatesInv, UpdatesTyped
  <2>3. CASE ~b
    BY <1>0, <1>8, <2>1, <2>3 DEF DownloadEnds, UpdatesInv, UpdatesTyped
  <2> QED BY <2>2, <2>3
<1>9. CASE InstallFails BY <1>9 DEF UpdatesInv, UpdatesTyped, InstallFails, Failing
<1>10. CASE InstallRestarts BY <1>10 DEF UpdatesInv, UpdatesTyped, InstallRestarts
<1>11. CASE InstallPublishes BY <1>11, ZenonT(40) DEF UpdatesInv, UpdatesTyped, InstallPublishes
<1>12. ASSUME NEW b \in BOOLEAN, SetAutoCheck(b) PROVE UpdatesInv'
  BY <1>12 DEF UpdatesInv, UpdatesTyped, SetAutoCheck
<1>13. CASE UNCHANGED updateVars BY <1>13 DEF UpdatesInv, UpdatesTyped, updateVars
<1> QED BY <1>1, <1>2, <1>3, <1>4, <1>5, <1>6, <1>7, <1>8, <1>9, <1>10, <1>11, <1>12, <1>13
    DEF UpdatesNext, UpdateTasks

LEMMA UpdatesTypes == UpdatesInv => UpdatesTypeOK /\ OfferIsHeld
<1> SUFFICES ASSUME UpdatesInv PROVE UpdatesTypeOK /\ OfferIsHeld OBVIOUS
<1>1. /\ checkTask.at \in {"none", "fetch", "upToDate", "found", "failed", "publish"}
      /\ installTask.at \in {"none", "take", "download", "install", "publish"}
  BY DEF UpdatesInv, UpdatesTyped, CheckTasks, InstallTasks, PublishTasks, NoTask
<1>2. UpdatesTypeOK BY <1>1 DEF UpdatesTypeOK, UpdatesInv, UpdatesTyped, Phases, PhaseNames, MaybeVersion
<1> QED BY <1>2 DEF UpdatesInv, OfferIsHeld

-----------------------------------------------------------------------------
(* The desktop shell.                                                       *)

ClockType == [limit : {0, IdleLimit}, idle : 0..IdleLimit, slept : BOOLEAN, opened : 0..IdleLimit]
ClipType == [text : {NoText, OwnText, UserText}, gen : 0..MaxCopies, owned : BOOLEAN, refused : BOOLEAN]
Commands == {AtRest} \cup [what : {"copy", "scan", "pick"}] \cup [what : {"save"}, scan : BOOLEAN]
ScanType == [fresh : BOOLEAN]

ShellTyped ==
    /\ open \in BOOLEAN /\ clock \in ClockType /\ clip \in ClipType
    /\ timers \subseteq 1..MaxCopies
    /\ scans \in Seq(ScanType) /\ Len(scans) <= MaxHeld /\ files \subseteq 1..MaxFiles
    /\ doing \in [Threads -> Commands]
    /\ locking \in [Lockers -> {"no", "vault"}]
    /\ ticker \in {"asleep", "tick", "idle", "suspend"}

\* Codes and files are there only while the vault is open or a lock is still
\* to clear them, and the idle time of an open vault is time it was open.
ShellHeld ==
    /\ ~open /\ (scans # <<>> \/ files # {}) => \E l \in Lockers : locking[l] = "vault"
    /\ open => clock.opened >= clock.idle

ShellInv == ShellTyped /\ ShellHeld

\* The app starts locked and empty-handed.
LEMMA ShellStarts == ShellInit => ShellInv
<1> SUFFICES ASSUME ShellInit PROVE ShellInv OBVIOUS
<1>1. clock \in ClockType BY ShellAssumption DEF ShellInit, ClockType
<1>2. clip.text \in {NoText, OwnText, UserText} /\ clip.gen \in 0..MaxCopies
      /\ clip.owned \in BOOLEAN /\ clip.refused \in BOOLEAN
  BY ShellAssumption DEF ShellInit
<1>3. clip \in ClipType BY <1>2 DEF ShellInit, ClipType
<1>4. scans \in Seq(ScanType) /\ Len(scans) <= MaxHeld BY ShellAssumption DEF ShellInit
<1>5. open \in BOOLEAN BY DEF ShellInit
<1>6. ShellTyped BY <1>1, <1>3, <1>4, <1>5 DEF ShellInit, ShellTyped, Commands
<1> QED BY <1>6 DEF ShellInit, ShellInv, ShellHeld

\* An interaction, a time of day and a change of the settings keep the clock's type.
LEMMA Clocks ==
    ASSUME clock \in ClockType
    PROVE  /\ Restarted(clock) \in ClockType /\ Opened \in ClockType
           /\ Restarted(clock).idle = 0 /\ Restarted(clock).opened = clock.opened
           /\ Opened.idle = 0 /\ Opened.opened = 0
           /\ Touch => clock' \in ClockType /\ clock'.idle = 0 /\ clock'.opened = clock.opened
           /\ \A n \in {0, IdleLimit} :
                /\ Restarted([clock EXCEPT !.limit = n]) \in ClockType
                /\ Restarted([clock EXCEPT !.limit = n]).idle = 0
                /\ Restarted([clock EXCEPT !.limit = n]).opened = clock.opened
<1> USE ShellAssumption DEF ClockType
<1>0. ASSUME NEW c \in ClockType
      PROVE Restarted(c) \in ClockType /\ Restarted(c).idle = 0 /\ Restarted(c).opened = c.opened
  <2>1. \A i \in 0..IdleLimit, b \in BOOLEAN :
          LET r == [c EXCEPT !.idle = i, !.slept = b]
          IN r \in ClockType /\ r.idle = i /\ r.opened = c.opened
    OBVIOUS
  <2>2. 0 \in 0..IdleLimit OBVIOUS
  <2>3. FALSE \in BOOLEAN OBVIOUS
  <2> HIDE DEF ClockType
  <2> QED BY <2>1, <2>2, <2>3 DEF Restarted
<1>1. Opened \in ClockType /\ Opened.idle = 0 /\ Opened.opened = 0
  <2>1. ASSUME NEW c \in ClockType
        PROVE [c EXCEPT !.opened = 0] \in ClockType /\ [c EXCEPT !.opened = 0].idle = c.idle
              /\ [c EXCEPT !.opened = 0].opened = 0
    OBVIOUS
  <2> QED BY <1>0, <2>1 DEF Opened
<1>2. Touch => clock' \in ClockType /\ clock'.idle = 0 /\ clock'.opened = clock.opened
  BY DEF Touch
<1>3. ASSUME NEW n \in {0, IdleLimit}
      PROVE [clock EXCEPT !.limit = n] \in ClockType /\ [clock EXCEPT !.limit = n].opened = clock.opened
  OBVIOUS
<1> HIDE DEF ClockType
<1> QED BY <1>0, <1>1, <1>2, <1>3

\* Clearing keeps the record's type and never touches the owner's text.
LEMMA Clearing ==
    ASSUME clip \in ClipType, NEW works \in BOOLEAN
    PROVE  /\ Cleared(clip, works) \in ClipType
           /\ clip.text = UserText => Cleared(clip, works).text = UserText
<1> DEFINE ours == clip.owned /\ clip.text = OwnText
           left == IF ours /\ works THEN NoText ELSE clip.text
           no   == clip.refused \/ (ours /\ ~works)
<1>1. Cleared(clip, works) = [clip EXCEPT !.text = left, !.owned = FALSE, !.refused = no] BY DEF Cleared
<1>2. left \in {NoText, OwnText, UserText} BY DEF ClipType
<1>3. no \in BOOLEAN BY DEF ClipType
<1>4. clip.text = UserText => left = UserText BY DEF OwnText, UserText
<1> HIDE DEF left, no
<1> QED BY <1>1, <1>2, <1>3, <1>4 DEF ClipType

\* A command after its guarded part is one of those it may be.
LEMMA Commanded ==
    ASSUME doing \in [Threads -> Commands], NEW t \in Threads
    PROVE  /\ \A r \in Commands : Does(t, r) => doing' \in [Threads -> Commands]
           /\ AtRest \in Commands /\ [what |-> "copy"] \in Commands
           /\ [what |-> "scan"] \in Commands /\ [what |-> "pick"] \in Commands
           /\ \A b \in BOOLEAN : [what |-> "save", scan |-> b] \in Commands
<1>1. \A r \in Commands : Does(t, r) => doing' \in [Threads -> Commands] BY DEF Does
<1> QED BY <1>1 DEF Commands

\* No command, tick or lock leaves codes or files behind a closed vault.
LEMMA ShellSteps == ShellInv /\ [ShellNext]_desktopVars => ShellInv'
<1> SUFFICES ASSUME ShellInv, [ShellNext]_desktopVars PROVE ShellInv' OBVIOUS
<1>n. IdleLimit \in Nat \ {0} /\ MaxHeld \in Nat \ {0} /\ MaxCopies \in Nat /\ MaxFiles \in Nat
  BY ShellAssumption
<1> USE <1>n DEF clipVars
<1>c. clock \in ClockType BY DEF ShellInv, ShellTyped
<1>d. clip \in ClipType BY DEF ShellInv, ShellTyped
<1>e. doing \in [Threads -> Commands] BY DEF ShellInv, ShellTyped
<1>k. Touch => clock' \in ClockType /\ clock'.idle = 0 /\ clock'.opened \in Nat
  BY <1>c, Clocks DEF ClockType
<1>1. CASE UnlockVault
  <2>1. clock' \in ClockType /\ clock'.idle = 0 /\ clock'.opened = 0
    BY <1>1, <1>c, Clocks DEF UnlockVault
  <2>2. open' = TRUE /\ open' \in BOOLEAN BY <1>1 DEF UnlockVault
  <2> QED BY <1>1, <2>1, <2>2 DEF UnlockVault, ShellInv, ShellTyped, ShellHeld
<1>2. CASE RecordActivity
  BY <1>2, <1>k DEF RecordActivity, ShellInv, ShellTyped, ShellHeld
<1>3. ASSUME NEW n \in {0, IdleLimit}, SetAutoLock(n) PROVE ShellInv'
  <2>1. clock' \in ClockType /\ clock'.idle = 0 /\ clock'.opened = clock.opened /\ clock.opened \in Nat
    <3>1. clock.opened \in Nat BY <1>c DEF ClockType
    <3> QED BY <1>3, <1>c, <3>1, Clocks DEF SetAutoLock
  <2> QED BY <1>3, <2>1 DEF SetAutoLock, ShellInv, ShellTyped, ShellHeld
<1>4. ASSUME NEW l \in Lockers, LockVault(l)
      PROVE /\ open' = FALSE /\ open' \in BOOLEAN
            /\ locking' \in [Lockers -> {"no", "vault"}] /\ locking'[l] = "vault"
  BY <1>4 DEF LockVault, ShellInv, ShellTyped
<1>5. ASSUME NEW t \in Threads, LockNow(t) PROVE ShellInv'
  <2>1. t \in Lockers BY DEF Lockers
  <2> QED BY <1>5, <2>1, <1>4 DEF LockNow, ShellInv, ShellTyped, ShellHeld
<1>6. ASSUME NEW t \in Threads, CopySecret(t) \/ CopyGenerated(t) PROVE ShellInv'
  <2>1. doing' \in [Threads -> Commands] BY <1>6, <1>e, Commanded DEF CopySecret, CopyGenerated
  <2>2. Touch /\ UNCHANGED <<open, clip, timers, scans, files, locking, ticker>>
    BY <1>6 DEF CopySecret, CopyGenerated
  <2> QED BY <1>k, <2>1, <2>2 DEF ShellInv, ShellTyped, ShellHeld
<1>7. ASSUME NEW t \in Threads, CopyText(t) PROVE ShellInv'
  <2>1. doing' \in [Threads -> Commands] BY <1>7, <1>e, Commanded DEF CopyText
  <2>2. clip' \in ClipType
    <3>1. clip.gen + 1 \in 0..MaxCopies BY <1>7, <1>d DEF CopyText, ClipType
    <3> QED BY <1>7, <3>1 DEF CopyText, ClipType
  <2>3. timers' \subseteq 1..MaxCopies
    <3>1. clip.gen + 1 \in 1..MaxCopies BY <1>7, <1>d DEF CopyText, ClipType
    <3> QED BY <1>7, <3>1 DEF CopyText, ShellInv, ShellTyped
  <2> QED BY <1>7, <2>1, <2>2, <2>3 DEF CopyText, ShellInv, ShellTyped, ShellHeld
<1>8. ASSUME NEW t \in Threads, CopyFails(t) PROVE ShellInv'
  <2>1. doing' \in [Threads -> Commands] BY <1>8, <1>e, Commanded DEF CopyFails
  <2> QED BY <1>8, <2>1 DEF CopyFails, ShellInv, ShellTyped, ShellHeld
<1>9. ASSUME NEW t \in Threads, ScanScreen(t) \/ PickFiles(t) PROVE ShellInv'
  <2>1. doing' \in [Threads -> Commands] BY <1>9, <1>e, Commanded DEF ScanScreen, PickFiles
  <2>2. Touch /\ UNCHANGED <<open, clip, timers, scans, files, locking, ticker>>
    BY <1>9 DEF ScanScreen, PickFiles
  <2> QED BY <1>k, <2>1, <2>2 DEF ShellInv, ShellTyped, ShellHeld
<1>10. ASSUME NEW t \in Threads, HoldFiles(t) PROVE ShellInv'
  <2>1. doing' \in [Threads -> Commands] BY <1>10, <1>e, Commanded DEF HoldFiles
  <2> QED BY <1>10, <2>1 DEF HoldFiles, Storable, ShellInv, ShellTyped, ShellHeld
<1>11. ASSUME NEW t \in Threads, NEW found \in BOOLEAN, StoreScan(t, found) PROVE ShellInv'
  <2>1. doing' \in [Threads -> Commands] BY <1>11, <1>e, Commanded DEF StoreScan
  <2>2. CASE found /\ open
    <3> DEFINE more == Append(scans, [fresh |-> TRUE])
    <3>1. more \in Seq(ScanType) /\ more # <<>> /\ Len(more) = Len(scans) + 1 /\ Len(more) <= MaxHeld + 1
      <4>1. [fresh |-> TRUE] \in ScanType BY DEF ScanType
      <4> QED BY <4>1 DEF ShellInv, ShellTyped
    <3>2. Tail(more) \in Seq(ScanType) /\ Len(Tail(more)) = Len(more) - 1 BY <3>1
    <3>3. scans' = Newest(more) BY <1>11, <2>2 DEF StoreScan, Storable
    <3>4. scans' \in Seq(ScanType) /\ Len(scans') <= MaxHeld
      <4> HIDE DEF more
      <4> QED BY <3>1, <3>2, <3>3 DEF Newest
    <3> QED BY <1>11, <2>1, <2>2, <3>4 DEF StoreScan, ShellInv, ShellTyped, ShellHeld
  <2>3. CASE ~(found /\ open)
    BY <1>11, <2>1, <2>3 DEF StoreScan, Storable, ShellInv, ShellTyped, ShellHeld
  <2> QED BY <2>2, <2>3
<1>12. ASSUME NEW t \in Threads, NEW u \in BOOLEAN, NEW o \in BOOLEAN, SaveItem(t, u, o) PROVE ShellInv'
  <2>1. doing' \in [Threads -> Commands]
    <3>1. [what |-> "save", scan |-> u] \in Commands BY <1>e, Commanded
    <3> QED BY <1>12, <1>e, <3>1, Commanded DEF SaveItem
  <2> QED BY <1>12, <1>k, <2>1 DEF SaveItem, ShellInv, ShellTyped, ShellHeld
<1>13. ASSUME NEW t \in Threads, NEW b \in BOOLEAN, SaveEnds(t, b) PROVE ShellInv'
  <2>1. doing' \in [Threads -> Commands] BY <1>13, <1>e, Commanded DEF SaveEnds
  <2>2. scans' \in {<<>>, scans} BY <1>13 DEF SaveEnds
  <2>3. scans' \in Seq(ScanType) /\ Len(scans') <= MaxHeld
    <3>1. CASE scans' = <<>> BY <3>1
    <3>2. CASE scans' = scans BY <3>2 DEF ShellInv, ShellTyped
    <3> QED BY <2>2, <3>1, <3>2
  <2> QED BY <1>13, <2>1, <2>2, <2>3 DEF SaveEnds, ShellInv, ShellTyped, ShellHeld
<1>14. ASSUME NEW l \in Lockers, ClearAfterLock(l) PROVE ShellInv'
  <2>1. clip' \in ClipType
    <3>1. PICK works \in BOOLEAN : clip' = Cleared(clip, works) BY <1>14 DEF ClearAfterLock
    <3> QED BY <3>1, <1>d, Clearing
  <2>2. scans' \in Seq(ScanType) /\ Len(scans') <= MaxHeld BY <1>14 DEF ClearAfterLock
  <2>3. locking' \in [Lockers -> {"no", "vault"}] BY <1>14 DEF ClearAfterLock, ShellInv, ShellTyped
  <2> QED BY <1>14, <2>1, <2>2, <2>3 DEF ClearAfterLock, ShellInv, ShellTyped, ShellHeld
<1>15. CASE UserCopies
  <2>1. clip' \in ClipType BY <1>15, <1>d DEF UserCopies, ClipType
  <2> QED BY <1>15, <2>1 DEF UserCopies, ShellInv, ShellTyped, ShellHeld
<1>16. CASE ScanExpires
  <2>1. scans \in Seq(ScanType) /\ scans # <<>> BY <1>16 DEF ScanExpires, ShellInv, ShellTyped
  <2>2. scans' \in Seq(ScanType) /\ Len(scans') = Len(scans)
    <3>1. [fresh |-> FALSE] \in ScanType BY DEF ScanType
    <3> QED BY <1>16, <2>1, <3>1 DEF ScanExpires
  <2> QED BY <1>16, <2>1, <2>2 DEF ScanExpires, ShellInv, ShellTyped, ShellHeld
<1>17. CASE DiscardFiles
  BY <1>17 DEF DiscardFiles, ShellInv, ShellTyped, ShellHeld
<1>18. ASSUME NEW g \in timers, TimerFires(g) PROVE ShellInv'
  <2>1. clip' \in ClipType
    <3>1. PICK works \in BOOLEAN : clip' = AfterTimer(g, works) BY <1>18 DEF TimerFires
    <3>2. Cleared(clip, works) \in ClipType BY <1>d, Clearing
    <3> QED BY <3>1, <3>2, <1>d DEF AfterTimer
  <2> QED BY <1>18, <2>1 DEF TimerFires, ShellInv, ShellTyped, ShellHeld
<1>19. ASSUME NEW b \in BOOLEAN, PollSession(b) PROVE ShellInv'
  <2>1. "ticker" \in Lockers BY DEF Lockers
  <2>2. CASE b BY <1>4, <1>19, <2>1, <2>2 DEF PollSession, ShellInv, ShellTyped, ShellHeld
  <2>3. CASE ~b BY <1>19, <2>3 DEF PollSession, ShellInv, ShellTyped, ShellHeld
  <2> QED BY <2>2, <2>3
<1>20. CASE DesktopTick
  <2>1. clock' \in ClockType /\ clock'.idle = clock.idle /\ clock'.opened = clock.opened
    BY <1>20, <1>c DEF DesktopTick, ClockType
  <2>2. ticker' \in {"asleep", "tick", "idle", "suspend"} BY <1>20 DEF DesktopTick, TickReason
  <2> QED BY <1>20, <2>1, <2>2 DEF DesktopTick, ShellInv, ShellTyped, ShellHeld
<1>21. CASE AutoLock
  <2>1. "ticker" \in Lockers BY DEF Lockers
  <2> QED BY <1>4, <1>21, <2>1 DEF AutoLock, ShellInv, ShellTyped, ShellHeld
<1>22. ASSUME NEW b \in BOOLEAN, TimePasses(b) PROVE ShellInv'
  <2> DEFINE i == IF clock.idle < IdleLimit THEN clock.idle + 1 ELSE clock.idle
             o == IF clock.opened < IdleLimit THEN clock.opened + 1 ELSE clock.opened
             z == clock.slept \/ b
  <2>1. clock' = [clock EXCEPT !.idle = i, !.opened = o, !.slept = z]
    BY <1>22 DEF TimePasses
  <2>2. clock.idle \in 0..IdleLimit /\ clock.opened \in 0..IdleLimit BY <1>c DEF ClockType
  <2>3. i \in 0..IdleLimit /\ o \in 0..IdleLimit /\ (clock.opened >= clock.idle => o >= i) BY <2>2
  <2>4. z \in BOOLEAN OBVIOUS
  <2> HIDE DEF i, o, z
  <2>5. clock' \in ClockType /\ clock'.idle = i /\ clock'.opened = o
    BY <1>c, <2>1, <2>3, <2>4 DEF ClockType
  <2> QED BY <1>22, <2>3, <2>5 DEF TimePasses, ShellInv, ShellTyped, ShellHeld
<1>23. CASE UNCHANGED desktopVars BY <1>23 DEF desktopVars, ShellInv, ShellTyped, ShellHeld
<1>24. \A t \in Threads : t \in Lockers BY DEF Lockers
<1>25. "ticker" \in Lockers BY DEF Lockers
<1> QED BY <1>1, <1>2, <1>3, <1>5, <1>6, <1>7, <1>8, <1>9, <1>10, <1>11, <1>12, <1>13, <1>14, <1>15,
           <1>16, <1>17, <1>18, <1>19, <1>20, <1>21, <1>22, <1>23, <1>24, <1>25
    DEF ShellNext, TickerSteps

LEMMA ShellTypes == ShellInv => ShellTypeOK /\ LockedHoldsNothing /\ IdleIsMeasured
<1> SUFFICES ASSUME ShellInv PROVE ShellTypeOK /\ LockedHoldsNothing /\ IdleIsMeasured OBVIOUS
<1>1. \A t \in Threads : doing[t].what \in {"nothing", "copy", "scan", "pick", "save"}
  BY DEF ShellInv, ShellTyped, Commands, AtRest
<1>2. ShellTypeOK BY <1>1 DEF ShellInv, ShellTyped, ShellTypeOK, ClockType, ClipType
<1>3. LockedHoldsNothing BY DEF ShellInv, ShellTyped, ShellHeld, LockedHoldsNothing
<1>4. IdleIsMeasured
  BY ShellAssumption DEF ShellInv, ShellTyped, ShellHeld, ClockType, IdleIsMeasured, TickReason
<1> QED BY <1>2, <1>3, <1>4

-----------------------------------------------------------------------------
(* The phone's clock.                                                       *)

IdleClocks == [limit : {0, PhoneLimit}, idle : 0..PhoneLimit, slept : BOOLEAN]

\* The phone starts locked, its clock armed.
LEMMA PhoneClockStarts == PhoneClockInit => PhoneClockTypeOK
<1> SUFFICES ASSUME PhoneClockInit PROVE PhoneClockTypeOK OBVIOUS
<1>1. PhoneLimit \in Nat /\ FALSE \in BOOLEAN BY PhoneClockAssumption
<1>2. idleClock \in IdleClocks BY <1>1 DEF PhoneClockInit, IdleClocks
<1>3. unlocked \in BOOLEAN /\ believed \in BOOLEAN BY DEF PhoneClockInit
<1>4. closers \in [Closers -> {"no", "due", "closed"}] BY DEF PhoneClockInit
<1>5. pump \in Seq({"locked", "unlocked"}) BY DEF PhoneClockInit
<1>6. arming \in {{}, {0}, {PhoneLimit}} BY DEF PhoneClockInit
<1> QED BY <1>2, <1>3, <1>4, <1>5, <1>6 DEF PhoneClockTypeOK, IdleClocks

\* Every call, tick and event keeps the types.
LEMMA PhoneClockSteps == PhoneClockTypeOK /\ [PhoneClockNext]_phoneClockVars => PhoneClockTypeOK'
<1> SUFFICES ASSUME PhoneClockTypeOK, [PhoneClockNext]_phoneClockVars PROVE PhoneClockTypeOK' OBVIOUS
<1>n. PhoneLimit \in Nat \ {0} BY PhoneClockAssumption
<1>c. idleClock \in IdleClocks BY DEF PhoneClockTypeOK, IdleClocks
<1>d. TickedClock \in IdleClocks
  <2>1. \A b \in BOOLEAN : [idleClock EXCEPT !.slept = b] \in IdleClocks BY <1>c DEF IdleClocks
  <2> QED BY <2>1 DEF TickedClock
<1>e. \A l \in {0, PhoneLimit} : ArmedClock(l) \in IdleClocks
  <2>1. \A l \in {0, PhoneLimit}, b \in BOOLEAN : [limit |-> l, idle |-> 0, slept |-> b] \in IdleClocks
    BY <1>n DEF IdleClocks
  <2> QED BY <2>1 DEF ArmedClock
<1>f. StoredLimit \in {0, PhoneLimit}
  <2>1. idleClock.limit \in {0, PhoneLimit} BY <1>c DEF IdleClocks
  <2>2. arming # {} => (CHOOSE l \in arming : TRUE) \in {0, PhoneLimit}
    <3>1. SUFFICES ASSUME arming # {} PROVE (CHOOSE l \in arming : TRUE) \in {0, PhoneLimit} OBVIOUS
    <3>2. (CHOOSE l \in arming : TRUE) \in arming BY <3>1
    <3>3. arming \subseteq {0, PhoneLimit} BY DEF PhoneClockTypeOK
    <3> QED BY <3>2, <3>3
  <2> QED BY <2>1, <2>2 DEF StoredLimit
<1>g. {"ticker", "touch", "owner"} \subseteq Closers /\ PhoneThreads \subseteq Closers BY DEF Closers
<1>1. ASSUME NEW w \in PhoneThreads \cup {"ticker"}, AutoLockTick(w) PROVE PhoneClockTypeOK'
  BY <1>1, <1>d, <1>g DEF AutoLockTick, PhoneClockTypeOK, IdleClocks
<1>2. ASSUME NEW w \in Closers, CloseVault(w) PROVE PhoneClockTypeOK'
  <2>1. unlocked' \in BOOLEAN BY <1>2 DEF CloseVault
  <2>2. closers' \in [Closers -> {"no", "due", "closed"}] BY <1>2 DEF CloseVault, PhoneClockTypeOK
  <2> QED BY <1>2, <2>1, <2>2 DEF CloseVault, PhoneClockTypeOK
<1>3. ASSUME NEW w \in Closers, TellLocked(w) PROVE PhoneClockTypeOK'
  BY <1>3 DEF TellLocked, Sent, PhoneClockTypeOK
<1>4. CASE PhoneTouch
  <2>1. idleClock' \in IdleClocks
    <3>1. [idleClock EXCEPT !.idle = 0] \in IdleClocks BY <1>c, <1>n DEF IdleClocks
    <3> QED BY <1>4, <1>d, <3>1 DEF PhoneTouch, Touched
  <2>2. closers' \in [Closers -> {"no", "due", "closed"}] BY <1>4 DEF PhoneTouch, PhoneClockTypeOK
  <2> QED BY <1>4, <2>1, <2>2 DEF PhoneTouch, PhoneClockTypeOK, IdleClocks
<1>5. CASE AskLock BY <1>5 DEF AskLock, PhoneClockTypeOK
<1>6. CASE OpenVault
  <2>1. unlocked' \in BOOLEAN BY <1>6 DEF OpenVault
  <2>2. idleClock' \in IdleClocks BY <1>6, <1>e, <1>f DEF OpenVault
  <2> QED BY <1>6, <2>1, <2>2 DEF OpenVault, Sent, PhoneClockTypeOK, IdleClocks
<1>7. ASSUME NEW l \in {0, PhoneLimit}, SetPhoneLimit(l) PROVE PhoneClockTypeOK'
  BY <1>7 DEF SetPhoneLimit, PhoneClockTypeOK
<1>a. CASE ArmClock
  <2>1. idleClock' \in IdleClocks BY <1>a, <1>e, <1>f DEF ArmClock
  <2>2. arming' \in {{}, {0}, {PhoneLimit}} BY <1>a DEF ArmClock
  <2> QED BY <1>a, <2>1, <2>2 DEF ArmClock, PhoneClockTypeOK, IdleClocks
<1>8. CASE DeliverEvent
  <2>1. believed' \in BOOLEAN BY <1>8 DEF DeliverEvent
  <2> QED BY <1>8, <2>1 DEF DeliverEvent, PhoneClockTypeOK
<1>9. CASE PhoneMinute BY <1>9, <1>n DEF PhoneMinute, PhoneClockTypeOK
<1>10. CASE PhoneSleeps
  <2>1. \A b \in BOOLEAN : [idleClock EXCEPT !.slept = b] \in IdleClocks BY <1>c DEF IdleClocks
  <2>2. idleClock' \in IdleClocks BY <1>10, <2>1 DEF PhoneSleeps
  <2> QED BY <1>10, <2>2 DEF PhoneSleeps, PhoneClockTypeOK, IdleClocks
<1>11. CASE UNCHANGED phoneClockVars BY <1>11 DEF phoneClockVars, PhoneClockTypeOK
<1> QED BY <1>1, <1>2, <1>3, <1>4, <1>5, <1>6, <1>7, <1>8, <1>9, <1>10, <1>11, <1>a DEF PhoneClockNext

\* A lock that is due stays due: the caller that uses the clock's mark up is
\* itself due to close the vault.  Arming the clock takes the mark away, but not
\* from a caller that has found it.
LEMMA DueStaysDue ==
    ASSUME PhoneClockTypeOK, [PhoneClockNext]_phoneClockVars, Overdue,
           arming # {} /\ arming' = {} => FoundDue
    PROVE  Overdue' \/ ~unlocked'
<1>n. PhoneLimit \in Nat \ {0} BY PhoneClockAssumption
<1>c. idleClock \in IdleClocks BY DEF PhoneClockTypeOK, IdleClocks
<1>g. {"ticker", "touch", "owner"} \subseteq Closers /\ PhoneThreads \subseteq Closers BY DEF Closers
<1>u. unlocked BY DEF Overdue, FoundDue
<1> USE <1>u, <1>g
<1>1. ASSUME NEW w \in PhoneThreads \cup {"ticker"}, AutoLockTick(w) PROVE Overdue' \/ ~unlocked'
  <2>1. w \in Closers /\ closers'[w] = "due" /\ unlocked' BY <1>1 DEF AutoLockTick, PhoneClockTypeOK
  <2> QED BY <2>1 DEF Overdue, FoundDue
<1>2. ASSUME NEW w \in Closers, CloseVault(w) PROVE Overdue' \/ ~unlocked'
  BY <1>2 DEF CloseVault
<1>3. ASSUME NEW w \in Closers, TellLocked(w) PROVE Overdue' \/ ~unlocked'
  BY <1>3 DEF TellLocked, Overdue, FoundDue, DueClock, PhoneClockTypeOK
<1>4. CASE PhoneTouch
  <2>1. CASE DueClock
    <3>1. closers'["touch"] = "due" /\ unlocked' BY <1>4, <2>1 DEF PhoneTouch, PhoneClockTypeOK
    <3> QED BY <3>1 DEF Overdue, FoundDue
  <2>2. CASE ~DueClock
    <3>1. closers' = closers /\ unlocked' = unlocked BY <1>4, <2>2 DEF PhoneTouch
    <3> QED BY <2>2, <3>1 DEF Overdue, FoundDue
  <2> QED BY <2>1, <2>2
<1>5. CASE AskLock
  <2>1. closers'["owner"] = "due" /\ unlocked' BY <1>5 DEF AskLock, PhoneClockTypeOK
  <2> QED BY <2>1 DEF Overdue, FoundDue
<1>6. CASE OpenVault BY <1>6 DEF OpenVault
<1>7. ASSUME NEW l \in {0, PhoneLimit}, SetPhoneLimit(l) PROVE Overdue' \/ ~unlocked'
  BY <1>7 DEF SetPhoneLimit, Overdue, FoundDue, DueClock
<1>a. CASE ArmClock
  <2>1. FoundDue BY <1>a DEF ArmClock
  <2>2. closers' = closers /\ unlocked' = unlocked BY <1>a DEF ArmClock
  <2> QED BY <2>1, <2>2 DEF Overdue, FoundDue
<1>8. CASE DeliverEvent BY <1>8 DEF DeliverEvent, Overdue, FoundDue, DueClock
<1>9. CASE PhoneMinute
  <2>1. DueClock => DueClock' BY <1>9, <1>c, <1>n DEF PhoneMinute, DueClock, IdleClocks
  <2> QED BY <1>9, <2>1 DEF PhoneMinute, Overdue, FoundDue
<1>10. CASE PhoneSleeps
  <2>1. DueClock' BY <1>10, <1>c DEF PhoneSleeps, DueClock, IdleClocks
  <2> QED BY <1>10, <2>1 DEF PhoneSleeps, Overdue, FoundDue
<1>11. CASE UNCHANGED phoneClockVars BY <1>11 DEF phoneClockVars, Overdue, FoundDue, DueClock
<1> QED BY <1>1, <1>2, <1>3, <1>4, <1>5, <1>6, <1>7, <1>8, <1>9, <1>10, <1>11, <1>a DEF PhoneClockNext

-----------------------------------------------------------------------------
(* The bridge's connections.                                                *)

ConnType == [peer : BOOLEAN, reader : {"none", "reading", "sending", "last"}, writer : BOOLEAN,
             box : 0..Outbox, bg : 0..MaxBackground, held : 0..MaxBackground]

\* An outbox never holds more than its bound, nor a connection more requests
\* that wait for the owner than its slots.
ConnInv ==
    /\ registered \subseteq Peers /\ tokens \in 0..BucketSize
    /\ conn \in [Peers -> ConnType]
    /\ \A c \in Peers : conn[c].held <= conn[c].bg

\* No connection is open at the start.
LEMMA ConnStarts == ConnInit => ConnInv
<1> SUFFICES ASSUME ConnInit PROVE ConnInv OBVIOUS
<1>1. BucketSize \in Nat /\ Outbox \in Nat /\ MaxBackground \in Nat BY ConnectionsAssumption
<1>2. \A b \in BOOLEAN : [peer |-> b, reader |-> "none", writer |-> b, box |-> 0, bg |-> 0, held |-> 0] \in ConnType
  BY <1>1 DEF ConnType
<1>3. Closed \in ConnType BY <1>2, Zenon DEF Closed
<1>4. Closed.held <= Closed.bg BY DEF Closed
<1> QED BY <1>1, <1>3, <1>4 DEF ConnInit, ConnInv

\* Readers, writers, background threads and events keep to the bounds.
LEMMA ConnSteps == ConnInv /\ [ConnNext]_connVars => ConnInv'
<1> SUFFICES ASSUME ConnInv, [ConnNext]_connVars PROVE ConnInv' OBVIOUS
<1>n. {BucketSize, Outbox, MaxBackground} \subseteq Nat \ {0} BY ConnectionsAssumption
<1>s. ASSUME NEW c \in Peers, NEW k \in ConnType, k.held <= k.bg, SetConn(c, k)
      PROVE conn' \in [Peers -> ConnType] /\ \A d \in Peers : conn'[d].held <= conn'[d].bg
  BY <1>s DEF SetConn, ConnInv
<1>k. \A c \in Peers : conn[c] \in ConnType /\ conn[c].held <= conn[c].bg BY DEF ConnInv
<1>r. \A c \in Peers : Forget(c) \subseteq Peers BY DEF Forget, ConnInv
<1>b. TRUE \in BOOLEAN /\ FALSE \in BOOLEAN OBVIOUS
<1>1. ASSUME NEW c \in Peers, Accept(c) PROVE ConnInv'
  <2> DEFINE k == [Closed EXCEPT !.peer = TRUE, !.reader = "reading", !.writer = TRUE]
  <2>1. \A q \in ConnType, p, w \in BOOLEAN :
          LET j == [q EXCEPT !.peer = p, !.reader = "reading", !.writer = w]
          IN j \in ConnType /\ j.held = q.held /\ j.bg = q.bg
    BY DEF ConnType
  <2>2. Closed \in ConnType
    <3>1. \A p, w \in BOOLEAN :
            [peer |-> p, reader |-> "none", writer |-> w, box |-> 0, bg |-> 0, held |-> 0] \in ConnType
      BY <1>n DEF ConnType
    <3> QED BY <3>1, Zenon DEF Closed
  <2>3. k \in ConnType /\ k.held = Closed.held /\ k.bg = Closed.bg BY <2>1, <2>2, Zenon
  <2>5. k.held <= k.bg BY <2>3 DEF Closed
  <2> HIDE DEF k
  <2>4. SetConn(c, k) BY <1>1 DEF Accept, k
  <2> QED BY <1>1, <1>s, <2>3, <2>4, <2>5 DEF Accept, ConnInv
<1>2. ASSUME NEW c \in Peers, PeerLeaves(c) PROVE ConnInv'
  <2>1. \A b \in BOOLEAN : LET k == [conn[c] EXCEPT !.peer = b] IN k \in ConnType /\ k.held <= k.bg
    BY <1>k DEF ConnType
  <2> QED BY <1>2, <1>s, <1>b, <2>1 DEF PeerLeaves, ConnInv
<1>3. ASSUME NEW c \in Peers, NEW x \in {"none", "reading", "sending", "last"}
      PROVE LET k == [conn[c] EXCEPT !.reader = x] IN k \in ConnType /\ k.held <= k.bg
  BY <1>k DEF ConnType
<1>4. ASSUME NEW c \in Peers, ReaderEnds(c) PROVE ConnInv'
  BY <1>4, <1>3, <1>s, <1>r DEF ReaderEnds, ConnInv
<1>5. ASSUME NEW c \in Peers, NEW b \in BOOLEAN, ReadRequest(c, b) PROVE ConnInv'
  <2>1. tokens' \in 0..BucketSize BY <1>5, <1>n DEF ReadRequest, ConnInv
  <2> QED BY <1>5, <1>3, <1>s, <2>1 DEF ReadRequest, ConnInv
<1>6. ASSUME NEW c \in Peers, ReadWaiting(c) PROVE ConnInv'
  <2> DEFINE k == IF conn[c].bg < MaxBackground THEN [conn[c] EXCEPT !.bg = @ + 1]
                  ELSE [conn[c] EXCEPT !.reader = "sending"]
  <2>1. conn[c].bg \in 0..MaxBackground /\ conn[c].held \in 0..MaxBackground BY <1>k DEF ConnType
  <2>4. ASSUME conn[c].bg < MaxBackground PROVE k \in ConnType /\ k.held <= k.bg
    <3>1. conn[c].bg + 1 \in 0..MaxBackground /\ conn[c].held <= conn[c].bg + 1 BY <1>k, <1>n, <2>1, <2>4
    <3> QED BY <1>k, <2>4, <3>1 DEF ConnType
  <2>5. ASSUME ~(conn[c].bg < MaxBackground) PROVE k \in ConnType /\ k.held <= k.bg BY <1>3, <2>5
  <2>3. k \in ConnType /\ k.held <= k.bg BY <2>4, <2>5
  <2>2. SetConn(c, k) BY <1>6 DEF ReadWaiting
  <2> HIDE DEF k
  <2> QED BY <1>6, <1>s, <2>2, <2>3 DEF ReadWaiting, ConnInv
<1>7. ASSUME NEW c \in Peers, ReadTooLarge(c) PROVE ConnInv'
  BY <1>7, <1>3, <1>s DEF ReadTooLarge, ConnInv
<1>8. ASSUME NEW c \in Peers, ReaderSends(c) PROVE ConnInv'
  <2>1. CASE conn[c].writer /\ conn[c].reader = "sending"
    <3> DEFINE k == [conn[c] EXCEPT !.reader = "reading", !.box = @ + 1]
    <3>1. conn[c].box < Outbox BY <1>8, <2>1 DEF ReaderSends, CanSend
    <3>4. conn[c].box + 1 \in 0..Outbox BY <1>k, <1>n, <3>1 DEF ConnType
    <3>2. k \in ConnType /\ k.held <= k.bg BY <1>k, <3>4 DEF ConnType
    <3>3. SetConn(c, k) /\ UNCHANGED <<registered, tokens>> BY <1>8, <2>1 DEF ReaderSends
    <3> HIDE DEF k
    <3> QED BY <1>s, <3>2, <3>3 DEF ConnInv
  <2>2. CASE ~(conn[c].writer /\ conn[c].reader = "sending")
    <3> DEFINE n == IF conn[c].writer THEN conn[c].box + 1 ELSE conn[c].box
               k == [conn[c] EXCEPT !.reader = "none", !.box = n]
    <3>1. conn[c].writer => conn[c].box < Outbox BY <1>8 DEF ReaderSends, CanSend
    <3>2. n \in 0..Outbox BY <1>k, <1>n, <3>1 DEF ConnType
    <3>3. SetConn(c, k) /\ registered' = Forget(c) /\ tokens' = tokens BY <1>8, <2>2 DEF ReaderSends
    <3> HIDE DEF n
    <3>4. k \in ConnType /\ k.held <= k.bg BY <1>k, <3>2 DEF ConnType
    <3> HIDE DEF k
    <3> QED BY <1>s, <1>r, <3>3, <3>4 DEF ConnInv
  <2> QED BY <2>1, <2>2
<1>9. ASSUME NEW c \in Peers, BackgroundAnswers(c) PROVE ConnInv'
  <2> DEFINE k == [conn[c] EXCEPT !.held = @ + 1]
  <2>3. conn[c].held + 1 \in 0..MaxBackground /\ conn[c].held + 1 <= conn[c].bg
    BY <1>9, <1>k, <1>n DEF BackgroundAnswers, ConnType
  <2>1. k \in ConnType /\ k.held <= k.bg BY <1>k, <2>3 DEF ConnType
  <2>2. SetConn(c, k) BY <1>9 DEF BackgroundAnswers
  <2> HIDE DEF k
  <2> QED BY <1>9, <1>s, <2>1, <2>2 DEF BackgroundAnswers, ConnInv
<1>10. ASSUME NEW c \in Peers, BackgroundSends(c) PROVE ConnInv'
  <2> DEFINE n == IF conn[c].writer THEN conn[c].box + 1 ELSE conn[c].box
             k == [conn[c] EXCEPT !.bg = @ - 1, !.held = @ - 1, !.box = n]
  <2>1. conn[c].writer => conn[c].box < Outbox BY <1>10 DEF BackgroundSends, CanSend
  <2>2. n \in 0..Outbox BY <1>k, <1>n, <2>1 DEF ConnType
  <2>3. SetConn(c, k) BY <1>10 DEF BackgroundSends
  <2> HIDE DEF n
  <2>5. /\ conn[c].bg - 1 \in 0..MaxBackground /\ conn[c].held - 1 \in 0..MaxBackground
        /\ conn[c].held - 1 <= conn[c].bg - 1
    BY <1>10, <1>k, <1>n DEF BackgroundSends, ConnType
  <2>4. k \in ConnType /\ k.held <= k.bg BY <1>k, <2>2, <2>5 DEF ConnType
  <2> HIDE DEF k
  <2> QED BY <1>10, <1>s, <2>3, <2>4 DEF BackgroundSends, ConnInv
<1>11. ASSUME NEW c \in Peers, Write(c) PROVE ConnInv'
  <2> DEFINE k == [conn[c] EXCEPT !.box = @ - 1]
  <2>4. conn[c].box - 1 \in 0..Outbox /\ 0 \in 0..Outbox BY <1>11, <1>k, <1>n DEF Write, ConnType
  <2>1. k \in ConnType /\ k.held <= k.bg BY <1>k, <2>4 DEF ConnType
  <2>5. \A b \in BOOLEAN, n \in 0..Outbox :
          LET j == [conn[c] EXCEPT !.writer = b, !.box = n] IN j \in ConnType /\ j.held <= j.bg
    BY <1>k DEF ConnType
  <2>2. \A b \in BOOLEAN :
          LET j == [conn[c] EXCEPT !.writer = b, !.box = 0] IN j \in ConnType /\ j.held <= j.bg
    BY <2>4, <2>5
  <2>3. SetConn(c, k) \/ SetConn(c, [conn[c] EXCEPT !.writer = FALSE, !.box = 0]) BY <1>11 DEF Write
  <2> HIDE DEF k
  <2> QED BY <1>11, <1>s, <1>b, <2>1, <2>2, <2>3 DEF Write, ConnInv
<1>12. ASSUME NEW c \in Peers, WriterEnds(c) PROVE ConnInv'
  <2>1. \A a, b \in BOOLEAN :
          LET j == [conn[c] EXCEPT !.writer = a, !.peer = b] IN j \in ConnType /\ j.held <= j.bg
    BY <1>k DEF ConnType
  <2> QED BY <1>12, <1>s, <1>b, <2>1 DEF WriterEnds, ConnInv
<1>13. ASSUME NEW c \in Peers, Reaped(c) PROVE ConnInv'
  <2>1. \A p, w \in BOOLEAN :
          [peer |-> p, reader |-> "none", writer |-> w, box |-> 0, bg |-> 0, held |-> 0] \in ConnType
    BY <1>n DEF ConnType
  <2>2. Closed \in ConnType BY <2>1, Zenon DEF Closed
  <2>3. Closed.held <= Closed.bg BY DEF Closed
  <2> QED BY <1>13, <1>s, <2>2, <2>3 DEF Reaped, ConnInv
<1>14. CASE Notify
  <2>1. ASSUME NEW c \in Peers, CanSend(c)
        PROVE LET k == [conn[c] EXCEPT !.box = @ + 1] IN k \in ConnType /\ k.held <= k.bg
    BY <1>k, <1>n, <2>1 DEF ConnType, CanSend
  <2>2. \A c \in Peers : conn'[c] = IF c \in registered /\ CanSend(c) THEN [conn[c] EXCEPT !.box = @ + 1] ELSE conn[c]
    BY <1>14 DEF Notify
  <2>3. \A c \in Peers : conn'[c] \in ConnType /\ conn'[c].held <= conn'[c].bg BY <1>k, <2>1, <2>2
  <2>4. conn' \in [Peers -> ConnType] BY <1>14, <2>3 DEF Notify
  <2> QED BY <1>14, <2>3, <2>4 DEF Notify, ConnInv
<1>15. CASE Refill BY <1>15, <1>n DEF Refill, ConnInv
<1>16. CASE UNCHANGED connVars BY <1>16 DEF connVars, ConnInv
<1> QED BY <1>1, <1>2, <1>4, <1>5, <1>6, <1>7, <1>8, <1>9, <1>10, <1>11, <1>12, <1>13, <1>14, <1>15, <1>16
    DEF ConnNext, ConnThreads

LEMMA ConnTypes == ConnInv => ConnTypeOK
BY ConnectionsAssumption DEF ConnInv, ConnTypeOK, ConnType

-----------------------------------------------------------------------------
(* Attachments.                                                             *)

ItemType == [rev : 1..MaxItemRev, files : SUBSET Files, deleted : BOOLEAN]
SaveType == [at : {"none", "upload", "stage", "send"}, added : SUBSET Files, removed : SUBSET Files,
             files : SUBSET Files, base : 0..MaxItemRev]
RowNames == {"none", "new", "stale", "committed"}

FileTyped ==
    /\ rows \in [Files -> RowNames] /\ used \in SUBSET Files
    /\ item \in ItemType /\ copy \in [Savers -> ItemType]
    /\ cache \in [Savers -> SUBSET Files] /\ save \in [Savers -> SaveType]
    /\ writer \in Savers \cup {"none"}
    /\ writer # "none" => item.rev < MaxItemRev
    /\ taken \in SUBSET Files

\* The open transaction has counted rows that are still there, or that a sweep
\* took under it.
WriterCounted ==
    \A c \in Savers : writer = c =>
        /\ save[c].at = "send"
        /\ \A f \in save[c].files : rows[f] # "none" \/ f \in taken

DrawnOnce == \A f \in Files : rows[f] # "none" => f \in used

FileInv == DrawnOnce /\ FileTyped /\ WriterCounted /\ ListedIsStored

\* The item starts without files.
LEMMA FilesStart == FileInit => FileTyped /\ (FileTyped => FileInv)
<1> SUFFICES ASSUME FileInit PROVE FileTyped /\ (FileTyped => FileInv) OBVIOUS
<1>1. MaxItemRev \in Nat \ {0} BY AttachmentsAssumption
<1>2. \A b \in BOOLEAN : [rev |-> 1, files |-> {}, deleted |-> b] \in ItemType BY <1>1 DEF ItemType
<1>3. item \in ItemType BY <1>2, Zenon DEF FileInit
<1>4. item.files = {} /\ item.rev = 1 BY DEF FileInit
<1>5. NoSave \in SaveType /\ NoSave.added = {} /\ NoSave.at = "none" BY <1>1 DEF NoSave, SaveType
<1>6. FileTyped BY <1>3, <1>5 DEF FileInit, FileTyped, RowNames
<1>7. WriterCounted BY AttachmentsAssumption DEF FileInit, WriterCounted
<1>8. ListedIsStored BY <1>4 DEF ListedIsStored
<1>9. DrawnOnce BY DEF DrawnOnce, FileInit
<1> QED BY <1>6, <1>7, <1>8, <1>9 DEF FileInv

\* A row that is not the item's is dropped by a write, one that is stays.
LEMMA RowsForType ==
    ASSUME FileTyped, NEW S \in SUBSET Files
    PROVE  /\ RowsFor(S) \in [Files -> {"none", "committed"}] /\ RowsFor(S) \in [Files -> RowNames]
           /\ \A f \in S : rows[f] # "none" => RowsFor(S)[f] = "committed"
BY DEF RowsFor, FileTyped, RowNames

\* An edit of a save keeps its type.
LEMMA SaveEdits ==
    ASSUME FileTyped, NEW c \in Savers
    PROVE  /\ Abandon(c) => save' \in [Savers -> SaveType] /\ save'[c] = NoSave
           /\ NoSave \in SaveType /\ NoSave.at = "none" /\ NoSave.added = {}
           /\ Abandon(c) => \A d \in Savers : d # c => save'[d] = save[d]
<1>1. MaxItemRev \in Nat \ {0} BY AttachmentsAssumption
<1>2. NoSave \in SaveType /\ NoSave.added = {} /\ NoSave.at = "none" BY <1>1 DEF NoSave, SaveType
<1> QED BY <1>2 DEF Abandon, FileTyped

\* Uploads, saves and sweeps keep the types.
LEMMA FilesTyped == FileTyped /\ [FileNext]_fileVars => FileTyped'
<1> SUFFICES ASSUME FileTyped, [FileNext]_fileVars PROVE FileTyped' OBVIOUS
<1>n. MaxItemRev \in Nat \ {0} BY AttachmentsAssumption
<1>1. ASSUME NEW c \in Savers, PullItem(c) PROVE FileTyped'
  BY <1>1 DEF PullItem, FileTyped
<1>2. ASSUME NEW c \in Savers, PutRefused(c) PROVE FileTyped'
  BY <1>2, SaveEdits DEF PutRefused, FileTyped
<1>3. ASSUME NEW c \in Savers, Stage(c) PROVE FileTyped'
  <2> DEFINE files_c == (copy[c].files \ save[c].removed) \cup save[c].added
             k == [save[c] EXCEPT !.at = "send", !.files = files_c, !.base = copy[c].rev]
  <2>0. save[c] \in SaveType /\ copy[c] \in ItemType BY DEF FileTyped
  <2>1. files_c \in SUBSET Files /\ copy[c].rev \in 0..MaxItemRev
    BY <2>0, <1>n DEF SaveType, ItemType
  <2>2. k \in SaveType
    <3> HIDE DEF files_c
    <3> QED BY <2>0, <2>1 DEF SaveType
  <2>3. Abandon(c) \/ save' = [save EXCEPT ![c] = k] BY <1>3, <2>0 DEF Stage, FileTyped
  <2> HIDE DEF k
  <2>4. save' \in [Savers -> SaveType] BY <2>2, <2>3, SaveEdits DEF FileTyped
  <2> QED BY <1>3, <2>4 DEF Stage, FileTyped
<1>4. ASSUME NEW c \in Savers, WriteCounts(c) PROVE FileTyped'
  <2>1. save' \in [Savers -> SaveType] BY <1>4, SaveEdits DEF WriteCounts, FileTyped
  <2> QED BY <1>4, <2>1 DEF WriteCounts, FileTyped
<1>5. ASSUME NEW c \in Savers, WriteCommits(c) PROVE FileTyped'
  <2> DEFINE new == [rev |-> item.rev + 1, files |-> save[c].files, deleted |-> FALSE]
  <2>1. save[c].files \in SUBSET Files /\ item.rev + 1 \in 1..MaxItemRev
    <3>1. writer # "none" BY <1>5, AttachmentsAssumption DEF WriteCommits
    <3> QED BY <3>1, <1>n DEF FileTyped, SaveType, ItemType
  <2>2. \A b \in BOOLEAN, n \in 1..MaxItemRev, S \in SUBSET Files : [rev |-> n, files |-> S, deleted |-> b] \in ItemType
    BY DEF ItemType
  <2>3. new \in ItemType BY <2>1, <2>2, Zenon
  <2>4. item' = new /\ rows' = RowsFor(save[c].files) /\ Abandon(c) /\ writer' = "none"
        /\ UNCHANGED <<used, taken>>
    BY <1>5 DEF WriteCommits
  <2>5. copy' = [copy EXCEPT ![c] = new] \/ copy' = copy BY <1>5 DEF WriteCommits
  <2>6. cache' = [cache EXCEPT ![c] = @ \cap new.files] \/ cache' = cache BY <1>5 DEF WriteCommits
  <2> HIDE DEF new
  <2>7. save' \in [Savers -> SaveType] BY <2>4, SaveEdits
  <2>8. copy' \in [Savers -> ItemType] BY <2>3, <2>5 DEF FileTyped
  <2>9. cache' \in [Savers -> SUBSET Files] BY <2>6 DEF FileTyped
  <2>10. rows' \in [Files -> RowNames] BY <2>1, <2>4, RowsForType
  <2> QED BY <2>3, <2>4, <2>7, <2>8, <2>9, <2>10 DEF FileTyped
<1>6. ASSUME NEW c \in Savers, WriteFails(c) PROVE FileTyped'
  <2>1. save' \in [Savers -> SaveType] BY <1>6, SaveEdits DEF WriteFails, FileTyped
  <2> QED BY <1>6, <2>1 DEF WriteFails, FileTyped
<1>7. ASSUME NEW c \in Savers, WriteOther(c) PROVE FileTyped'
  <2>1. item \in ItemType /\ item.rev + 1 \in 1..MaxItemRev BY <1>7, <1>n DEF WriteOther, FileTyped, ItemType
  <2>2. \A b \in BOOLEAN, n \in 1..MaxItemRev, S \in SUBSET Files : [rev |-> n, files |-> S, deleted |-> b] \in ItemType
    BY DEF ItemType
  <2>3. [rev |-> item.rev + 1, files |-> {}, deleted |-> TRUE] \in ItemType BY <2>1, <2>2, Zenon
  <2>4. [item EXCEPT !.rev = @ + 1] \in ItemType BY <2>1 DEF ItemType
  <2>5. item' \in ItemType BY <1>7, <2>3, <2>4 DEF WriteOther
  <2>6. rows' \in [Files -> RowNames] BY <1>7, RowsForType DEF WriteOther, FileTyped
  <2> QED BY <1>7, <2>5, <2>6 DEF WriteOther, FileTyped
<1>8. ASSUME NEW c \in Savers, NEW removed \in SUBSET Files, BeginSave(c, removed) PROVE FileTyped'
  <2>1. \A x \in {"upload", "stage"} : [NoSave EXCEPT !.at = x, !.removed = removed] \in SaveType
    <3>1. \A k \in SaveType : \A x \in {"upload", "stage"} : [k EXCEPT !.at = x, !.removed = removed] \in SaveType
      BY DEF SaveType
    <3> QED BY <3>1, SaveEdits
  <2>2. \E x \in {"upload", "stage"} : save' = [save EXCEPT ![c] = [NoSave EXCEPT !.at = x, !.removed = removed]]
    BY <1>8 DEF BeginSave
  <2>3. save' \in [Savers -> SaveType] BY <2>1, <2>2 DEF FileTyped
  <2> QED BY <1>8, <2>3 DEF BeginSave, FileTyped
<1>9. ASSUME NEW c \in Savers, NEW f \in Files, Put(c, f) PROVE FileTyped'
  <2> DEFINE k == [save[c] EXCEPT !.at = "stage", !.added = {f}]
  <2>0. save[c] \in SaveType BY DEF FileTyped
  <2>1. k \in SaveType BY <2>0 DEF SaveType
  <2>2. Abandon(c) \/ save' = [save EXCEPT ![c] = k] BY <1>9, <2>0 DEF Put, FileTyped
  <2> HIDE DEF k
  <2>3. save' \in [Savers -> SaveType] BY <2>1, <2>2, SaveEdits DEF FileTyped
  <2>4. rows' \in [Files -> RowNames] /\ cache' \in [Savers -> SUBSET Files] BY <1>9 DEF Put, FileTyped, RowNames
  <2> QED BY <1>9, <2>3, <2>4 DEF Put, FileTyped
<1>10. ASSUME NEW c \in Savers, NEW f \in Files, OpenFile(c, f) PROVE FileTyped'
  BY <1>10 DEF OpenFile, FileTyped
<1>11. ASSUME NEW f \in Files, GrowsStale(f) PROVE FileTyped'
  BY <1>11 DEF GrowsStale, FileTyped, RowNames
<1>12. CASE SweepUploads BY <1>12 DEF SweepUploads, Swept, FileTyped, RowNames
<1>13. CASE UNCHANGED fileVars BY <1>13 DEF fileVars, FileTyped
<1> QED BY <1>1, <1>2, <1>3, <1>4, <1>5, <1>6, <1>7, <1>8, <1>9, <1>10, <1>11, <1>12, <1>13 DEF FileNext

\* Whatever uploads, saves, deletions and sweeps overlap, the listed rows that
\* no sweep took from an open write stay committed.
LEMMA FilesStep == FileInv /\ [FileNext]_fileVars => FileInv'
<1> SUFFICES ASSUME FileInv, [FileNext]_fileVars PROVE FileInv' OBVIOUS
<1>t. FileTyped /\ FileTyped' BY FilesTyped DEF FileInv
<1>v. item.files \subseteq Files /\ \A c \in Savers : save[c].files \subseteq Files
  BY <1>t DEF FileTyped, ItemType, SaveType
<1>m. "none" \notin Savers BY AttachmentsAssumption
<1> USE DEF FileInv, WriterCounted, ListedIsStored, DrawnOnce
<1>1. ASSUME UNCHANGED <<rows, used, item, writer, taken>>,
             \A c \in Savers : writer = c => save'[c] = save[c]
      PROVE  FileInv'
  BY <1>1, <1>t
<1>2. ASSUME NEW c \in Savers, WriteCounts(c) PROVE FileInv'
  <2>1. save[c].at = "send" /\ writer = "none" /\ UNCHANGED <<rows, used, item, taken>> BY <1>2 DEF WriteCounts
  <2>2. CASE UNCHANGED writer BY <1>t, <1>m, <2>1, <2>2
  <2>3. CASE AllKnown(save[c].files) /\ writer' = c /\ UNCHANGED save
    BY <1>t, <2>1, <2>3 DEF AllKnown
  <2> QED BY <1>2, <2>2, <2>3 DEF WriteCounts
<1>3. ASSUME NEW c \in Savers, WriteCommits(c) PROVE FileInv'
  <2>1. /\ item'.files = save[c].files /\ rows' = RowsFor(save[c].files) /\ writer = c
        /\ writer' = "none" /\ UNCHANGED <<used, taken>>
    BY <1>3 DEF WriteCommits
  <2>2. ListedIsStored' BY <1>v, <2>1, <1>t, RowsForType
  <2>3. DrawnOnce' BY <2>1, <1>t DEF RowsFor, FileTyped
  <2>4. WriterCounted' BY <2>1, <1>m
  <2> QED BY <1>t, <2>2, <2>3, <2>4
<1>4. ASSUME NEW c \in Savers, WriteFails(c) PROVE FileInv'
  <2>1. /\ UNCHANGED <<rows, used, item, taken>> /\ writer' # c /\ writer' \in {writer, "none"}
        /\ \A d \in Savers : d # c => save'[d] = save[d]
    BY <1>4, <1>m, <1>t, SaveEdits DEF WriteFails
  <2> QED BY <1>t, <1>m, <2>1
<1>5. ASSUME NEW c \in Savers, WriteOther(c) PROVE FileInv'
  <2>1. writer = "none" /\ UNCHANGED <<used, writer, taken>> BY <1>5 DEF WriteOther
  <2>2. \A f \in Files : rows'[f] = rows[f] \/ rows'[f] = "none"
    BY <1>5, <1>t, RowsForType DEF WriteOther, RowsFor, FileTyped
  <2>3. (item'.files = item.files /\ rows' = rows) \/ item'.files = {}
    BY <1>5, <1>t DEF WriteOther, FileTyped, ItemType
  <2>4. DrawnOnce' BY <2>1, <2>2
  <2>5. ListedIsStored' BY <2>1, <2>3
  <2>6. WriterCounted' BY <2>1, <1>m
  <2> QED BY <1>t, <2>4, <2>5, <2>6
<1>6. ASSUME NEW c \in Savers, NEW f \in Files, Put(c, f) PROVE FileInv'
  <2>1. writer = "none" /\ UNCHANGED <<item, writer, taken>> /\ f \notin used /\ used' = used \cup {f}
    BY <1>6 DEF Put
  <2>2. rows'[f] = "new" /\ \A g \in Files : g # f => rows'[g] = rows[g] BY <1>6, <1>t DEF Put, FileTyped
  <2>3. ListedIsStored' BY <2>1, <2>2, <1>v
  <2>4. WriterCounted' BY <2>1, <1>m
  <2>5. DrawnOnce' BY <2>1, <2>2
  <2> QED BY <1>t, <2>3, <2>4, <2>5
<1>7. ASSUME NEW f \in Files, GrowsStale(f) PROVE FileInv'
  <2>1. rows[f] = "new" /\ UNCHANGED <<used, item, save, writer, taken>> BY <1>7 DEF GrowsStale
  <2>2. rows'[f] = "stale" /\ \A g \in Files : g # f => rows'[g] = rows[g] BY <1>7, <1>t DEF GrowsStale, FileTyped
  <2>3. ListedIsStored' BY <2>1, <2>2, <1>v
  <2>4. WriterCounted' BY <2>1, <2>2, <1>v
  <2>5. DrawnOnce' BY <2>1, <2>2
  <2> QED BY <1>t, <2>3, <2>4, <2>5
<1>8. CASE SweepUploads
  <2>1. UNCHANGED <<used, item, save, writer>> /\ taken \subseteq taken' BY <1>8 DEF SweepUploads
  <2>2. \A g \in Files : rows'[g] = IF rows[g] = "stale" THEN "none" ELSE rows[g] BY <1>8 DEF SweepUploads, Swept
  <2>3. ListedIsStored' BY <2>1, <2>2, <1>v
  <2>4. WriterCounted'
    <3>1. ASSUME NEW c \in Savers, writer = c, NEW f \in save[c].files, rows[f] = "stale" PROVE f \in taken'
      BY <1>8, <1>v, <3>1 DEF SweepUploads, Swept, Counted
    <3> QED BY <2>1, <2>2, <3>1, <1>v
  <2>5. DrawnOnce' BY <2>1, <2>2
  <2> QED BY <1>t, <2>3, <2>4, <2>5
<1>9. CASE UNCHANGED fileVars BY <1>1, <1>9 DEF fileVars
<1>10. ASSUME NEW c \in Savers, PullItem(c) \/ PutRefused(c) \/ Stage(c)
              \/ (\E removed \in SUBSET Files : BeginSave(c, removed)) \/ (\E f \in Files : OpenFile(c, f))
       PROVE  FileInv'
  <2>1. UNCHANGED <<rows, used, item, writer, taken>>
    BY <1>10 DEF PullItem, PutRefused, Stage, BeginSave, OpenFile
  <2>2. \A d \in Savers : d # c => save'[d] = save[d]
    BY <1>10, <1>t DEF PullItem, PutRefused, Stage, BeginSave, OpenFile, Abandon, FileTyped
  <2>3. save' = save \/ save[c].at # "send"
    <3>1. NoSave.at # "send" BY DEF NoSave
    <3> QED BY <1>10, <3>1 DEF PullItem, PutRefused, Stage, BeginSave, OpenFile
  <2> QED BY <1>1, <2>1, <2>2, <2>3
<1> QED BY <1>2, <1>3, <1>4, <1>5, <1>6, <1>7, <1>8, <1>9, <1>10 DEF FileNext

\* Every file the item lists can be downloaded: uploads, saves of any number of
\* devices, lost answers, deletions and the daily sweep may overlap in any
\* order.  The one thing that takes a listed file away is a sweep between the
\* count and the commit of the write that lists it (routes/items.rs
\* apply_attachments, billing/jobs.rs).
THEOREM ListedFilesAreStored == FileSpec => []ListedIsStored
<1>1. FileInit => FileInv BY FilesStart
<1>2. FileInv /\ [FileNext]_fileVars => FileInv' BY FilesStep
<1>3. FileInv => ListedIsStored BY DEF FileInv
<1> QED BY <1>1, <1>2, <1>3, PTL DEF FileSpec

LEMMA FileTypes == FileTyped => FileTypeOK
<1> SUFFICES ASSUME FileTyped PROVE FileTypeOK OBVIOUS
<1>1. \A c \in Savers : save[c] \in SaveType /\ cache[c] \subseteq Files BY DEF FileTyped
<1>2. \A c \in Savers : save[c].added \subseteq Files BY <1>1 DEF SaveType
<1> QED BY <1>1, <1>2 DEF FileTyped, FileTypeOK, ItemType, RowNames

-----------------------------------------------------------------------------
(* A request of the extension on its way.                                   *)

\* There is a request exactly while it is under way.
LEMMA WireSteps == WireTypeOK /\ [WireNext]_wireVars => WireTypeOK'
<1> SUFFICES ASSUME WireTypeOK, [WireNext]_wireVars PROVE WireTypeOK' OBVIOUS
<1> USE DEF WireTypeOK, Stages, Goes
<1>1. CASE Send BY <1>1, WireAssumption DEF Send
<1>2. CASE HostRefuses BY <1>2 DEF HostRefuses
<1>3. CASE HostForwards BY <1>3 DEF HostForwards, HostAccepts
<1>4. CASE HostCannot BY <1>4 DEF HostCannot, HostAccepts
<1>5. CASE DesktopCloses BY <1>5 DEF DesktopCloses
<1>6. CASE HostNotices BY <1>6 DEF HostNotices
<1>7. CASE Dispatch BY <1>7 DEF Dispatch
<1>8. CASE Deliver BY <1>8 DEF Deliver
<1>9. CASE Settled BY <1>9 DEF Settled
<1>10. CASE UNCHANGED wireVars BY <1>10 DEF wireVars
<1> QED BY <1>1, <1>2, <1>3, <1>4, <1>5, <1>6, <1>7, <1>8, <1>9, <1>10 DEF WireNext

-----------------------------------------------------------------------------
(* The parts together.                                                      *)

BackgroundInv ==
    /\ scene \in Scenes
    /\ ConnInv /\ FileTyped /\ WireTypeOK /\ ShellInv /\ ReachInv /\ UpdatesInv /\ PhoneClockTypeOK

LEMMA BackgroundStarts == MCInit => BackgroundInv
<1>1. WireInit => WireTypeOK BY DEF WireInit, WireTypeOK, Stages
<1> QED BY <1>1, ConnStarts, FilesStart, ShellStarts, ReachStarts, UpdatesStart, PhoneClockStarts
    DEF MCInit, BackgroundInv

LEMMA BackgroundSteps == BackgroundInv /\ [MCNext]_allVars => BackgroundInv'
<1> SUFFICES ASSUME BackgroundInv, [MCNext]_allVars PROVE BackgroundInv' OBVIOUS
<1>1. /\ scene' = scene
      /\ [ConnNext]_connVars /\ [FileNext]_fileVars /\ [WireNext]_wireVars /\ [ShellNext]_desktopVars
      /\ [ReachNext]_reachVars /\ [UpdatesNext]_updateVars /\ [PhoneClockNext]_phoneClockVars
  BY DEF MCNext, allVars
<1> QED BY <1>1, ConnSteps, FilesTyped, WireSteps, ShellSteps, ReachSteps, UpdatesStep, PhoneClockSteps
    DEF BackgroundInv

\* Every part that runs beside the vault keeps its types, and with them its
\* bounds: an outbox, the slots of a connection, the codes and files held.
THEOREM BackgroundTyped == MCSpec => []TypesOK
<1>1. BackgroundInv => TypesOK
  BY ConnTypes, FileTypes, ShellTypes, ReachTypes, UpdatesTypes DEF BackgroundInv, TypesOK, Scenes
<1> QED BY <1>1, BackgroundStarts, BackgroundSteps, PTL DEF MCSpec

\* What the desktop keeps beside the vault belongs to the vault that is open,
\* for any number of commands, requests and openings: no code or file outlives
\* the locks under way, no session a lock overtook is used by a later opening,
\* an idle lock counts the time of its own session, and the update on offer is
\* the one an install takes (state.rs, account.rs, updater.rs).
THEOREM DesktopStaysInStep == MCSpec => []DesktopInStep
<1>1. BackgroundInv => DesktopInStep
  BY ShellTypes, ReachTypes, UpdatesTypes DEF BackgroundInv, DesktopInStep
<1> QED BY <1>1, BackgroundStarts, BackgroundSteps, PTL DEF MCSpec

\* No step of the shell clears a text that the owner copied elsewhere.
LEMMA UserTextKept ==
    ASSUME ShellInv, [ShellNext]_desktopVars, clip.text = UserText
    PROVE  clip'.text # NoText
<1>0. /\ clip \in ClipType /\ UserText # NoText /\ OwnText # NoText
      /\ \A works \in BOOLEAN : Cleared(clip, works).text = UserText
  <2>1. clip \in ClipType BY DEF ShellInv, ShellTyped
  <2> QED BY <2>1, Clearing DEF UserText, NoText, OwnText
<1>1. CASE clip' = clip BY <1>0, <1>1
<1>2. CASE \E works \in BOOLEAN : clip' = Cleared(clip, works) BY <1>0, <1>2
<1>3. CASE \E t \in Threads : CopyText(t) BY <1>0, <1>3 DEF CopyText
<1>4. CASE UserCopies BY <1>4 DEF UserCopies
<1>5. \/ clip' = clip \/ (\E works \in BOOLEAN : clip' = Cleared(clip, works))
      \/ (\E t \in Threads : CopyText(t)) \/ UserCopies
  <2>1. ASSUME NEW t \in Threads,
               \/ LockNow(t) \/ CopySecret(t) \/ CopyGenerated(t) \/ CopyFails(t) \/ ScanScreen(t)
               \/ PickFiles(t) \/ HoldFiles(t) \/ (\E found \in BOOLEAN : StoreScan(t, found))
               \/ (\E uses, online \in BOOLEAN : SaveItem(t, uses, online))
               \/ (\E saved \in BOOLEAN : SaveEnds(t, saved))
        PROVE  clip' = clip
    BY <2>1 DEF LockNow, CopySecret, CopyGenerated, CopyFails, ScanScreen, PickFiles, HoldFiles, StoreScan,
                SaveItem, SaveEnds, clipVars
  <2>2. ASSUME \/ UnlockVault \/ RecordActivity \/ (\E n \in {0, IdleLimit} : SetAutoLock(n)) \/ ScanExpires
               \/ DiscardFiles \/ (\E b \in BOOLEAN : PollSession(b) \/ TimePasses(b)) \/ DesktopTick \/ AutoLock
               \/ UNCHANGED desktopVars
        PROVE  clip' = clip
    BY <2>2 DEF UnlockVault, RecordActivity, SetAutoLock, ScanExpires, DiscardFiles, PollSession, TimePasses,
                DesktopTick, AutoLock, desktopVars, clipVars
  <2>3. ASSUME NEW l, ClearAfterLock(l) PROVE \E works \in BOOLEAN : clip' = Cleared(clip, works)
    BY <2>3 DEF ClearAfterLock
  <2>4. ASSUME NEW g \in timers, TimerFires(g)
        PROVE  clip' = clip \/ \E works \in BOOLEAN : clip' = Cleared(clip, works)
    BY <2>4 DEF TimerFires, AfterTimer
  <2> QED BY <2>1, <2>2, <2>3, <2>4 DEF ShellNext, TickerSteps
<1> QED BY <1>1, <1>2, <1>3, <1>4, <1>5

\* Neither a clearing thread nor a lock takes the owner's own text, and no touch,
\* tick or other call takes a lock that is due from an open vault, for any number
\* of threads, copies and callers; update_settings does when it arms the clock,
\* whatever the limit, unless a caller has found the lock due (clipboard.rs
\* clear_if_owned, mobile events.rs and settings.rs).
THEOREM OwnersThingsAreKept == MCSpec => OwnersThingsStay
<1>1. BackgroundInv /\ [MCNext]_allVars => [clip.text = UserText => clip'.text # NoText]_clip
  <2> SUFFICES ASSUME BackgroundInv, [MCNext]_allVars, clip.text = UserText PROVE clip'.text # NoText OBVIOUS
  <2>1. ShellInv /\ [ShellNext]_desktopVars BY DEF BackgroundInv, MCNext, allVars
  <2> QED BY <2>1, UserTextKept
<1>2. BackgroundInv /\ [MCNext]_allVars =>
        [Overdue /\ (arming # {} /\ arming' = {} => FoundDue) => Overdue' \/ ~unlocked']_phoneClockVars
  <2> SUFFICES ASSUME BackgroundInv, [MCNext]_allVars, Overdue,
                      arming # {} /\ arming' = {} => FoundDue
               PROVE Overdue' \/ ~unlocked'
    OBVIOUS
  <2>1. PhoneClockTypeOK /\ [PhoneClockNext]_phoneClockVars BY DEF BackgroundInv, MCNext, allVars
  <2> QED BY <2>1, DueStaysDue
<1> QED BY <1>1, <1>2, BackgroundStarts, BackgroundSteps, PTL
    DEF MCSpec, OwnersThingsStay, UserTextStays, OverdueStaysDue
=============================================================================
