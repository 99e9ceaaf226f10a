------------------------- MODULE MCAppsBackground --------------------------
(* What runs beside the vault, on small instances: the bridge's connections *)
(* and messages, attachments and their sweep, the desktop's clocks and  *)
(* updates, the session, and the phone's clock.  A behaviour is one     *)
(* part at work: scene says which, and the others rest where they start.    *)
EXTENDS Connections, Attachments, Wire, Shell, Reach, Updates, PhoneClock

VARIABLE scene

Scenes == {"connections", "attachments", "wire", "shell", "reach", "updates", "clock"}

allVars == <<scene, connVars, fileVars, wireVars, desktopVars, reachVars, updateVars,
             phoneClockVars>>

-----------------------------------------------------------------------------
(* One part at work, the others at rest.                                    *)

\* Bounds besides those of the parts: a device's cache holds one file at a time and
\* one of the devices removes files, the desktop does not hold scanned codes and
\* picked files at the same time, nor either while a copy waits to be cleared,
\* and next to the phone's ticker one other caller at a time is closing the vault.
FileBound ==
  /\ \A c \in Savers : Cardinality(cache'[c]) <= 1
  /\ save'["d"].removed = {}
ShellBound ==
  /\ scans' = <<>> \/ files' = {}
  /\ timers' # {} => scans' = <<>> /\ files' = {}
ClockBound == Cardinality({w \in Closers \ {"ticker"} : closers'[w] # "no"}) <= 1

Resting(part, choice) == IF scene = part THEN TRUE ELSE choice

MCInit ==
  /\ scene \in Scenes
  /\ ConnInit /\ FileInit /\ WireInit /\ ShellInit /\ PhoneClockInit
  /\ ReachInit /\ Resting("reach", answering)
  /\ UpdatesInit /\ Resting("updates", autoCheck.memory)

MCNext ==
  \/ /\ scene = "connections" /\ ConnNext
     /\ UNCHANGED <<scene, fileVars, wireVars, desktopVars, reachVars, updateVars, phoneClockVars>>
  \/ /\ scene = "attachments" /\ FileNext /\ FileBound
     /\ UNCHANGED <<scene, connVars, wireVars, desktopVars, reachVars, updateVars, phoneClockVars>>
  \/ /\ scene = "wire" /\ WireNext
     /\ UNCHANGED <<scene, connVars, fileVars, desktopVars, reachVars, updateVars, phoneClockVars>>
  \/ /\ scene = "shell" /\ ShellNext /\ ShellBound
     /\ UNCHANGED <<scene, connVars, fileVars, wireVars, reachVars, updateVars, phoneClockVars>>
  \/ /\ scene = "reach" /\ ReachNext
     /\ UNCHANGED <<scene, connVars, fileVars, wireVars, desktopVars, updateVars, phoneClockVars>>
  \/ /\ scene = "updates" /\ UpdatesNext
     /\ UNCHANGED <<scene, connVars, fileVars, wireVars, desktopVars, reachVars, phoneClockVars>>
  \/ /\ scene = "clock" /\ PhoneClockNext /\ ClockBound
     /\ UNCHANGED <<scene, connVars, fileVars, wireVars, desktopVars, reachVars, updateVars>>

\* The fairness that each part asks for, while it is the part at work.
At(part) == scene = part

MCFairness ==
  /\ \A c \in Peers : WF_connVars(At("connections") /\ ConnThreads(c))
  /\ WF_fileVars(At("attachments") /\ SweepUploads)
  /\ \A f \in Files : WF_fileVars(At("attachments") /\ GrowsStale(f))
  /\ \A c \in Savers : /\ WF_fileVars(At("attachments") /\ PutRefused(c))
                       /\ WF_fileVars(At("attachments") /\ Stage(c))
                       /\ SF_fileVars(At("attachments") /\ WriteCounts(c))
                       /\ WF_fileVars(At("attachments") /\ WriteCommits(c))
  /\ WF_wireVars(At("wire") /\ HostRefuses) /\ WF_wireVars(At("wire") /\ HostForwards)
  /\ WF_wireVars(At("wire") /\ HostCannot) /\ WF_wireVars(At("wire") /\ HostNotices)
  /\ WF_wireVars(At("wire") /\ Dispatch) /\ WF_wireVars(At("wire") /\ Deliver)
  /\ WF_desktopVars(At("shell") /\ TickerSteps)
  /\ WF_desktopVars(At("shell") /\ \E g \in 1..MaxCopies : TimerFires(g))
  /\ WF_desktopVars(At("shell") /\ TimePasses(FALSE))
  /\ \A t \in Threads : WF_desktopVars(At("shell") /\ ClearAfterLock(t))
  /\ WF_reachVars(At("reach") /\ IntervalPasses) /\ WF_reachVars(At("reach") /\ DropsSession)
  /\ WF_reachVars(At("reach") /\ \E a \in Asks : PullStarts(a))
  /\ \A a \in Asks :
        WF_reachVars(At("reach") /\ \E b \in BOOLEAN : ConnectEnds(a, b) \/ RequestEnds(a, b))
  /\ WF_updateVars(At("updates") /\ FetchFails) /\ WF_updateVars(At("updates") /\ FinishCheck)
  /\ WF_updateVars(At("updates") /\ CheckPublishes) /\ WF_updateVars(At("updates") /\ TakeOffer)
  /\ WF_updateVars(At("updates") /\ DownloadEnds(FALSE))
  /\ WF_updateVars(At("updates") /\ InstallFails) /\ WF_updateVars(At("updates") /\ InstallPublishes)
  /\ WF_phoneClockVars(At("clock") /\ AutoLockTick("ticker"))
  /\ WF_phoneClockVars(At("clock") /\ DeliverEvent)
  /\ \A w \in Closers : /\ WF_phoneClockVars(At("clock") /\ CloseVault(w))
                        /\ WF_phoneClockVars(At("clock") /\ TellLocked(w))

MCSpec == MCInit /\ [][MCNext]_allVars /\ MCFairness

-----------------------------------------------------------------------------
\* The variables of the part at work have their types.
TypesOK == CASE scene = "connections" -> ConnTypeOK [] scene = "attachments" -> FileTypeOK
             [] scene = "wire" -> WireTypeOK [] scene = "shell" -> ShellTypeOK
             [] scene = "reach" -> ReachTypeOK [] scene = "updates" -> UpdatesTypeOK
             [] scene = "clock" -> PhoneClockTypeOK

\* What was promised can be delivered: a listed file is stored unless the sweep
\* took it from the save that counted it, and an answer fits the frame it is
\* sent in, one with too long an account excepted (routes/items.rs,
\* billing/jobs.rs; bridge server.rs, protocol message.rs).
DeliveredAsPromised == ListedIsStored /\ AnswersFit

\* What the desktop keeps beside the vault belongs to the vault that is open:
\* scans, files, the idle clock, the session, the update on offer (state.rs,
\* account.rs, client.rs, updater.rs).
DesktopInStep ==
  LockedHoldsNothing /\ IdleIsMeasured /\ SessionOfThisOpening /\ OfferIsHeld

\* No timer, tick or touch takes away what is the owner's: text copied
\* elsewhere, the lock that is due, as long as the settings are not stored in
\* between (clipboard.rs, mobile events.rs and settings.rs).
OwnersThingsStay == UserTextStays /\ OverdueStaysDue

\* What came in leaves again: a connection whose peer left, an upload nobody
\* claimed, a request of the extension whose answer the host forwards (bridge
\* server.rs, billing/jobs.rs, native-host lib.rs).
ServicesFinish == GoneIsForgotten /\ UploadsEnd /\ RequestsAreAnswered

\* What the app owes its owner happens: the copied secret is cleared unless the
\* system refuses it, the idle vault locks, a lost server is found again, an
\* update ends, a lock is shown.
AppsFinish == CopiedIsCleared /\ IdleLocks /\ Reconnects /\ UpdatesEnd /\ LockIsShown
=============================================================================
