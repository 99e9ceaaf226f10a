------------------------------- MODULE Shell -------------------------------
(***************************************************************************)
(* The desktop shell around an open vault: the auto-lock thread with its   *)
(* idle and suspend clocks, a lock and what it clears, the clipboard with  *)
(* its delayed clearing, codes scanned from the screen and files picked    *)
(* for an item that is still being edited.  A command reads the vault      *)
(* under its mutex; what it does after it has let the mutex go is a step   *)
(* of its own.                                                             *)
(***************************************************************************)
EXTENDS Naturals, Sequences, FiniteSets

CONSTANTS Threads,          \* commands running at the same time
          IdleLimit,        \* auto_lock_minutes, in passages of the clock
          MaxCopies, MaxFiles,
          MaxHeld           \* scanned codes kept

ASSUME ShellAssumption ==
    /\ {IdleLimit, MaxHeld} \subseteq Nat \ {0}
    /\ {MaxCopies, MaxFiles} \subseteq Nat

VARIABLES open,             \* the vault is unlocked
          clock,            \* LockManager, and how long the vault is open
          clip,             \* the system clipboard and the guard's record; history:
                            \* did the system refuse to clear what it holds?
          timers,           \* copies whose clearing thread still sleeps
          scans, files,     \* ScanSlot, PendingFiles
          doing,            \* [Threads -> the command after its guarded part]
          locking,          \* [Threads and the ticker -> where their lock is]
          ticker            \* where the auto-lock thread is

desktopVars == <<open, clock, clip, timers, scans, files, doing, locking, ticker>>
clipVars == <<clip, timers>>

Lockers == Threads \cup {"ticker"}
NoText == "none"
OwnText == "secret"             \* a value HavenKeys put there
UserText == "user"              \* what the owner copied elsewhere

AtRest == [what |-> "nothing"]

ShellInit ==
    /\ open = FALSE
    /\ clock = [limit |-> IdleLimit, idle |-> 0, slept |-> FALSE, opened |-> 0]
    /\ clip = [text |-> NoText, gen |-> 0, owned |-> FALSE, refused |-> FALSE]
    /\ timers = {}
    /\ scans = <<>> /\ files = {}
    /\ doing = [t \in Threads |-> AtRest]
    /\ locking = [l \in Lockers |-> "no"]
    /\ ticker = "asleep"

Calm(t) == doing[t] = AtRest /\ locking[t] = "no"
Does(t, r) == doing' = [doing EXCEPT ![t] = r]

-----------------------------------------------------------------------------
\* reset: the idle clock and the suspend detector start again.
Restarted(c) == [c EXCEPT !.idle = 0, !.slept = FALSE]

\* The unlocked event arms the clock under the guard that opens the vault.
Opened == [Restarted(clock) EXCEPT !.opened = 0]

UnlockVault ==
    /\ ~open /\ open' = TRUE
    /\ clock' = Opened
    /\ UNCHANGED <<clipVars, scans, files, doing, locking, ticker>>

Touch == clock' = [clock EXCEPT !.idle = 0]

\* record_activity, called by every command the owner starts.
RecordActivity ==
    /\ open /\ clock.idle > 0 /\ Touch
    /\ UNCHANGED <<open, clipVars, scans, files, doing, locking, ticker>>

\* update_settings: the limit is set (0: never) and the clock is armed again,
\* whatever the limit was.
SetAutoLock(limit) ==
    /\ open
    /\ clock' = Restarted([clock EXCEPT !.limit = limit])
    /\ UNCHANGED <<open, clipVars, scans, files, doing, locking, ticker>>

-----------------------------------------------------------------------------
\* A lock closes the vault, and tells the shell after it has released it.
LockVault(l) ==
    /\ locking[l] = "no"
    /\ open' = FALSE
    /\ locking' = [locking EXCEPT ![l] = "vault"]

\* clear_if_owned: only a value put there, and only if it is still there.  The
\* record is given up first: when the system does not let the clipboard be
\* read or cleared the value stays, and nobody tries again.
Cleared(c, works) ==
    LET ours == c.owned /\ c.text = OwnText
    IN  [c EXCEPT !.text = IF ours /\ works THEN NoText ELSE @, !.owned = FALSE,
                  !.refused = @ \/ (ours /\ ~works)]

ClearAfterLock(l) ==
    /\ locking[l] = "vault"
    /\ locking' = [locking EXCEPT ![l] = "no"]
    /\ \E works \in BOOLEAN : clip' = Cleared(clip, works)
    /\ scans' = <<>> /\ files' = {}
    /\ UNCHANGED <<open, clock, timers, doing, ticker>>

\* lock_vault, the tray, the extension, the last window, an update.
LockNow(t) ==
    /\ Calm(t) /\ LockVault(t)
    /\ UNCHANGED <<clock, clipVars, scans, files, doing, ticker>>

-----------------------------------------------------------------------------
\* copy_from_vault reads under the guard and copies after it.
CopySecret(t) ==
    /\ Calm(t) /\ open /\ clip.gen < MaxCopies
    /\ Touch
    /\ Does(t, [what |-> "copy"])
    /\ UNCHANGED <<open, clipVars, scans, files, locking, ticker>>

\* copy_generated_password needs no open vault.
CopyGenerated(t) ==
    /\ Calm(t) /\ clip.gen < MaxCopies
    /\ Touch
    /\ Does(t, [what |-> "copy"])
    /\ UNCHANGED <<open, clipVars, scans, files, locking, ticker>>

\* ClipboardGuard::copy: a new generation, and a thread that clears it.
CopyText(t) ==
    /\ doing[t].what = "copy" /\ clip.gen < MaxCopies
    /\ clip' = [text |-> OwnText, gen |-> clip.gen + 1, owned |-> TRUE, refused |-> FALSE]
    /\ timers' = timers \cup {clip.gen + 1}
    /\ Does(t, AtRest)
    /\ UNCHANGED <<open, clock, scans, files, locking, ticker>>

\* The system refuses the clipboard: nothing of the guard's record changes.
CopyFails(t) ==
    /\ doing[t].what = "copy"
    /\ Does(t, AtRest)
    /\ UNCHANGED <<open, clock, clipVars, scans, files, locking, ticker>>

UserCopies ==
    /\ clip.text # UserText
    /\ clip' = [clip EXCEPT !.text = UserText, !.refused = FALSE]
    /\ UNCHANGED <<open, clock, timers, scans, files, doing, locking, ticker>>

\* Mutant of AfterTimer: the generations are compared the wrong way.
AfterOldTimer(g, works) == IF g < clip.gen THEN Cleared(clip, works) ELSE clip

\* Only the timer of the latest copy clears.
AfterTimer(g, works) == IF g = clip.gen THEN Cleared(clip, works) ELSE clip

TimerFires(g) ==
    /\ g \in timers
    /\ timers' = timers \ {g}
    /\ \E works \in BOOLEAN : clip' = AfterTimer(g, works)
    /\ UNCHANGED <<open, clock, scans, files, doing, locking, ticker>>

-----------------------------------------------------------------------------
\* scan_totp_qr looks at the clipboard and the screens for as long as it takes.
ScanScreen(t) ==
    /\ Calm(t) /\ open /\ Touch
    /\ \A u \in Threads : doing[u].what # "scan"
    /\ Does(t, [what |-> "scan"])
    /\ UNCHANGED <<open, clipVars, scans, files, locking, ticker>>

\* Mutant of Newest: nothing is let go.
EveryScan(s) == s

\* The oldest code goes when more are held than MAX_HELD.
Newest(s) == IF Len(s) > MaxHeld THEN Tail(s) ELSE s

\* Mutant of Storable: the vault is not asked again after the scan.
StorableOnce == TRUE

\* The guard is held while the codes are stored.
Storable == open

\* store_totp_scan, or nothing was found on the screens.
StoreScan(t, found) ==
    /\ doing[t].what = "scan"
    /\ Does(t, AtRest)
    /\ scans' = IF found /\ Storable
                  THEN Newest(Append(scans, [fresh |-> TRUE])) ELSE scans
    /\ UNCHANGED <<open, clock, clipVars, files, locking, ticker>>

\* SCAN_TTL passes.
ScanExpires ==
    /\ \E i \in 1..Len(scans) : scans[i].fresh
    /\ scans' = [i \in 1..Len(scans) |-> [fresh |-> FALSE]]
    /\ UNCHANGED <<open, clock, clipVars, files, doing, locking, ticker>>

\* pick_files opens a dialog, and holds what was picked if the vault is open.
PickFiles(t) ==
    /\ Calm(t) /\ open /\ Touch
    /\ \A u \in Threads : doing[u].what # "pick"
    /\ Does(t, [what |-> "pick"])
    /\ UNCHANGED <<open, clipVars, scans, files, locking, ticker>>

HoldFiles(t) ==
    /\ doing[t].what = "pick"
    /\ Does(t, AtRest)
    /\ files' = IF Storable THEN files \cup 1..MaxFiles ELSE files
    /\ UNCHANGED <<open, clock, clipVars, scans, locking, ticker>>

DiscardFiles ==
    /\ files # {} /\ files' = {}
    /\ UNCHANGED <<open, clock, clipVars, scans, doing, locking, ticker>>

\* The codes an item refers to by token are put in its place, if they are
\* still held and fresh.
Resolved(usesScan) == usesScan => Len(scans) > 0 /\ scans[Len(scans)].fresh

\* save_item: the files are taken first and are gone whatever comes next; an
\* expired or cleared scan refuses the save.  Online and open only.
SaveItem(t, usesScan, online) ==
    /\ Calm(t)
    /\ files' = {}
    /\ Touch
    /\ IF open /\ online /\ Resolved(usesScan)
         THEN Does(t, [what |-> "save", scan |-> usesScan]) ELSE UNCHANGED doing
    /\ UNCHANGED <<open, clipVars, scans, locking, ticker>>

\* A saved scan is cleared; a save that failed keeps it for another try.
SaveEnds(t, saved) ==
    /\ doing[t].what = "save"
    /\ Does(t, AtRest)
    /\ scans' = IF saved /\ doing[t].scan THEN <<>> ELSE scans
    /\ UNCHANGED <<open, clock, clipVars, files, locking, ticker>>

-----------------------------------------------------------------------------
\* The auto-lock thread: the screen lock, then the two clocks.
PollSession(screenLocked) ==
    /\ ticker = "asleep" /\ locking["ticker"] = "no"
    /\ ticker' = "tick"
    /\ IF screenLocked THEN LockVault("ticker") ELSE UNCHANGED <<open, locking>>
    /\ UNCHANGED <<clock, clipVars, scans, files, doing>>

\* tick: a wall clock that ran ahead means the machine slept.
TickReason == IF clock.slept THEN "suspend"
              ELSE IF clock.limit > 0 /\ clock.idle >= clock.limit THEN "idle" ELSE "none"

\* auto_lock_tick decides under the guard and locks after it.
DesktopTick ==
    /\ ticker = "tick" /\ locking["ticker"] = "no"
    /\ ticker' = IF open /\ TickReason # "none" THEN TickReason ELSE "asleep"
    /\ clock' = IF open THEN [clock EXCEPT !.slept = FALSE] ELSE clock
    /\ UNCHANGED <<open, clipVars, scans, files, doing, locking>>

AutoLock ==
    /\ ticker \in {"idle", "suspend"} /\ LockVault("ticker")
    /\ ticker' = "asleep"
    /\ UNCHANGED <<clock, clipVars, scans, files, doing>>

\* Time passes, or the machine is suspended.
TimePasses(suspended) ==
    /\ clock' = [clock EXCEPT !.idle = IF @ < IdleLimit THEN @ + 1 ELSE @,
                              !.opened = IF @ < IdleLimit THEN @ + 1 ELSE @,
                              !.slept = @ \/ suspended]
    /\ clock' # clock
    /\ UNCHANGED <<open, clipVars, scans, files, doing, locking, ticker>>

-----------------------------------------------------------------------------
TickerSteps ==
    \/ \E b \in BOOLEAN : PollSession(b)
    \/ DesktopTick \/ AutoLock \/ ClearAfterLock("ticker")

ShellNext ==
    \/ UnlockVault \/ RecordActivity
    \/ \E n \in {0, IdleLimit} : SetAutoLock(n)
    \/ \E t \in Threads :
         \/ LockNow(t) \/ CopySecret(t) \/ CopyGenerated(t) \/ CopyText(t) \/ CopyFails(t)
         \/ ScanScreen(t) \/ PickFiles(t) \/ HoldFiles(t)
         \/ \E found \in BOOLEAN : StoreScan(t, found)
         \/ \E uses, online \in BOOLEAN : SaveItem(t, uses, online)
         \/ \E saved \in BOOLEAN : SaveEnds(t, saved)
         \/ ClearAfterLock(t)
    \/ UserCopies \/ ScanExpires \/ DiscardFiles
    \/ \E g \in timers : TimerFires(g)
    \/ TickerSteps
    \/ \E b \in BOOLEAN : TimePasses(b)

\* The auto-lock thread loops for ever, a sleeping thread wakes, a lock that
\* began ends, and time passes.
ShellFairness ==
    /\ WF_desktopVars(TickerSteps)
    /\ WF_desktopVars(\E g \in 1..MaxCopies : TimerFires(g))
    /\ WF_desktopVars(TimePasses(FALSE))
    /\ \A t \in Threads : WF_desktopVars(ClearAfterLock(t))

ShellSpec == ShellInit /\ [][ShellNext]_desktopVars /\ ShellFairness

-----------------------------------------------------------------------------
ShellTypeOK ==
    /\ open \in BOOLEAN
    /\ clock \in [limit : {0, IdleLimit}, idle : 0..IdleLimit, slept : BOOLEAN, opened : 0..IdleLimit]
    /\ clip \in [text : {NoText, OwnText, UserText}, gen : 0..MaxCopies, owned : BOOLEAN,
                refused : BOOLEAN]
    /\ timers \subseteq 1..MaxCopies
    /\ Len(scans) <= MaxHeld /\ files \subseteq 1..MaxFiles
    /\ \A t \in Threads : doing[t].what \in {"nothing", "copy", "scan", "pick", "save"}
    /\ locking \in [Lockers -> {"no", "vault"}]
    /\ ticker \in {"asleep", "tick", "idle", "suspend"}

\* A locked vault leaves no scanned code and no picked file in memory once
\* the locks under way have ended, however the scan, the dialog and the lock
\* overlap (the order store_totp_scan and pick_files keep with lock()).
LockedHoldsNothing ==
    ~open /\ (\A l \in Lockers : locking[l] = "no") => scans = <<>> /\ files = {}

\* An idle lock counts the time of the session it closes: the auto-lock
\* clock is armed before it can tick against the previous session.
IdleIsMeasured == open /\ ticker = "tick" /\ TickReason = "idle" => clock.opened >= clock.limit

\* What the owner copied from elsewhere is never cleared, neither by a
\* clearing thread nor by a lock (clear_if_owned).
UserTextStays == [][clip.text = UserText => clip'.text # NoText]_clip

\* A value HavenKeys copied leaves the clipboard: the thread of the latest
\* copy clears it, whichever copies and locks came between.  Only a system
\* that refuses the clipboard when its turn comes keeps the value there, and
\* then for good (clear_if_owned ignores both errors).
CopiedIsCleared == clip.text = OwnText ~> clip.text # OwnText \/ clip.refused

\* A vault nobody uses is locked, unless the owner set the limit to never.
IdleLocks ==
    <>[][clock'.idle >= clock.idle /\ (open' => open)]_<<clock, open>>
      => <>[](open => clock.limit = 0)
=============================================================================
