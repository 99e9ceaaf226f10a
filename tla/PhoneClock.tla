----------------------------- MODULE PhoneClock -----------------------------
(***************************************************************************)
(* The Android bindings around an open vault: the idle clock, the callers  *)
(* that find a lock due and lock after they have released the vault, and   *)
(* the thread that hands the app the vault's events one after the other.   *)
(***************************************************************************)
EXTENDS Naturals, Sequences, FiniteSets

CONSTANTS PhoneThreads,     \* calls of the app that read the vault
          PhoneLimit, MaxEvents

ASSUME PhoneClockAssumption == PhoneLimit \in Nat \ {0} /\ MaxEvents \in Nat

VARIABLES unlocked,         \* the vault is open
          idleClock,        \* LockClock: the limit, idle time, slept
          arming,           \* the limit update_settings is about to arm the clock with
          closers,          \* who found a lock due, or closed and not yet said so
          pump,             \* EventPump: events on their way to the app
          believed          \* what the app last heard of the lock

phoneClockVars == <<unlocked, idleClock, arming, closers, pump, believed>>

Closers == PhoneThreads \cup {"ticker", "touch", "owner"}

PhoneClockInit ==
    /\ unlocked = FALSE /\ believed = FALSE /\ pump = <<>> /\ arming = {}
    /\ idleClock = [limit |-> PhoneLimit, idle |-> 0, slept |-> FALSE]
    /\ closers = [w \in Closers |-> "no"]

\* LockManager::tick: asleep for long, or idle for the limit.
DueClock == idleClock.slept \/ (idleClock.limit > 0 /\ idleClock.idle >= idleClock.limit)
TickedClock == [idleClock EXCEPT !.slept = FALSE]
ArmedClock(limit) == [limit |-> limit, idle |-> 0, slept |-> FALSE]

\* auto_lock_tick, by the ticker and by unlocked() at the start of every call that
\* reads the vault: it decides under the guard and locks after it.
AutoLockTick(who) ==
    /\ unlocked /\ DueClock /\ closers[who] = "no"
    /\ closers' = [closers EXCEPT ![who] = "due"]
    /\ idleClock' = TickedClock
    /\ UNCHANGED <<unlocked, pump, believed, arming>>

\* LockClock::touch: a late interaction is no activity.
Touched == IF DueClock THEN TickedClock ELSE [idleClock EXCEPT !.idle = 0]

\* Mutant of PhoneTouch: an interaction is activity even when the lock is due.
TouchRecords ==
    /\ closers["touch"] = "no" /\ (idleClock.idle > 0 \/ idleClock.slept)
    /\ idleClock' = ArmedClock(idleClock.limit)
    /\ UNCHANGED <<unlocked, closers, pump, believed, arming>>

PhoneTouch ==
    /\ closers["touch"] = "no" /\ (idleClock.idle > 0 \/ idleClock.slept)
    /\ closers' = IF DueClock /\ unlocked THEN [closers EXCEPT !["touch"] = "due"] ELSE closers
    /\ idleClock' = Touched
    /\ UNCHANGED <<unlocked, pump, believed, arming>>

\* EventPump::send.
Sent(e) == Append(pump, e)

\* lock by the owner, or because the screen was turned off.
AskLock ==
    /\ unlocked /\ closers["owner"] = "no" /\ closers' = [closers EXCEPT !["owner"] = "due"]
    /\ UNCHANGED <<unlocked, idleClock, pump, believed, arming>>

\* client.lock closes the vault, and tells the app after it released it.
CloseVault(w) ==
    /\ closers[w] = "due"
    /\ unlocked' = FALSE
    /\ closers' = [closers EXCEPT ![w] = IF unlocked THEN "closed" ELSE "no"]
    /\ UNCHANGED <<idleClock, pump, believed, arming>>

TellLocked(w) ==
    /\ closers[w] = "closed" /\ closers' = [closers EXCEPT ![w] = "no"]
    /\ pump' = Sent("locked")
    /\ UNCHANGED <<unlocked, idleClock, believed, arming>>

\* The limit the settings hold, which the clock has or is about to get.
StoredLimit == IF arming = {} THEN idleClock.limit ELSE CHOOSE l \in arming : TRUE

\* An unlock arms the clock and sends its event under the guard that opens.
OpenVault ==
    /\ ~unlocked /\ Len(pump) < MaxEvents /\ unlocked' = TRUE
    /\ idleClock' = ArmedClock(StoredLimit)
    /\ pump' = Sent("unlocked")
    /\ UNCHANGED <<closers, believed, arming>>

\* update_settings stores the settings under the guard, whatever they were, and
\* arms the clock after it, without asking whether a lock is due.
SetPhoneLimit(l) ==
    /\ unlocked /\ arming = {} /\ arming' = {l}
    /\ UNCHANGED <<unlocked, idleClock, closers, pump, believed>>

ArmClock ==
    /\ arming # {} /\ arming' = {}
    /\ idleClock' = ArmedClock(StoredLimit)
    /\ UNCHANGED <<unlocked, closers, pump, believed>>

\* The pump's thread calls the app.
DeliverEvent ==
    /\ pump # <<>> /\ pump' = Tail(pump)
    /\ believed' = (Head(pump) = "unlocked")
    /\ UNCHANGED <<unlocked, idleClock, closers, arming>>

\* A while without an interaction; the phone sleeps for longer than the clock sees.
PhoneMinute ==
    /\ idleClock.idle < PhoneLimit /\ idleClock' = [idleClock EXCEPT !.idle = @ + 1]
    /\ UNCHANGED <<unlocked, closers, pump, believed, arming>>
PhoneSleeps ==
    /\ ~idleClock.slept /\ idleClock' = [idleClock EXCEPT !.slept = TRUE]
    /\ UNCHANGED <<unlocked, closers, pump, believed, arming>>

PhoneClockNext ==
    \/ \E w \in PhoneThreads \cup {"ticker"} : AutoLockTick(w)
    \/ \E w \in Closers : CloseVault(w) \/ TellLocked(w)
    \/ PhoneTouch \/ AskLock \/ OpenVault \/ (\E l \in {0, PhoneLimit} : SetPhoneLimit(l))
    \/ ArmClock \/ DeliverEvent \/ PhoneMinute \/ PhoneSleeps

\* The runtime's ticker comes round, a lock that was begun ends, and the pump's
\* thread takes what was sent.
PhoneClockFairness ==
    /\ WF_phoneClockVars(AutoLockTick("ticker"))
    /\ WF_phoneClockVars(DeliverEvent)
    /\ \A w \in Closers : /\ WF_phoneClockVars(CloseVault(w))
                          /\ WF_phoneClockVars(TellLocked(w))

PhoneClockSpec == PhoneClockInit /\ [][PhoneClockNext]_phoneClockVars /\ PhoneClockFairness

-----------------------------------------------------------------------------
\* Every variable keeps its type.
PhoneClockTypeOK ==
    /\ unlocked \in BOOLEAN /\ believed \in BOOLEAN
    /\ idleClock \in [limit : {0, PhoneLimit}, idle : 0 .. PhoneLimit, slept : BOOLEAN]
    /\ arming \in {{}, {0}, {PhoneLimit}}
    /\ closers \in [Closers -> {"no", "due", "closed"}]
    /\ pump \in Seq({"locked", "unlocked"})

FoundDue == \E w \in Closers : closers[w] = "due"
Overdue == unlocked /\ (DueClock \/ FoundDue)

\* Once the idle time is over, or the phone has slept, the vault stays due for
\* locking until it locks: "a late touch must not rescue it" (events.rs), and the
\* call that finds the lock due does not use the mark up either.  Only the end
\* of update_settings rescues it, with a new limit or the same, and only as
\* long as no caller has found the lock due (mobile settings.rs).
OverdueStaysDue ==
    [][Overdue /\ (arming # {} /\ arming' = {} => FoundDue)
         => Overdue' \/ ~unlocked']_phoneClockVars

\* A vault that is closed is shown as closed, or is opened again: the event of
\* an opening never overtakes the event of the lock that ended it (EventPump).
LockIsShown == ~unlocked ~> (unlocked \/ ~believed)
=============================================================================
