------------------------------- MODULE Reach -------------------------------
(***************************************************************************)
(* Whether a device is online.  A session is opened after an unlock and    *)
(* dropped by a lock or by a server that refuses it; a request without an  *)
(* answer leaves it in place, marked unreachable, and the auto-lock        *)
(* thread's pull brings it back.  Requests end in any order, some of them  *)
(* after the lock and the next unlock.                                     *)
(***************************************************************************)
EXTENDS Naturals

CONSTANTS Asks,             \* requests under way at the same time
          MaxOpenings

ASSUME ReachAssumption == MaxOpenings \in Nat

VARIABLES opening,          \* which unlock the vault is open by; 0: locked
          openings,         \* unlocks so far
          dropping,         \* a lock has closed the vault and not yet dropped the session
          reach,            \* Connectivity, with the opening it belongs to
          asking,           \* [Asks -> what the request is, and its opening]
          answering,        \* the network and the server answer
          attempted         \* a pull was attempted in this interval

reachVars == <<opening, openings, dropping, reach, asking, answering, attempted>>

NoAsk == [kind |-> "none", of |-> 0]
NoSession == [kind |-> "offline", of |-> 0]

ReachInit ==
    /\ opening = 0 /\ openings = 0
    /\ dropping = FALSE /\ reach = NoSession
    /\ asking = [a \in Asks |-> NoAsk]
    /\ answering \in BOOLEAN
    /\ attempted = FALSE

Starts(a, kind) ==
    /\ asking[a] = NoAsk
    /\ asking' = [asking EXCEPT ![a] = [kind |-> kind, of |-> opening]]

-----------------------------------------------------------------------------
\* An unlock signs in; a lock drops the session and the attempt's mark.
UnlockAndConnect(a) ==
    /\ opening = 0 /\ openings < MaxOpenings
    /\ openings' = openings + 1 /\ opening' = openings + 1
    /\ asking[a] = NoAsk
    /\ asking' = [asking EXCEPT ![a] = [kind |-> "connect", of |-> openings + 1]]
    /\ UNCHANGED <<dropping, reach, answering, attempted>>

LocksVault ==
    /\ opening # 0 /\ ~dropping
    /\ opening' = 0 /\ dropping' = TRUE
    /\ UNCHANGED <<openings, reach, asking, answering, attempted>>

\* drop_session, after the vault's guard is released.
DropsSession ==
    /\ dropping /\ dropping' = FALSE
    /\ reach' = NoSession /\ attempted' = FALSE
    /\ UNCHANGED <<opening, openings, asking, answering>>

\* The sign-in's session is used only by the unlock that asked for it.
StillWanted(of) == opening = of

MarkedUnreachable == IF reach.kind = "online" THEN [reach EXCEPT !.kind = "unreachable"] ELSE reach
MarkedReachable == IF reach.kind = "unreachable" THEN [reach EXCEPT !.kind = "online"] ELSE reach

ConnectEnds(a, refused) ==
    /\ asking[a].kind = "connect"
    /\ reach' = IF ~answering THEN MarkedUnreachable
                ELSE IF refused THEN NoSession
                ELSE IF StillWanted(asking[a].of) THEN [kind |-> "online", of |-> asking[a].of]
                ELSE reach
    /\ asking' = [asking EXCEPT ![a] = NoAsk]
    /\ UNCHANGED <<dropping, opening, openings, answering, attempted>>

-----------------------------------------------------------------------------
\* pull_due: with a session, whether or not the server answered last time.
PullDue == reach.kind # "offline" /\ ~attempted

\* The tick, or the owner's sync_now: the attempt is noted before the request.
PullStarts(a) ==
    /\ PullDue /\ Starts(a, "pull")
    /\ attempted' = TRUE
    /\ UNCHANGED <<dropping, opening, openings, reach, answering>>

\* A write needs an online session.
PushStarts(a) ==
    /\ reach.kind = "online" /\ Starts(a, "push")
    /\ UNCHANGED <<dropping, opening, openings, reach, answering, attempted>>

\* `failed` and `mark_reachable`: a refusal drops whatever session is held
\* when it comes back; only a pull says the server is there again.
RequestEnds(a, refused) ==
    /\ asking[a].kind \in {"pull", "push"}
    /\ reach' = IF ~answering THEN MarkedUnreachable
                ELSE IF refused THEN NoSession
                ELSE IF asking[a].kind = "pull" THEN MarkedReachable ELSE reach
    /\ asking' = [asking EXCEPT ![a] = NoAsk]
    /\ UNCHANGED <<dropping, opening, openings, answering, attempted>>

\* RETRY_INTERVAL or PULL_INTERVAL passes.
IntervalPasses ==
    /\ attempted /\ attempted' = FALSE
    /\ UNCHANGED <<dropping, opening, openings, reach, asking, answering>>

NetworkTurns ==
    /\ answering' = ~answering
    /\ UNCHANGED <<dropping, opening, openings, reach, asking, attempted>>

-----------------------------------------------------------------------------
ReachNext ==
    \/ \E a \in Asks :
         \/ UnlockAndConnect(a) \/ PullStarts(a) \/ PushStarts(a)
         \/ \E b \in BOOLEAN : ConnectEnds(a, b) \/ RequestEnds(a, b)
    \/ LocksVault \/ DropsSession \/ IntervalPasses \/ NetworkTurns

\* Time passes, the auto-lock thread asks for every pull that is due, and a
\* request ends, by its timeout at the latest.
ReachFairness ==
    /\ WF_reachVars(IntervalPasses) /\ WF_reachVars(DropsSession)
    /\ WF_reachVars(\E a \in Asks : PullStarts(a))
    /\ \A a \in Asks : WF_reachVars(\E b \in BOOLEAN : ConnectEnds(a, b) \/ RequestEnds(a, b))

ReachSpec == ReachInit /\ [][ReachNext]_reachVars /\ ReachFairness

-----------------------------------------------------------------------------
ReachTypeOK ==
    /\ opening \in 0..MaxOpenings /\ openings \in 0..MaxOpenings
    /\ reach \in [kind : {"offline", "online", "unreachable"}, of : 0..MaxOpenings]
    /\ \A a \in Asks : asking[a].kind \in {"none", "connect", "pull", "push"}
    /\ {dropping, answering, attempted} \subseteq BOOLEAN

\* Once a lock has ended, a session belongs to the unlock that is open now:
\* no sign-in that a lock overtook leaves its session on a locked vault or
\* on a later unlock.
SessionOfThisOpening == reach.kind # "offline" /\ ~dropping => reach.of = opening

\* A device that lost the server is online again, or signed out, or locked,
\* once the server answers (pull_interval keeps asking while unreachable).
Reconnects == <>[]answering => (reach.kind = "unreachable" ~> reach.kind # "unreachable")
=============================================================================
