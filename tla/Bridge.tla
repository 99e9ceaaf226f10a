------------------------------- MODULE Bridge -------------------------------
(***************************************************************************)
(* The desktop's side of the browser extension: threads that answer        *)
(* requests which may change an item (SaveLogin and SaveSso of an existing *)
(* one), the rate limiter they share, the one confirmation dialog, and     *)
(* what the owner, the clock, a lock and other devices do meanwhile.       *)
(*                                                                         *)
(* The page of a request is authorized or not (PageVault says when), and   *)
(* its connection has a free slot and a token (Connections).               *)
(***************************************************************************)
EXTENDS Naturals, Sequences, FiniteSets

CONSTANTS Logins,          \* the items
          Threads,         \* requests under way at once, over all connections
          Interval,        \* ITEM_UPDATE_INTERVAL, in ticks
          RepeatWindow,    \* REPEAT_CHANGE_WINDOW_MS, in ticks
          MaxHistory,      \* MAX_PASSWORD_HISTORY
          MaxTime, MaxRev, MaxEpoch, MaxDialogs,      \* bounds
          Nil

ASSUME BridgeAssumption ==
    /\ Interval \in Nat \ {0} /\ RepeatWindow \in Nat /\ Interval <= RepeatWindow
    /\ MaxHistory \in Nat \ {0}
    /\ {MaxTime, MaxRev, MaxEpoch, MaxDialogs} \subseteq Nat
    /\ Nil \notin Nat /\ Nil \notin Logins
    /\ Nil \notin [at : Nat, by : Threads] \cup [in : Nat \cup {Nil}, allow : BOOLEAN]

VARIABLES clock,
          updates,         \* the limiter's [Logins -> reservation or Nil]
          thread,          \* [Threads -> the request it answers]
          pendingFlag,     \* confirm_pending
          waiting,         \* the desktop's dialog slot: its id or Nil
          dialogs,         \* dialogs shown so far; a dialog's id is its number
          session,         \* [epoch, open]: open is unlocked
          cloud, local,    \* [Logins -> version]: the server's and this device's
          spent            \* the reservations of requests that were answered Ok

limiterVars == <<updates, spent>>
dialogVars == <<pendingFlag, waiting, dialogs>>
bridgeVars == <<clock, limiterVars, thread, dialogVars, session, cloud, local>>

\* A version of an item: what replaced what, newest first.  quiet says that
\* nobody was asked.
NoVersion == [rev |-> 1, hist |-> <<>>]

Idle == [st |-> "idle", kind |-> Nil, item |-> Nil,
         stamp |-> Nil, cooling |-> FALSE, dialog |-> Nil, answer |-> Nil,
         epoch |-> 0, write |-> Nil]

BridgeInit ==
    /\ clock = 0 /\ updates = [i \in Logins |-> Nil] /\ spent = {}
    /\ thread = [t \in Threads |-> Idle]
    /\ pendingFlag = FALSE /\ waiting = Nil /\ dialogs = 0
    /\ session = [epoch |-> 0, open |-> TRUE]
    /\ cloud = [i \in Logins |-> NoVersion] /\ local = cloud

Busy(t) == thread[t].st # "idle"

Set(t, changes) == thread' = [thread EXCEPT ![t] = changes]

-----------------------------------------------------------------------------
(* The limiter.                                                             *)

StillCounts(u) == u # Nil /\ clock - u.at < Interval

Pruned == [i \in Logins |-> IF StillCounts(updates[i]) THEN updates[i] ELSE Nil]

ReleaseItemUpdate(i, stamp) == IF updates[i] = stamp THEN [updates EXCEPT ![i] = Nil] ELSE updates

\* The end of handle: an unused reservation is returned, a confirmed change
\* counts as one; the background slot is dropped.
Finish(t, ok) ==
    LET r == thread[t]
        record == [at |-> clock, by |-> t]
    IN  /\ Set(t, Idle)
        /\ updates' = CASE ~ok /\ r.stamp # Nil -> ReleaseItemUpdate(r.item, r.stamp)
                        [] ok /\ r.cooling -> [updates EXCEPT ![r.item] = record]
                        [] OTHER -> updates
        /\ spent' = IF ok THEN spent \cup {<<r.item, IF r.cooling THEN record ELSE r.stamp>>}
                    ELSE spent

\* The bound on dialogs never leaves a thread without one.
DialogsLeft == dialogs + Cardinality({t \in Threads : Busy(t)}) < MaxDialogs

\* A request is let through with the item's reservation.  A second single
\* sign-on change within the interval is refused outright; a
\* second login change is only allowed with a question.
Receive(t, kind, i) ==
    LET free  == Pruned[i] = Nil
        stamp == [at |-> clock, by |-> t]
    IN  /\ ~Busy(t) /\ DialogsLeft
        /\ kind = "sso" => free
        /\ updates' = IF free THEN [Pruned EXCEPT ![i] = stamp] ELSE Pruned
        /\ Set(t, [Idle EXCEPT !.st = "limited", !.kind = kind, !.item = i,
                               !.stamp = IF free THEN stamp ELSE Nil,
                               !.cooling = ~free])
        /\ UNCHANGED <<clock, spent, dialogVars, session, cloud, local>>

-----------------------------------------------------------------------------
(* Dispatch, under the vault's mutex.                                       *)

\* The version after a password was replaced: build_item keeps the newest
\* MaxHistory of the replaced ones.
Replaced(v, quiet) ==
    LET hist == <<[at |-> clock, quiet |-> quiet]>> \o v.hist
    IN  [rev |-> v.rev + 1,
         hist |-> SubSeq(hist, 1, IF Len(hist) <= MaxHistory THEN Len(hist) ELSE MaxHistory)]

\* The write a request stages: a provider's change touches no password.
Staged(r, quiet) ==
    [base |-> local[r.item].rev, epoch |-> session.epoch, quiet |-> quiet,
     to |-> IF r.kind = "login" THEN Replaced(local[r.item], quiet)
            ELSE [local[r.item] EXCEPT !.rev = @ + 1]]

NeedsConfirmation(i) ==
    \E k \in DOMAIN local[i].hist : clock - local[i].hist[k].at < RepeatWindow

\* The vault refuses: locked, the integration is off, the subscription lapsed,
\* or the page is not the item's.
DispatchRefused(t) ==
    /\ thread[t].st = "limited"
    /\ Finish(t, FALSE)
    /\ UNCHANGED <<clock, dialogVars, session, cloud, local>>

DispatchQuietly(t) ==
    LET r == thread[t]
    IN  /\ r.st = "limited" /\ session.open
        /\ r.kind = "login" => ~r.cooling /\ ~NeedsConfirmation(r.item)
        /\ Set(t, [r EXCEPT !.st = "saving", !.epoch = session.epoch,
                             !.write = Staged(r, TRUE)])
        /\ UNCHANGED <<clock, limiterVars, dialogVars, session, cloud, local>>

\* The staged write is dropped and the owner is to be asked.
DispatchConfirm(t) ==
    LET r == thread[t]
    IN  /\ r.st = "limited" /\ session.open /\ r.kind = "login"
        /\ r.cooling \/ NeedsConfirmation(r.item)
        /\ Set(t, [r EXCEPT !.st = "ask", !.epoch = session.epoch])
        /\ UNCHANGED <<clock, limiterVars, dialogVars, session, cloud, local>>

-----------------------------------------------------------------------------
(* The confirmation.                                                        *)

\* Another question is open, or the vault was locked when it came up.
AskRefused(t) ==
    /\ thread[t].st = "ask"
    /\ pendingFlag \/ waiting # Nil \/ ~session.open
    /\ Finish(t, FALSE)
    /\ UNCHANGED <<clock, dialogVars, session, cloud, local>>

Ask(t) ==
    /\ thread[t].st = "ask" /\ ~pendingFlag /\ waiting = Nil /\ session.open
    /\ pendingFlag' = TRUE /\ dialogs' = dialogs + 1 /\ waiting' = dialogs + 1
    /\ Set(t, [thread[t] EXCEPT !.st = "waiting", !.dialog = dialogs + 1])
    /\ UNCHANGED <<clock, limiterVars, session, cloud, local>>

\* The sender of dialog id fires: its thread gets the answer, with the dialog
\* it was given in.
Reply(id, from, allow) ==
    thread' = [t \in Threads |->
                 IF thread[t].dialog = id
                   THEN [thread[t] EXCEPT !.answer = [in |-> from, allow |-> allow]]
                   ELSE thread[t]]

\* The owner clicks in a dialog that is or was on the screen.
UserAnswers(id, allow) ==
    /\ id \in 1 .. dialogs
    /\ waiting = id
    /\ waiting' = Nil
    /\ Reply(id, id, allow)
    /\ UNCHANGED <<clock, limiterVars, pendingFlag, dialogs, session, cloud, local>>

NoAnswer == [in |-> Nil, allow |-> FALSE]

\* Mutant of AskTimesOut: the dialog stays on the screen.
AskTimesOutOpen(t) ==
    /\ thread[t].st = "waiting" /\ thread[t].answer = Nil
    /\ Set(t, [thread[t] EXCEPT !.answer = NoAnswer])
    /\ UNCHANGED <<clock, limiterVars, dialogVars, session, cloud, local>>

\* CONFIRM_UPDATE_TIMEOUT passes without an answer.
AskTimesOut(t) ==
    /\ thread[t].st = "waiting" /\ thread[t].answer = Nil
    /\ waiting' = IF waiting = thread[t].dialog THEN Nil ELSE waiting
    /\ Set(t, [thread[t] EXCEPT !.answer = NoAnswer])
    /\ UNCHANGED <<clock, limiterVars, pendingFlag, dialogs, session,
                   cloud, local>>

\* Allowed in time, and the vault is still in the session of the question.
Agreed(t) ==
    /\ thread[t].answer.allow
    /\ session.epoch = thread[t].epoch /\ session.open

\* ask_user returned; on an Allow the request is staged again, from the vault
\* as it is now.
Resume(t) ==
    LET r == thread[t]
    IN  /\ r.st = "waiting" /\ r.answer # Nil
        /\ pendingFlag' = FALSE
        /\ IF Agreed(t)
             THEN /\ Set(t, [r EXCEPT !.st = "saving", !.write = Staged(r, FALSE)])
                  /\ UNCHANGED <<updates, spent>>
             ELSE Finish(t, FALSE)
        /\ UNCHANGED <<clock, waiting, dialogs, session, cloud, local>>

-----------------------------------------------------------------------------
(* The save: the server takes a write made on top of its own revision.      *)

Accepts(r) == r.write.base = cloud[r.item].rev /\ cloud[r.item].rev < MaxRev

SaveOk(t) ==
    LET r == thread[t]
    IN  /\ r.st = "saving" /\ Accepts(r)
        /\ session.epoch = r.epoch /\ session.open
        /\ cloud' = [cloud EXCEPT ![r.item] = r.write.to]
        /\ local' = [local EXCEPT ![r.item] = r.write.to]
        /\ Finish(t, TRUE)
        /\ UNCHANGED <<clock, dialogVars, session>>

\* The server took it, but the answer was lost or the vault was locked.
SaveUnseen(t) ==
    LET r == thread[t]
    IN  /\ r.st = "saving" /\ Accepts(r)
        /\ cloud' = [cloud EXCEPT ![r.item] = r.write.to]
        /\ Finish(t, FALSE)
        /\ UNCHANGED <<clock, dialogVars, session, local>>

\* Offline, refused by the server, or made on top of an older revision.
SaveFails(t) ==
    /\ thread[t].st = "saving"
    /\ Finish(t, FALSE)
    /\ UNCHANGED <<clock, dialogVars, session, cloud, local>>

-----------------------------------------------------------------------------
(* Meanwhile.                                                               *)

\* A lock cancels the question.
Lock ==
    /\ session.open /\ session.epoch < MaxEpoch
    /\ session' = [epoch |-> session.epoch + 1, open |-> FALSE]
    /\ IF waiting = Nil THEN thread' = thread ELSE Reply(waiting, waiting, FALSE)
    /\ waiting' = Nil
    /\ UNCHANGED <<clock, limiterVars, pendingFlag, dialogs, cloud, local>>

Unlock ==
    /\ ~session.open
    /\ session' = [session EXCEPT !.open = TRUE]
    /\ UNCHANGED <<clock, limiterVars, thread, dialogVars, cloud, local>>

Pull(i) ==
    /\ session.open /\ local[i] # cloud[i]
    /\ local' = [local EXCEPT ![i] = cloud[i]]
    /\ UNCHANGED <<clock, limiterVars, thread, dialogVars, session, cloud>>

\* The owner changes the password on another device.
OwnerEdits(i) ==
    /\ cloud[i].rev < MaxRev
    /\ cloud' = [cloud EXCEPT ![i] = Replaced(cloud[i], FALSE)]
    /\ UNCHANGED <<clock, limiterVars, thread, dialogVars, session, local>>

Tick ==
    /\ clock < MaxTime
    /\ clock' = clock + 1
    /\ spent' = {s \in spent : clock + 1 - s[2].at < Interval}
    /\ UNCHANGED <<updates, thread, dialogVars, session, cloud, local>>

ThreadStep(t) ==
    \/ DispatchRefused(t) \/ DispatchQuietly(t) \/ DispatchConfirm(t)
    \/ AskRefused(t) \/ Ask(t) \/ AskTimesOut(t) \/ Resume(t)
    \/ SaveOk(t) \/ SaveUnseen(t) \/ SaveFails(t)

BridgeNext ==
    \/ \E t \in Threads :
         \/ ThreadStep(t)
         \/ \E kind \in {"login", "sso"}, i \in Logins :
              Receive(t, kind, i)
    \/ \E id \in 1 .. MaxDialogs, allow \in BOOLEAN : UserAnswers(id, allow)
    \/ \E i \in Logins : Pull(i) \/ OwnerEdits(i)
    \/ Lock \/ Unlock \/ Tick

BridgeSpec == BridgeInit /\ [][BridgeNext]_bridgeVars

-----------------------------------------------------------------------------
Stamp == [at : 0 .. MaxTime, by : Threads]

\* The limiter, the dialogs and the items have their types.
BridgeTypeOK ==
    /\ clock \in 0 .. MaxTime
    /\ updates \in [Logins -> Stamp \cup {Nil}]
    /\ pendingFlag \in BOOLEAN /\ dialogs \in 0 .. MaxDialogs
    /\ waiting \in 1 .. dialogs \cup {Nil}
    /\ session.epoch \in 0 .. MaxEpoch /\ session.open \in BOOLEAN
    /\ \A i \in Logins : cloud[i].rev \in 1 .. MaxRev /\ Len(cloud[i].hist) <= MaxHistory

\* A page cannot push the owner's password out of the history unnoticed: a
\* change nobody was asked about comes at least RepeatWindow after the change
\* before it, whatever failed, was retried, locked or edited elsewhere
\* (update_needs_confirmation on a copy that may be stale, made safe by the
\* revision the server compares).
QuietChangesAreRare ==
    \A i \in Logins : \A k \in 1 .. Len(cloud[i].hist) - 1 :
      cloud[i].hist[k].quiet => cloud[i].hist[k].at >= cloud[i].hist[k + 1].at + RepeatWindow

\* The limiter's books balance: a reservation in force belongs to a request
\* under way or to a change that was made, and a change that was made keeps
\* its reservation for the interval, although requests end in any order and
\* each returns only its own (release_item_update compares the instant).
ReservationsBalance ==
    /\ \A i \in Logins : StillCounts(updates[i]) =>
         \/ <<i, updates[i]>> \in spent
         \/ \E t \in Threads : thread[t].item = i /\ thread[t].stamp = updates[i]
    /\ \A s \in spent : StillCounts(s[2]) => StillCounts(updates[s[1]])

\* A change that needed the owner has the owner's Allow on its own dialog,
\* given in the session the question was asked in (confirm_then_stage): not a
\* click meant for an earlier dialog, not one from before a lock.
ChangesAreAgreed ==
    \A t \in Threads :
      thread[t].st = "saving" /\ ~thread[t].write.quiet
        => thread[t].answer.in = thread[t].dialog /\ thread[t].write.epoch = thread[t].epoch

\* The question slots are given back on every path: the flag is up, and a
\* question is on the screen, only for a thread that waits for its answer.
OneQuestion ==
    /\ pendingFlag <=> \E t \in Threads : thread[t].st = "waiting"
    /\ waiting # Nil => \E t \in Threads : /\ thread[t].st = "waiting"
                                           /\ thread[t].dialog = waiting
                                           /\ thread[t].answer = Nil

\* Pages change a login only as often, and only with the consent, that the
\* bridge promises (bridge server.rs, ratelimit.rs, confirm_then_stage).
ChangesAreWatched ==
    QuietChangesAreRare /\ ReservationsBalance /\ ChangesAreAgreed /\ OneQuestion
=============================================================================
