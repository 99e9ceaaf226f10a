------------------------------ MODULE ItemSync ------------------------------
(***************************************************************************)
(* Several devices of one account, each with a replica, and the server.    *)
(* A device runs asynchronous tasks (havenkeys-client sync.rs): sync_now,  *)
(* started by the periodic pull, by an unlock or by the user, and push,    *)
(* started by every edit.  A task takes the vault mutex for each local     *)
(* operation and never holds it across a request, so the tasks of one      *)
(* device interleave between any two steps below, and so do the steps of   *)
(* the other devices and of the server.                                    *)
(*                                                                         *)
(* Requests and answers get lost, a client gives up on a request the       *)
(* server still carries out, the vault locks and the app restarts (into a  *)
(* newer version, perhaps) at any point.                                   *)
(*                                                                         *)
(* Two constants narrow the timing for the properties that need it.        *)
(* Overlap says which tasks of one device run at the same time: "all" of   *)
(* them, as in the code; only tasks that are in the "retry" of unreadable  *)
(* items next to any one other; or "none".  Quiet = TRUE lets no write     *)
(* commit between the two statements of a pull whose first found nothing.  *)
(* The code guarantees only Overlap = "all" and Quiet = FALSE.             *)
(***************************************************************************)
EXTENDS Replica

CONSTANTS Tasks,        \* the asynchronous tasks
          DeviceOf,     \* the device a task runs on
          Syncs,        \* the tasks that run sync_now
          Pushes,       \* the tasks that push the user's edits
          Identity,     \* the one item whose id every device derives
          Trash,        \* the blobs whose overview has a trashed_at
          Locking,      \* bound: the devices whose vault locks while the app runs
          MaxRestores,  \* bound: how often the server's database is put back
          Overlap,
          Quiet

ASSUME ItemSyncAssumption == /\ DeviceOf \in [Tasks -> Devices]
                             /\ Syncs \subseteq Tasks
                             /\ Pushes \subseteq Tasks
                             /\ Trash \subseteq Blobs
                             /\ Locking \subseteq Devices
                             /\ MaxRestores \in Nat
                             /\ Overlap \in {"none", "retry", "all"}
                             /\ Quiet \in BOOLEAN

VARIABLES open,         \* is the vault unlocked, with a server session?
          sync,         \* sync_now's local variables, per task
          push,         \* push's, per task
          backup,       \* the last dump of the server's database
          restores      \* how often it was put back

taskVars == <<sync, push>>
backupVars == <<backup, restores>>
vars == <<rev, rows, replica, unreadable, cursor, level, open, sync, push, backup, restores>>

\* Where a sync_now is.  header: waiting for the key header; asked, sized,
\* answered: a pull before, between and after the server's two statements;
\* drop, retry, purge: about to take the vault mutex for that step; fetch,
\* fetched: a fetch by id before and after the server's answer.
SyncStates == {"idle", "header", "asked", "sized", "answered", "drop", "retry",
               "fetch", "fetched", "purge"}

Sync == [st : SyncStates,
         since : Nat,            \* the cursor sent with the pull
         fromZero : BOOLEAN,
         held : SUBSET Items,
         seen : SUBSET Items,
         next : Nat,             \* the cursor the server answers with
         more : BOOLEAN,
         page : Page,
         ask : SUBSET Items,     \* the ids a fetch asks for
         answered : SUBSET Items,\* those of them its answer speaks of
         began : Nat]            \* ghost: the vault's revision when it read its cursor

NoSync == [st |-> "idle", since |-> 0, fromZero |-> FALSE, held |-> {}, seen |-> {},
           next |-> 0, more |-> FALSE, page |-> EmptyPage, ask |-> {}, answered |-> {},
           began |-> 0]

\* Where a push is.  sent: the server has not handled it yet; acked: it
\* accepted, and the writes left in batch are to be recorded; orphan: nobody
\* waits for the answer any more, but the server may still handle it.  stale:
\* the vault locked since the write was staged (staged.epoch # epoch).
PushStates == {"idle", "sent", "acked", "orphan"}

Push == [st : PushStates, batch : Batch, stale : BOOLEAN, rev : Nat]
NoPush == [st |-> "idle", batch |-> EmptyBatch, stale |-> FALSE, rev |-> 0]

Init == /\ ServerInit
        /\ ReplicaInit
        /\ open = [d \in Devices |-> FALSE]
        /\ sync = [t \in Tasks |-> NoSync]
        /\ push = [t \in Tasks |-> NoPush]
        /\ backup = [rev |-> rev, rows |-> rows]
        /\ restores = 0

TasksOf(d) == {t \in Tasks : DeviceOf[t] = d}

Running(t) == sync[t].st # "idle" \/ push[t].st \in {"sent", "acked"}

Retrying(t) == sync[t].st \in {"fetch", "fetched"}

\* Does the timing allow t to run a pull or a push now?
Alone(t) == \A u \in TasksOf(DeviceOf[t]) \ {t} :
               \/ Overlap = "all"
               \/ Overlap = "retry" /\ Retrying(u)
               \/ ~Running(u)

\* May a task start on its device?  It needs a session.
CanStart(t) == /\ sync[t].st = "idle"
               /\ push[t].st = "idle"
               /\ open[DeviceOf[t]]
               /\ Alone(t)

-----------------------------------------------------------------------------
(* Unlocking, locking, restarting                                          *)

\* An unlock that signed in; the replica is as the last run left it.
Unlock(d) == /\ ~open[d]
             /\ open' = [open EXCEPT ![d] = TRUE]
             /\ UNCHANGED <<serverVars, replicaVars, taskVars, backupVars>>

\* HavenClient::lock.  The tasks under way go on until they need the vault;
\* the epoch moves on, which the writes staged before it will find out.
Lock(d) == /\ open[d]
           /\ d \in Locking
           /\ open' = [open EXCEPT ![d] = FALSE]
           /\ push' = [t \in Tasks |->
                         IF DeviceOf[t] = d /\ push[t].st \in {"sent", "acked"}
                         THEN [push[t] EXCEPT !.stale = TRUE] ELSE push[t]]
           /\ UNCHANGED <<serverVars, replicaVars, sync, backupVars>>

\* The process ends and starts again, maybe updated: only the store is left.
\* A request it had sent may still reach the server.
Restart(d, version) ==
    /\ version >= level[d]
    /\ level' = [level EXCEPT ![d] = version]
    /\ open' = [open EXCEPT ![d] = FALSE]
    /\ sync' = [t \in Tasks |-> IF DeviceOf[t] = d THEN NoSync ELSE sync[t]]
    /\ push' = [t \in Tasks |->
                  IF DeviceOf[t] # d \/ push[t].st = "orphan" THEN push[t]
                  ELSE IF push[t].st = "sent" THEN [push[t] EXCEPT !.st = "orphan"]
                  ELSE NoPush]
    /\ UNCHANGED <<serverVars, replica, unreadable, cursor, backupVars>>

-----------------------------------------------------------------------------
(* Editing: stage a write under the vault mutex and send it                *)

Send(t, batch) ==
    /\ Cardinality(Touched(batch)) \in 1..MaxBatch
    /\ push' = [push EXCEPT ![t] = [st |-> "sent", batch |-> batch,
                                    stale |-> FALSE, rev |-> 0]]

\* Changes of items the replica holds, on top of the revisions it holds.
OnTop(d, I, blob) ==
    [i \in Items |->
        IF i \in I
        THEN [base |-> replica[d][i].rev, blob |-> blob, seen |-> replica[d][i].blob]
        ELSE NoChange]

\* Items believed new: no base revision.
Fresh(I, blob) ==
    [i \in Items |->
        IF i \in I THEN [base |-> 0, blob |-> blob, seen |-> Deleted] ELSE NoChange]

\* A new UUID: no row, no replica and no request knows it.
Unused(i) == /\ i # Identity
             /\ rows[i] = NoRow
             /\ \A d \in Devices : replica[d][i] = NoRow
             /\ \A t \in Tasks : push[t].batch[i] = NoChange

\* A new item, or several at once by an import (stage_create).
StageCreate(t, I, blob) ==
    /\ t \in Pushes /\ CanStart(t)
    /\ \A i \in I : Unused(i)
    /\ blob \in Blobs \ Trash
    /\ Opens(DeviceOf[t], blob)
    /\ Send(t, Fresh(I, blob))
    /\ UNCHANGED <<serverVars, replicaVars, open, sync, backupVars>>

\* ensure_identity, when the replica has no Identity.
StageIdentity(t, blob) ==
    /\ t \in Pushes /\ CanStart(t)
    /\ Identity \in Items \ Held(DeviceOf[t])
    /\ blob \in Blobs \ Trash
    /\ Opens(DeviceOf[t], blob)
    /\ Send(t, Fresh({Identity}, blob))
    /\ UNCHANGED <<serverVars, replicaVars, open, sync, backupVars>>

\* An edit or a move to the Trash of a live item (stage_update, stage_trash),
\* or a way back from the Trash (stage_restore_trashed).
StageUpdate(t, i, blob) ==
    /\ t \in Pushes /\ CanStart(t)
    /\ i \in Held(DeviceOf[t])
    /\ replica[DeviceOf[t]][i].blob \in Trash => blob \notin Trash
    /\ blob \in Trash => i # Identity
    /\ Opens(DeviceOf[t], blob)
    /\ Send(t, OnTop(DeviceOf[t], {i}, blob))
    /\ UNCHANGED <<serverVars, replicaVars, open, sync, backupVars>>

\* A deletion of a live item (stage_delete).
StageDelete(t, i) ==
    /\ t \in Pushes /\ CanStart(t)
    /\ i \in Held(DeviceOf[t]) \ {Identity}
    /\ replica[DeviceOf[t]][i].blob \notin Trash
    /\ Send(t, OnTop(DeviceOf[t], {i}, Deleted))
    /\ UNCHANGED <<serverVars, replicaVars, open, sync, backupVars>>

InTrash(d) == {i \in Held(d) \ {Identity} : replica[d][i].blob \in Trash}

\* Items of the Trash, for good (stage_purge, stage_empty_trash).
StagePurge(t, I) ==
    /\ t \in Pushes /\ CanStart(t)
    /\ I \subseteq InTrash(DeviceOf[t])
    /\ Send(t, OnTop(DeviceOf[t], I, Deleted))
    /\ UNCHANGED <<serverVars, replicaVars, open, sync, backupVars>>

-----------------------------------------------------------------------------
(* The server handles a write; the client records it                       *)

\* An empty pull is between its two statements.
BetweenEmptyStatements == \E t \in Tasks : sync[t].st = "sized" /\ sync[t].next = 0

\* The transaction of routes/items.rs write, accepted.
AcceptWrite(t) ==
    /\ push[t].st \in {"sent", "orphan"}
    /\ FindConflicts(push[t].batch) = {}
    /\ rev < MaxRevision
    /\ Quiet => ~BetweenEmptyStatements
    /\ ApplyBatch(push[t].batch)
    /\ push' = [push EXCEPT ![t] = IF push[t].st = "sent"
                                   THEN [@ EXCEPT !.st = "acked", !.rev = rev + 1]
                                   ELSE NoPush]
    /\ UNCHANGED <<replicaVars, open, sync, backupVars>>

\* The same, refused (409): nothing changes, and the caller gets the error.
RefuseWrite(t) ==
    /\ push[t].st \in {"sent", "orphan"}
    /\ FindConflicts(push[t].batch) # {}
    /\ push' = [push EXCEPT ![t] = NoPush]
    /\ UNCHANGED <<serverVars, replicaVars, open, sync, backupVars>>

\* No effect and no acknowledgement: the request is lost or refused for
\* another reason (frozen account, full vault), or the answer is lost.
PushFails(t) ==
    /\ push[t].st # "idle"
    /\ push' = [push EXCEPT ![t] = NoPush]
    /\ UNCHANGED <<serverVars, replicaVars, open, sync, backupVars>>

\* The client's timeout, before the server got to the request.
PushTimesOut(t) ==
    /\ push[t].st = "sent"
    /\ push' = [push EXCEPT ![t].st = "orphan"]
    /\ UNCHANGED <<serverVars, replicaVars, open, sync, backupVars>>

\* commit_write of one accepted write; the batch's others follow one by one.
CommitWrite(t, i) ==
    LET d == DeviceOf[t]
        rest == [push[t].batch EXCEPT ![i] = NoChange]
    IN  /\ push[t].st = "acked"
        /\ i \in Touched(push[t].batch)
        /\ open[d]
        /\ ~push[t].stale
        /\ CommitRow(d, i, push[t].rev, push[t].batch[i].blob)
        /\ push' = [push EXCEPT ![t] =
              IF Touched(rest) = {} THEN NoPush ELSE [@ EXCEPT !.batch = rest]]
        /\ UNCHANGED <<serverVars, unreadable, cursor, level, open, sync, backupVars>>

\* commit_write refused: the vault locked since the write was staged.
CommitRefused(t) ==
    /\ push[t].st = "acked"
    /\ ~open[DeviceOf[t]] \/ push[t].stale
    /\ push' = [push EXCEPT ![t] = NoPush]
    /\ UNCHANGED <<serverVars, replicaVars, open, sync, backupVars>>

-----------------------------------------------------------------------------
(* sync_now                                                                *)

\* sync_now starts with the key header, which is another component's.
SyncNow(t) == /\ t \in Syncs /\ CanStart(t)
              /\ sync' = [sync EXCEPT ![t] = [NoSync EXCEPT !.st = "header"]]
              /\ UNCHANGED <<serverVars, replicaVars, open, push, backupVars>>

\* Re-download (resync_vault): reset the cursor, then sync_now.
Resync(t) == /\ t \in Syncs /\ CanStart(t)
             /\ ResetCursor(DeviceOf[t])
             /\ sync' = [sync EXCEPT ![t] = [NoSync EXCEPT !.st = "header"]]
             /\ UNCHANGED <<serverVars, replica, level, open, push, backupVars>>

\* The header is settled: read the stored cursor, and pull.
ReadCursor(t) ==
    LET d == DeviceOf[t] IN
    /\ sync[t].st = "header"
    /\ sync' = [sync EXCEPT ![t] = [@ EXCEPT !.st = "asked",
                                             !.since = cursor[d],
                                             !.fromZero = cursor[d] = 0,
                                             !.held = IF cursor[d] = 0 THEN Held(d) ELSE {},
                                             !.began = rev]]
    /\ UNCHANGED <<serverVars, replicaVars, open, push, backupVars>>

\* The server's first statement: the sizes of the rows past the cursor, which
\* decide where the page ends.  next = 0 means there were none.
PullSizes(t) ==
    /\ sync[t].st = "asked"
    /\ \/ /\ RevisionsAfter(sync[t].since) = {}
          /\ sync' = [sync EXCEPT ![t] = [@ EXCEPT !.st = "sized", !.next = 0, !.more = FALSE]]
       \/ \E r \in RevisionsAfter(sync[t].since) :
            /\ PageEnds(sync[t].since, r)
            /\ sync' = [sync EXCEPT ![t] = [@ EXCEPT !.st = "sized", !.next = r,
                                                     !.more = RevisionsAfter(r) # {}]]
    /\ UNCHANGED <<serverVars, replicaVars, open, push, backupVars>>

\* The second statement: the rows up to there, or, when there were none, the
\* vault's revision for a cursor.
PullRows(t) ==
    /\ sync[t].st = "sized"
    /\ sync' = [sync EXCEPT ![t] =
          IF sync[t].next = 0
          THEN [@ EXCEPT !.st = "answered", !.next = rev, !.page = EmptyPage]
          ELSE [@ EXCEPT !.st = "answered",
                         !.page = RowsThrough(sync[t].since, sync[t].next)]]
    /\ UNCHANGED <<serverVars, replicaVars, open, push, backupVars>>

\* The answer's cursor is behind the one sent: the server was restored from a
\* backup.  Start again from 0, but only once.
PullRewound(t) ==
    LET d == DeviceOf[t] IN
    /\ sync[t].st = "answered"
    /\ sync[t].next < sync[t].since
    /\ IF sync[t].fromZero
       THEN /\ sync' = [sync EXCEPT ![t] = NoSync]
            /\ UNCHANGED <<unreadable, cursor>>
       ELSE /\ ResetCursor(d)
            /\ sync' = [sync EXCEPT ![t] =
                 [@ EXCEPT !.st = "asked", !.since = 0, !.fromZero = TRUE,
                           !.held = Held(d), !.seen = {}, !.began = rev]]
    /\ UNCHANGED <<serverVars, replica, level, open, push, backupVars>>

\* Apply a page, then ask for the next one or go on.
PullApply(t) ==
    LET s == sync[t]
        d == DeviceOf[t]
        seen == IF s.fromZero THEN s.seen \cup Mentioned(s.page) ELSE s.seen
    IN  /\ s.st = "answered"
        /\ s.next >= s.since
        /\ open[d]
        /\ ApplyRemoteChanges(d, s.next, s.page)
        /\ sync' = [sync EXCEPT ![t] =
              IF s.more /\ s.next > s.since
              THEN [@ EXCEPT !.st = "asked", !.since = s.next, !.seen = seen,
                             !.page = EmptyPage]
              ELSE [@ EXCEPT !.st = IF s.fromZero /\ ~s.more THEN "drop" ELSE "retry",
                             !.seen = seen, !.page = EmptyPage]]
        /\ UNCHANGED <<serverVars, level, open, push, backupVars>>

\* A pull from 0 is complete: drop what it did not mention.
DropLacking(t) ==
    /\ sync[t].st = "drop"
    /\ open[DeviceOf[t]]
    /\ DropItemsTheServerLacks(DeviceOf[t], sync[t].held, sync[t].seen)
    /\ sync' = [sync EXCEPT ![t] = [@ EXCEPT !.st = "retry", !.held = {}, !.seen = {}]]
    /\ UNCHANGED <<serverVars, cursor, level, open, push, backupVars>>

\* Ask again for the items that did not open.
RetryUnreadable(t) ==
    LET pending == Unreadable(DeviceOf[t]) IN
    /\ sync[t].st = "retry"
    /\ sync' = [sync EXCEPT ![t] =
          IF pending = {} THEN [NoSync EXCEPT !.st = "purge"]
                          ELSE [NoSync EXCEPT !.st = "fetch", !.ask = pending]]
    /\ UNCHANGED <<serverVars, replicaVars, open, push, backupVars>>

\* routes/items.rs fetch: the rows that fit one answer, at least one of them.
\* The others are named unanswered and asked for next; an id without a row is
\* in neither list.
FetchItems(t) ==
    LET known == {i \in sync[t].ask : rows[i].rev > 0} IN
    /\ sync[t].st = "fetch"
    /\ \E answered \in SUBSET known :
         /\ known # {} => answered # {}
         /\ sync' = [sync EXCEPT ![t] =
               [@ EXCEPT !.st = "fetched",
                         !.page = FetchRows(answered),
                         !.answered = sync[t].ask \ (known \ answered),
                         !.ask = known \ answered]]
    /\ UNCHANGED <<serverVars, replicaVars, open, push, backupVars>>

\* apply_refetched, then the unanswered ids.
ApplyRefetched(t) ==
    /\ sync[t].st = "fetched"
    /\ open[DeviceOf[t]]
    /\ Refetch(DeviceOf[t], sync[t].answered, sync[t].page)
    /\ sync' = [sync EXCEPT ![t] =
          IF sync[t].ask = {} THEN [NoSync EXCEPT !.st = "purge"]
                              ELSE [NoSync EXCEPT !.st = "fetch", !.ask = sync[t].ask]]
    /\ UNCHANGED <<serverVars, cursor, level, open, push, backupVars>>

\* A fetch that fails, or whose answer meets a locked vault, ends the retry
\* and nothing more.
FetchFails(t) ==
    /\ Retrying(t)
    /\ sync' = [sync EXCEPT ![t] = [NoSync EXCEPT !.st = "purge"]]
    /\ UNCHANGED <<serverVars, replicaVars, open, push, backupVars>>

\* The sync's last step sends tombstones for the trash past its retention:
\* which items are due is the clock's choice.
PurgeExpired(t) ==
    /\ sync[t].st = "purge"
    /\ sync' = [sync EXCEPT ![t] = NoSync]
    /\ \/ push' = push
       \/ /\ open[DeviceOf[t]]
          /\ Alone(t)
          /\ \E I \in SUBSET InTrash(DeviceOf[t]) :
                Send(t, OnTop(DeviceOf[t], I, Deleted))
    /\ UNCHANGED <<serverVars, replicaVars, open, backupVars>>

\* A request of the sync fails, or its answer meets a locked vault.
SyncFails(t) ==
    /\ \/ sync[t].st \in {"header", "asked", "sized", "answered"}
       \/ sync[t].st = "drop" /\ ~open[DeviceOf[t]]
    /\ sync' = [sync EXCEPT ![t] = NoSync]
    /\ UNCHANGED <<serverVars, replicaVars, open, push, backupVars>>

-----------------------------------------------------------------------------
(* The server's database is dumped, and put back (docs/deployment.md): its *)
(* revisions go back and are handed out again, and no client is told.      *)

TakeBackup == /\ restores < MaxRestores
              /\ backup' = [rev |-> rev, rows |-> rows]
              /\ UNCHANGED <<serverVars, replicaVars, open, taskVars, restores>>

\* Requests the server had not answered fail; answers already given are with
\* the clients.  (began: the server changed under every pull that goes on.)
Restore == /\ restores < MaxRestores
           /\ restores' = restores + 1
           /\ rev' = backup.rev
           /\ rows' = backup.rows
           /\ sync' = [t \in Tasks |->
                         IF sync[t].st \in {"asked", "sized"} THEN NoSync
                         ELSE IF sync[t].st = "fetch" THEN [NoSync EXCEPT !.st = "purge"]
                         ELSE [sync[t] EXCEPT !.began = MaxRevision + 1]]
           /\ push' = [t \in Tasks |->
                         IF push[t].st \in {"sent", "orphan"} THEN NoPush ELSE push[t]]
           /\ UNCHANGED <<replicaVars, open, backup>>

-----------------------------------------------------------------------------
Edit(t) == \/ \E I \in SUBSET Items, b \in Blobs : StageCreate(t, I, b)
           \/ \E b \in Blobs : StageIdentity(t, b)
           \/ \E i \in Items, b \in Blobs : StageUpdate(t, i, b)
           \/ \E i \in Items : StageDelete(t, i)
           \/ \E I \in SUBSET Items : StagePurge(t, I)

PushStep(t) == \/ AcceptWrite(t) \/ RefuseWrite(t) \/ PushFails(t) \/ PushTimesOut(t)
               \/ \E i \in Items : CommitWrite(t, i)
               \/ CommitRefused(t)

SyncStep(t) == \/ SyncNow(t) \/ Resync(t) \/ ReadCursor(t) \/ PullSizes(t) \/ PullRows(t)
               \/ PullRewound(t) \/ PullApply(t) \/ DropLacking(t) \/ RetryUnreadable(t)
               \/ FetchItems(t) \/ ApplyRefetched(t) \/ FetchFails(t) \/ PurgeExpired(t)
               \/ SyncFails(t)

DeviceStep(d) == \/ Unlock(d) \/ Lock(d)
                 \/ \E version \in 0..MaxLevel : Restart(d, version)

Next == \/ \E d \in Devices : DeviceStep(d)
        \/ \E t \in Tasks : Edit(t) \/ PushStep(t) \/ SyncStep(t)
        \/ TakeBackup \/ Restore

Spec == Init /\ [][Next]_vars

-----------------------------------------------------------------------------
(* What item sync promises                                                 *)

\* Every variable has its type, in the shapes the code's types give it.
TypeOK == /\ rev \in Nat
          /\ rows \in [Items -> Row]
          /\ replica \in [Devices -> [Items -> Row]]
          /\ unreadable \in [Devices -> [Items -> Nat]]
          /\ cursor \in [Devices -> Nat]
          /\ level \in [Devices -> Nat]
          /\ open \in [Devices -> BOOLEAN]
          /\ sync \in [Tasks -> Sync]
          /\ push \in [Tasks -> Push]
          /\ backup \in [rev : Nat, rows : [Items -> Row]]
          /\ restores \in Nat

\* Nothing is ahead of the server, and nothing is a version the server never
\* had: a row of a replica is not newer than the server's, and one with the
\* server's revision holds the server's blob.
\* (sync.rs push: "the replica can never be ahead of the authority".)
Behind(row, i) == /\ row.rev <= rows[i].rev
                  /\ row.rev = rows[i].rev => row.blob = rows[i].blob

NeverAhead == \A d \in Devices, i \in Items : Behind(replica[d][i], i)

\* The server only ever replaces exactly the content the writer was looking
\* at: whatever other devices, lost answers, stale replicas and late commits
\* did between staging and acceptance.  (items.rs write, find_conflicts.)
NoBlindOverwrite ==
    [][\A i \in Items : rows'[i] # rows[i] =>
         \E t \in Tasks : /\ push[t].st \in {"sent", "orphan"}
                          /\ i \in Touched(push[t].batch)
                          /\ push[t].batch[i].seen = rows[i].blob
                          /\ push[t].batch[i].blob = rows'[i].blob]_vars

\* The replica shows the server's current version of i, or has recorded that
\* it could not open it and will ask again.
Mirrors(d, i) ==
    IF rows[i].blob = Deleted THEN replica[d][i] = NoRow
    ELSE replica[d][i] = rows[i] \/ unreadable[d][i] = rows[i].rev

\* The cursor never passes a version the replica does not have: the next
\* pull starts after the cursor, so such a version would never come again.
\* (sync.rs pull: "Never move the cursor past rows that were not sent".)
CursorCovers ==
    \A d \in Devices, i \in Items : rows[i].rev <= cursor[d] => Mirrors(d, i)

\* A pull from cursor 0 during which the server did not change leaves the
\* replica as the server is, however wrong it was before: Re-download
\* repairs.  (commands.rs resync_vault, drop_items_the_server_lacks.)
FullPullExact ==
    \A t \in Tasks : /\ sync[t].st = "retry"
                     /\ sync[t].fromZero
                     /\ sync[t].began = rev
                     => \A i \in Items : Mirrors(DeviceOf[t], i)

-----------------------------------------------------------------------------
(* A claim of the code's comments that its timing breaks.                  *)

\* A device with nothing under way whose cursor is the vault's revision has
\* caught up: a pull now brings nothing, so what it shows is what stays.
\* (client sync.rs sync_now: "pull until the replica has caught up".)
CaughtUp ==
    \A d \in Devices :
        /\ cursor[d] = rev
        /\ \A t \in TasksOf(d) : ~Running(t)
        => \A i \in Items : Mirrors(d, i)

-----------------------------------------------------------------------------
\* A device that stays unlocked, with an app that opens every blob, shows
\* exactly the server's items again and again, whatever was lost, refused or
\* interrupted before.  (sync.rs sync_now: "pull until the replica has
\* caught up".)
Exact(d) == \A i \in Items :
    replica[d][i] = IF rows[i].blob = Deleted THEN NoRow ELSE rows[i]

Syncing == {DeviceOf[t] : t \in Syncs}

Converges == \A d \in Syncing :
    <>[](open[d] /\ level[d] = MaxLevel) => []<>Exact(d)

-----------------------------------------------------------------------------
\* A device with a session pulls every minute; a request gets its answer
\* infinitely often, if it is made infinitely often; a push ends (the HTTP
\* client's timeout); the steps on the device are taken.
Fairness == /\ \A t \in Syncs : /\ SF_vars(SyncNow(t))
                               /\ SF_vars(ReadCursor(t))
                               /\ SF_vars(PullSizes(t))
                               /\ SF_vars(PullRows(t))
                               /\ SF_vars(PullApply(t))
                               /\ SF_vars(FetchItems(t))
                               /\ SF_vars(ApplyRefetched(t))
                               /\ WF_vars(DropLacking(t))
                               /\ WF_vars(RetryUnreadable(t))
                               /\ WF_vars(PurgeExpired(t))
            /\ \A t \in Tasks : WF_vars(PushStep(t))

LiveSpec == Spec /\ Fairness

-----------------------------------------------------------------------------
(* Small instances: two devices, d1 with tasks a and b.                     *)

OneTaskEach == [t \in {"a", "c"} |-> IF t = "c" THEN "d2" ELSE "d1"]
TwoTasks == [t \in {"a", "b", "c"} |-> IF t = "c" THEN "d2" ELSE "d1"]

\* The blob "new" needs app version 1; "old" and "trash" open everywhere.
Levels == [b \in Blobs |-> IF b = "new" THEN 1 ELSE 0]

=============================================================================
