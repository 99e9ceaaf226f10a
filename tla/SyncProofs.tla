----------------------------- MODULE SyncProofs -----------------------------
(***************************************************************************)
(* Proofs about ItemSync, for any number of items, devices and tasks and   *)
(* every loss; with every overlap of tasks where nothing else is said.     *)
(***************************************************************************)
EXTENDS ItemSync, TLAPS

USE ServerAssumption, ReplicaAssumption, ItemSyncAssumption

-----------------------------------------------------------------------------
(* Type correctness                                                        *)

LEMMA NoRowType == NoRow \in Row /\ EmptyPage \in Page
BY DEF NoRow, Row, EmptyPage, Page, Contents

LEMMA EmptyTypes == NoSync \in Sync /\ NoPush \in Push
BY NoRowType DEF NoSync, Sync, SyncStates, NoPush, Push, PushStates, EmptyBatch, Batch,
                 NoChange, Change, Contents

LEMMA InitType == Init => TypeOK
BY EmptyTypes, NoRowType DEF Init, ServerInit, ReplicaInit, TypeOK

\* What an operation on a replica leaves behind is a replica.
LEMMA ApplyChangesType ==
    ASSUME TypeOK, NEW d \in Devices, NEW I, NEW changes \in [Items -> Row],
           ApplyChanges(d, I, changes)
    PROVE  /\ replica' \in [Devices -> [Items -> Row]]
           /\ unreadable' \in [Devices -> [Items -> Nat]]
<1>1. \A i \in Items : ChangedRow(d, i, changes[i]) \in Row
  BY NoRowType DEF TypeOK, ChangedRow
<1>2. \A i \in Items : ChangedUnreadable(d, changes[i]) \in Nat
  BY DEF ChangedUnreadable, Row
<1> QED
  BY <1>1, <1>2 DEF TypeOK, ApplyChanges

LEMMA ServerAnswersType ==
    ASSUME TypeOK, NEW since \in Nat, NEW through \in Nat, NEW answered \in SUBSET Items
    PROVE  /\ RevisionsAfter(since) \subseteq Nat
           /\ RowsThrough(since, through) \in Page
           /\ FetchRows(answered) \in Page
BY NoRowType DEF TypeOK, RevisionsAfter, RowsThrough, FetchRows, Page, Row

LEMMA SendType ==
    ASSUME TypeOK, NEW t \in Tasks, NEW batch \in Batch, Send(t, batch)
    PROVE  push' \in [Tasks -> Push]
BY DEF TypeOK, Send, Push, PushStates

LEMMA BatchTypes ==
    ASSUME TypeOK, NEW d \in Devices, NEW I, NEW blob \in Contents
    PROVE  /\ Fresh(I, blob) \in Batch
           /\ OnTop(d, I, blob) \in Batch
BY DEF TypeOK, Fresh, OnTop, Batch, Change, NoChange, Contents, Row

LEMMA EditType ==
    ASSUME TypeOK, NEW t \in Tasks, Edit(t)
    PROVE  TypeOK'
<1> DeviceOf[t] \in Devices
  OBVIOUS
<1>1. ASSUME NEW I \in SUBSET Items, NEW b \in Blobs, StageCreate(t, I, b)
      PROVE  TypeOK'
  BY <1>1, SendType, BatchTypes DEF StageCreate, TypeOK, Contents, serverVars, backupVars, replicaVars
<1>2. ASSUME NEW b \in Blobs, StageIdentity(t, b)
      PROVE  TypeOK'
  BY <1>2, SendType, BatchTypes DEF StageIdentity, TypeOK, Contents, serverVars, backupVars, replicaVars
<1>3. ASSUME NEW i \in Items, NEW b \in Blobs, StageUpdate(t, i, b)
      PROVE  TypeOK'
  BY <1>3, SendType, BatchTypes DEF StageUpdate, TypeOK, Contents, serverVars, backupVars, replicaVars
<1>4. ASSUME NEW i \in Items, StageDelete(t, i)
      PROVE  TypeOK'
  BY <1>4, SendType, BatchTypes DEF StageDelete, TypeOK, Contents, serverVars, backupVars, replicaVars
<1>5. ASSUME NEW I \in SUBSET Items, StagePurge(t, I)
      PROVE  TypeOK'
  BY <1>5, SendType, BatchTypes DEF StagePurge, TypeOK, Contents, serverVars, backupVars, replicaVars
<1> QED
  BY <1>1, <1>2, <1>3, <1>4, <1>5 DEF Edit

LEMMA DeviceType ==
    ASSUME TypeOK, NEW d \in Devices, DeviceStep(d)
    PROVE  TypeOK'
<1>1. CASE Unlock(d)
  BY <1>1 DEF Unlock, TypeOK, serverVars, backupVars, replicaVars, taskVars
<1>2. CASE Lock(d)
  <2>1. \A u \in Tasks : push[u] \in Push
    BY DEF TypeOK
  <2>2. \A u \in Tasks : [push[u] EXCEPT !.stale = TRUE] \in Push
    BY <2>1 DEF Push
  <2>3. push' \in [Tasks -> Push]
    BY <1>2, <2>1, <2>2 DEF Lock
  <2> QED
    BY <1>2, <2>3 DEF Lock, TypeOK, serverVars, backupVars, replicaVars
<1>3. ASSUME NEW version \in 0..MaxLevel, Restart(d, version)
      PROVE  TypeOK'
  <2>1. \A u \in Tasks : push'[u] \in Push
    <3> SUFFICES ASSUME NEW u \in Tasks PROVE push'[u] \in Push
      OBVIOUS
    <3>0. push[u] \in Push
      BY DEF TypeOK
    <3>1. [push[u] EXCEPT !.st = "orphan"] \in Push
      BY <3>0 DEF Push, PushStates
    <3>2. CASE DeviceOf[u] # d \/ push[u].st = "orphan"
      BY <1>3, <3>0, <3>2 DEF Restart
    <3>3. CASE DeviceOf[u] = d /\ push[u].st = "sent"
      BY <1>3, <3>1, <3>3 DEF Restart
    <3>4. CASE DeviceOf[u] = d /\ push[u].st \notin {"sent", "orphan"}
      BY <1>3, <3>4, EmptyTypes DEF Restart
    <3> QED
      BY <3>2, <3>3, <3>4
  <2>2. push' \in [Tasks -> Push]
    BY <1>3, <2>1 DEF Restart
  <2>3. sync' \in [Tasks -> Sync]
    BY <1>3, EmptyTypes DEF Restart, TypeOK
  <2> QED
    BY <1>3, <2>2, <2>3 DEF Restart, TypeOK, serverVars, backupVars
<1> QED
  BY <1>1, <1>2, <1>3 DEF DeviceStep

LEMMA PushType ==
    ASSUME TypeOK, NEW t \in Tasks, PushStep(t)
    PROVE  TypeOK'
<1> DeviceOf[t] \in Devices /\ push[t] \in Push
  BY DEF TypeOK
<1>1. CASE AcceptWrite(t)
  <2>1. rows' \in [Items -> Row] /\ rev' \in Nat
    BY <1>1 DEF AcceptWrite, ApplyBatch, TypeOK, Push, Batch, Change, Row
  <2>2. [push[t] EXCEPT !.st = "acked", !.rev = rev + 1] \in Push
    <3>1. rev + 1 \in Nat
      BY DEF TypeOK
    <3> QED
      BY <3>1 DEF Push, PushStates
  <2>3. CASE push[t].st = "sent"
    <3>1. push' = [push EXCEPT ![t] = [push[t] EXCEPT !.st = "acked", !.rev = rev + 1]]
      BY <1>1, <2>3 DEF AcceptWrite
    <3> QED
      BY <2>2, <3>1, <2>1, <1>1 DEF AcceptWrite, TypeOK, replicaVars, backupVars
  <2>4. CASE push[t].st # "sent"
    <3>1. push' = [push EXCEPT ![t] = NoPush]
      BY <1>1, <2>4 DEF AcceptWrite
    <3> QED
      BY <3>1, <2>1, <1>1, EmptyTypes DEF AcceptWrite, TypeOK, replicaVars, backupVars
  <2> QED
    BY <2>3, <2>4
<1>2. CASE RefuseWrite(t)
  BY <1>2, EmptyTypes DEF RefuseWrite, TypeOK, serverVars, backupVars, replicaVars
<1>3. CASE PushFails(t)
  BY <1>3, EmptyTypes DEF PushFails, TypeOK, serverVars, backupVars, replicaVars
<1>4. CASE PushTimesOut(t)
  BY <1>4, EmptyTypes DEF PushTimesOut, TypeOK, serverVars, backupVars, replicaVars, Push, PushStates
<1>5. ASSUME NEW i \in Items, CommitWrite(t, i)
      PROVE  TypeOK'
  <2>1. replica' \in [Devices -> [Items -> Row]]
    BY <1>5, NoRowType DEF CommitWrite, CommitRow, TypeOK, Push, Batch, Change, Row
  <2>2. push' \in [Tasks -> Push]
    BY <1>5, EmptyTypes DEF CommitWrite, TypeOK, Push, PushStates, Batch, NoChange, Change,
                            Contents
  <2> QED
    BY <1>5, <2>1, <2>2 DEF CommitWrite, TypeOK, serverVars, backupVars
<1>6. CASE CommitRefused(t)
  BY <1>6, EmptyTypes DEF CommitRefused, TypeOK, serverVars, backupVars, replicaVars
<1> QED
  BY <1>1, <1>2, <1>3, <1>4, <1>5, <1>6 DEF PushStep

LEMMA SyncType ==
    ASSUME TypeOK, NEW t \in Tasks, SyncStep(t)
    PROVE  TypeOK'
<1> DeviceOf[t] \in Devices /\ sync[t] \in Sync
  BY DEF TypeOK
<1> Held(DeviceOf[t]) \subseteq Items /\ Unreadable(DeviceOf[t]) \subseteq Items
  BY DEF Held, Unreadable
<1> USE EmptyTypes, NoRowType
<1>1. CASE SyncNow(t)
  BY <1>1 DEF SyncNow, TypeOK, serverVars, backupVars, replicaVars, Sync, SyncStates
<1>2. CASE Resync(t)
  BY <1>2 DEF Resync, ResetCursor, TypeOK, serverVars, backupVars, Sync, SyncStates
<1>3. CASE ReadCursor(t)
  BY <1>3 DEF ReadCursor, TypeOK, serverVars, backupVars, replicaVars, Sync, SyncStates
<1>4. CASE PullSizes(t)
  <2> RevisionsAfter(sync[t].since) \subseteq Nat
    BY ServerAnswersType DEF Sync
  <2>1. \A r \in Nat, m \in BOOLEAN :
           [sync[t] EXCEPT !.st = "sized", !.next = r, !.more = m] \in Sync
    BY DEF Sync, SyncStates
  <2>2. PICK r \in Nat, m \in BOOLEAN :
           sync' = [sync EXCEPT ![t] = [sync[t] EXCEPT !.st = "sized", !.next = r, !.more = m]]
    BY <1>4 DEF PullSizes
  <2> DEFINE s == [sync[t] EXCEPT !.st = "sized", !.next = r, !.more = m]
  <2>3. sync' \in [Tasks -> Sync]
    <3>1. s \in Sync
      BY <2>1
    <3> QED
      BY <2>2, <3>1 DEF TypeOK
  <2> QED
    BY <1>4, <2>3 DEF PullSizes, TypeOK, serverVars, backupVars, replicaVars
<1>5. CASE PullRows(t)
  <2> RowsThrough(sync[t].since, sync[t].next) \in Page
    BY ServerAnswersType DEF Sync
  <2> QED
    BY <1>5 DEF PullRows, TypeOK, serverVars, backupVars, replicaVars, Sync, SyncStates
<1>6. CASE PullRewound(t)
  <2> DEFINE s == [sync[t] EXCEPT !.st = "asked", !.since = 0, !.fromZero = TRUE,
                                  !.held = Held(DeviceOf[t]), !.seen = {}, !.began = rev]
  <2>1. s \in Sync
    BY DEF TypeOK, Sync, SyncStates
  <2>2. sync' \in [Tasks -> Sync]
    <3>1. CASE sync[t].fromZero
      BY <1>6, <3>1 DEF PullRewound, TypeOK
    <3>2. CASE ~sync[t].fromZero
      <4>1. sync' = [sync EXCEPT ![t] = s]
        BY <1>6, <3>2 DEF PullRewound
      <4> QED
        BY <2>1, <4>1 DEF TypeOK
    <3> QED
      BY <3>1, <3>2
  <2>3. unreadable' \in [Devices -> [Items -> Nat]] /\ cursor' \in [Devices -> Nat]
    <3>1. CASE sync[t].fromZero
      BY <1>6, <3>1 DEF PullRewound, TypeOK
    <3>2. CASE ~sync[t].fromZero
      <4>1. ResetCursor(DeviceOf[t])
        BY <1>6, <3>2 DEF PullRewound
      <4> QED
        BY <4>1 DEF ResetCursor, TypeOK
    <3> QED
      BY <3>1, <3>2
  <2> QED
    BY <1>6, <2>2, <2>3 DEF PullRewound, TypeOK, serverVars, backupVars
<1>7. CASE PullApply(t)
  <2>1. /\ replica' \in [Devices -> [Items -> Row]]
        /\ unreadable' \in [Devices -> [Items -> Nat]]
    BY <1>7, ApplyChangesType DEF PullApply, ApplyRemoteChanges, Sync, Page
  <2>2. cursor' \in [Devices -> Nat]
    BY <1>7 DEF PullApply, ApplyRemoteChanges, TypeOK, Sync
  <2>3. sync' \in [Tasks -> Sync]
    BY <1>7 DEF PullApply, TypeOK, Sync, SyncStates, Mentioned
  <2> QED
    BY <1>7, <2>1, <2>2, <2>3 DEF PullApply, TypeOK, serverVars, backupVars
<1>8. CASE DropLacking(t)
  <2>1. /\ replica' \in [Devices -> [Items -> Row]]
        /\ unreadable' \in [Devices -> [Items -> Nat]]
    BY <1>8, ApplyChangesType DEF DropLacking, DropItemsTheServerLacks, Page
  <2> QED
    BY <1>8, <2>1 DEF DropLacking, TypeOK, serverVars, backupVars, Sync, SyncStates
<1>9. CASE RetryUnreadable(t)
  BY <1>9 DEF RetryUnreadable, TypeOK, serverVars, backupVars, replicaVars, Sync, SyncStates
<1>10. CASE FetchItems(t)
  <2>1. PICK answered \in SUBSET {i \in sync[t].ask : rows[i].rev > 0} :
           sync' = [sync EXCEPT ![t] =
               [@ EXCEPT !.st = "fetched",
                         !.page = FetchRows(answered),
                         !.answered = sync[t].ask \ ({i \in sync[t].ask : rows[i].rev > 0} \ answered),
                         !.ask = {i \in sync[t].ask : rows[i].rev > 0} \ answered]]
    BY <1>10 DEF FetchItems
  <2>2. answered \in SUBSET Items
    BY DEF Sync
  <2>3. FetchRows(answered) \in Page
    BY <2>2, ServerAnswersType
  <2> QED
    BY <1>10, <2>1, <2>3 DEF FetchItems, TypeOK, serverVars, backupVars, replicaVars, Sync, SyncStates
<1>11. CASE ApplyRefetched(t)
  <2>1. /\ replica' \in [Devices -> [Items -> Row]]
        /\ unreadable' \in [Devices -> [Items -> Nat]]
    BY <1>11, ApplyChangesType DEF ApplyRefetched, Refetch, Sync, Page
  <2> QED
    BY <1>11, <2>1 DEF ApplyRefetched, TypeOK, serverVars, backupVars, Sync, SyncStates
<1>12. CASE FetchFails(t)
  BY <1>12 DEF FetchFails, TypeOK, serverVars, backupVars, replicaVars, Sync, SyncStates
<1>13. CASE PurgeExpired(t)
  <2>1. push' \in [Tasks -> Push]
    BY <1>13, SendType, BatchTypes DEF PurgeExpired, TypeOK, Contents
  <2> QED
    BY <1>13, <2>1 DEF PurgeExpired, TypeOK, serverVars, backupVars, replicaVars
<1>14. CASE SyncFails(t)
  BY <1>14 DEF SyncFails, TypeOK, serverVars, backupVars, replicaVars
<1> QED
  BY <1>1, <1>2, <1>3, <1>4, <1>5, <1>6, <1>7, <1>8, <1>9, <1>10, <1>11, <1>12, <1>13,
     <1>14 DEF SyncStep

LEMMA RestoreType ==
    ASSUME TypeOK, TakeBackup \/ Restore
    PROVE  TypeOK'
<1>1. CASE TakeBackup
  BY <1>1 DEF TakeBackup, TypeOK, serverVars, replicaVars, taskVars
<1>2. CASE Restore
  <2>1. \A u \in Tasks : /\ sync[u] \in Sync
                         /\ [NoSync EXCEPT !.st = "purge"] \in Sync
                         /\ [sync[u] EXCEPT !.began = MaxRevision + 1] \in Sync
    <3>1. \A u \in Tasks : sync[u] \in Sync
      BY DEF TypeOK
    <3> QED
      BY <3>1, EmptyTypes DEF Sync, SyncStates
  <2>2. sync' \in [Tasks -> Sync]
    BY <1>2, <2>1, EmptyTypes DEF Restore
  <2>3. push' \in [Tasks -> Push]
    BY <1>2, EmptyTypes DEF Restore, TypeOK
  <2>4. rev' \in Nat /\ rows' \in [Items -> Row] /\ restores' \in Nat
    BY <1>2 DEF Restore, TypeOK
  <2> QED
    BY <1>2, <2>2, <2>3, <2>4 DEF Restore, TypeOK, replicaVars
<1> QED
  BY <1>1, <1>2

\* Every step of Next, or none, keeps the types.
LEMMA NextType == TypeOK /\ [Next]_vars => TypeOK'
<1> SUFFICES ASSUME TypeOK, [Next]_vars PROVE TypeOK'
  OBVIOUS
<1>1. CASE Next
  BY <1>1, DeviceType, EditType, PushType, SyncType, RestoreType DEF Next
<1>2. CASE UNCHANGED vars
  BY <1>2 DEF vars, TypeOK
<1> QED
  BY <1>1, <1>2

\* Type correctness: the vault's rows, the replicas and the local state of
\* every task keep their shape.
THEOREM TypeCorrect == Spec => []TypeOK
BY InitType, NextType, PTL DEF Spec

-----------------------------------------------------------------------------
(* Nothing is ahead of the server                                          *)

\* NeverAhead holds by induction only together with what is under way: the
\* rows of answers still to be applied, the writes accepted and still to be
\* recorded, and what a writer was looking at are all versions the server had.
ServerOrdered == \A i \in Items : /\ rows[i].rev <= rev
                                  /\ rows[i].rev = 0 => rows[i] = NoRow
PagesBehind == \A t \in Tasks, i \in Items : Behind(sync[t].page[i], i)
AcksBehind == \A t \in Tasks : push[t].st = "acked" =>
    \A i \in Touched(push[t].batch) :
        Behind([rev |-> push[t].rev, blob |-> push[t].batch[i].blob], i)
BasesBehind == \A t \in Tasks : push[t].st \in {"sent", "orphan"} =>
    \A i \in Touched(push[t].batch) :
        Behind([rev |-> push[t].batch[i].base, blob |-> push[t].batch[i].seen], i)

VersionsExist == /\ TypeOK
                 /\ ServerOrdered
                 /\ NeverAhead
                 /\ PagesBehind
                 /\ AcksBehind
                 /\ BasesBehind

LEMMA NoRowBehind ==
    ASSUME TypeOK, ServerOrdered, NEW i \in Items
    PROVE  Behind(NoRow, i)
BY DEF TypeOK, ServerOrdered, Behind, NoRow, Row

LEMMA InitVersions == Init => VersionsExist
<1> SUFFICES ASSUME Init PROVE VersionsExist
  OBVIOUS
<1>1. TypeOK
  BY InitType
<1>2. ServerOrdered
  BY DEF Init, ServerInit, ServerOrdered, NoRow
<1>3. NeverAhead
  BY <1>1, <1>2, NoRowBehind DEF Init, ReplicaInit, NeverAhead
<1>4. PagesBehind
  BY <1>1, <1>2, NoRowBehind DEF Init, NoSync, EmptyPage, PagesBehind
<1>5. AcksBehind /\ BasesBehind
  BY DEF Init, NoPush, AcksBehind, BasesBehind
<1> QED
  BY <1>1, <1>2, <1>3, <1>4, <1>5 DEF VersionsExist

\* A version the server had stays one when the server accepts a write.
LEMMA WriteKeepsBehind ==
    ASSUME TypeOK, ServerOrdered, NEW batch \in Batch, ApplyBatch(batch),
           NEW i \in Items, NEW row \in Row, Behind(row, i)
    PROVE  /\ row.rev <= rows'[i].rev
           /\ row.rev = rows'[i].rev => row.blob = rows'[i].blob
<1>1. row.rev \in Nat /\ rev \in Nat /\ rows[i].rev \in Nat /\ rows[i].rev <= rev
  BY DEF TypeOK, ServerOrdered, Row
<1>2. CASE i \in Touched(batch)
  <2>1. rows'[i].rev = rev + 1
    BY <1>2 DEF ApplyBatch
  <2> QED
    BY <1>1, <2>1 DEF Behind
<1>3. CASE i \notin Touched(batch)
  <2>1. rows'[i] = rows[i]
    BY <1>3 DEF ApplyBatch
  <2> QED
    BY <2>1 DEF Behind
<1> QED
  BY <1>2, <1>3

\* Applying versions the server had leaves a replica of such versions.
LEMMA ApplyKeepsBehind ==
    ASSUME VersionsExist, NEW d \in Devices, NEW I, NEW changes \in [Items -> Row],
           \A i \in Items : Behind(changes[i], i),
           ApplyChanges(d, I, changes), UNCHANGED serverVars
    PROVE  NeverAhead'
<1>1. \A i \in Items : Behind(ChangedRow(d, i, changes[i]), i)
  BY NoRowBehind DEF VersionsExist, NeverAhead, ChangedRow
<1>2. \A e \in Devices, i \in Items :
         replica'[e][i] \in {replica[e][i], ChangedRow(d, i, changes[i])}
               /\ (e # d => replica'[e][i] = replica[e][i])
  BY DEF ApplyChanges, VersionsExist, TypeOK
<1> QED
  BY <1>1, <1>2 DEF VersionsExist, NeverAhead, Behind, serverVars

\* A batch on top of versions the server had, sent.
LEMMA SendKeepsBehind ==
    ASSUME VersionsExist, NEW t \in Tasks, NEW batch \in Batch,
           \A i \in Touched(batch) :
               Behind([rev |-> batch[i].base, blob |-> batch[i].seen], i),
           Send(t, batch), UNCHANGED serverVars
    PROVE  AcksBehind' /\ BasesBehind'
<1>1. \A u \in Tasks \ {t} : push'[u] = push[u]
  BY DEF Send, VersionsExist, TypeOK
<1>2. push'[t].st = "sent" /\ push'[t].batch = batch
  BY DEF Send, VersionsExist, TypeOK
<1>3. AcksBehind'
  BY <1>1, <1>2 DEF VersionsExist, AcksBehind, Behind, Touched, serverVars
<1>4. BasesBehind'
  BY <1>1, <1>2 DEF VersionsExist, BasesBehind, Behind, Touched, serverVars
<1> QED
  BY <1>3, <1>4

LEMMA StagedBehind ==
    ASSUME VersionsExist, NEW d \in Devices, NEW I, NEW blob \in Contents
    PROVE  /\ \A i \in Touched(OnTop(d, I, blob)) :
                 Behind([rev |-> OnTop(d, I, blob)[i].base,
                         blob |-> OnTop(d, I, blob)[i].seen], i)
           /\ \A i \in Touched(Fresh(I, blob)) :
                 Behind([rev |-> Fresh(I, blob)[i].base,
                         blob |-> Fresh(I, blob)[i].seen], i)
<1>1. \A i \in Touched(OnTop(d, I, blob)) :
         i \in Items /\ OnTop(d, I, blob)[i].base = replica[d][i].rev
                     /\ OnTop(d, I, blob)[i].seen = replica[d][i].blob
  BY DEF Touched, OnTop
<1>2. \A i \in Touched(Fresh(I, blob)) :
         i \in Items /\ Fresh(I, blob)[i].base = 0 /\ Fresh(I, blob)[i].seen = Deleted
  BY DEF Touched, Fresh
<1>3. \A i \in Items : Behind(NoRow, i)
  BY NoRowBehind DEF VersionsExist
<1> QED
  BY <1>1, <1>2, <1>3 DEF VersionsExist, NeverAhead, Behind, NoRow

\* What a step keeps when it leaves the server's tables alone.
LEMMA ServerUntouched ==
    ASSUME VersionsExist, UNCHANGED serverVars
    PROVE  /\ ServerOrdered'
           /\ UNCHANGED replica => NeverAhead'
           /\ (\A u \in Tasks : sync'[u].page = sync[u].page \/ sync'[u].page = EmptyPage)
                 => PagesBehind'
           /\ (\A u \in Tasks : push'[u] = push[u] \/ push'[u] = NoPush)
                 => AcksBehind' /\ BasesBehind'
<1>1. ServerOrdered' /\ (UNCHANGED replica => NeverAhead')
  BY DEF VersionsExist, ServerOrdered, NeverAhead, Behind, serverVars
<1>2. ASSUME \A u \in Tasks : sync'[u].page = sync[u].page \/ sync'[u].page = EmptyPage
      PROVE  PagesBehind'
  <2>1. \A i \in Items : EmptyPage[i] = NoRow /\ Behind(NoRow, i)
    BY NoRowBehind DEF VersionsExist, EmptyPage
  <2> QED
    BY <1>2, <2>1 DEF VersionsExist, PagesBehind, Behind, serverVars
<1>3. ASSUME \A u \in Tasks : push'[u] = push[u] \/ push'[u] = NoPush
      PROVE  AcksBehind' /\ BasesBehind'
  <2>1. NoPush.st = "idle"
    BY DEF NoPush
  <2>2. AcksBehind'
    BY <1>3, <2>1 DEF VersionsExist, AcksBehind, Behind, Touched, serverVars
  <2>3. BasesBehind'
    BY <1>3, <2>1 DEF VersionsExist, BasesBehind, Behind, Touched, serverVars
  <2> QED
    BY <2>2, <2>3
<1> QED
  BY <1>1, <1>2, <1>3

LEMMA EditVersions ==
    ASSUME VersionsExist, NEW t \in Tasks, Edit(t)
    PROVE  VersionsExist'
<1> DeviceOf[t] \in Devices /\ TypeOK
  BY DEF VersionsExist
<1>1. ASSUME NEW batch \in Batch, Send(t, batch), UNCHANGED <<serverVars, replica, sync>>,
             \A i \in Touched(batch) :
                 Behind([rev |-> batch[i].base, blob |-> batch[i].seen], i)
      PROVE  VersionsExist'
  BY <1>1, EditType, SendKeepsBehind, ServerUntouched DEF VersionsExist
<1>2. ASSUME NEW I, NEW b \in Contents,
             Send(t, Fresh(I, b)) \/ Send(t, OnTop(DeviceOf[t], I, b)),
             UNCHANGED <<serverVars, replica, sync>>
      PROVE  VersionsExist'
  BY <1>1, <1>2, BatchTypes, StagedBehind
<1>3. ASSUME NEW I \in SUBSET Items, NEW b \in Blobs, StageCreate(t, I, b)
      PROVE  VersionsExist'
  BY <1>2, <1>3 DEF StageCreate, Contents, replicaVars
<1>4. ASSUME NEW b \in Blobs, StageIdentity(t, b)
      PROVE  VersionsExist'
  BY <1>2, <1>4 DEF StageIdentity, Contents, replicaVars
<1>5. ASSUME NEW i \in Items, NEW b \in Blobs, StageUpdate(t, i, b)
      PROVE  VersionsExist'
  BY <1>2, <1>5 DEF StageUpdate, Contents, replicaVars
<1>6. ASSUME NEW i \in Items, StageDelete(t, i)
      PROVE  VersionsExist'
  BY <1>2, <1>6 DEF StageDelete, Contents, replicaVars
<1>7. ASSUME NEW I \in SUBSET Items, StagePurge(t, I)
      PROVE  VersionsExist'
  BY <1>2, <1>7 DEF StagePurge, Contents, replicaVars
<1> QED
  BY <1>3, <1>4, <1>5, <1>6, <1>7 DEF Edit

LEMMA DeviceVersions ==
    ASSUME VersionsExist, NEW d \in Devices, DeviceStep(d)
    PROVE  VersionsExist'
<1>1. TypeOK'
  BY DeviceType DEF VersionsExist
<1>2. CASE Unlock(d)
  BY <1>1, <1>2, ServerUntouched DEF Unlock, VersionsExist, replicaVars, taskVars
<1>4. CASE Lock(d)
  <2>1. UNCHANGED <<serverVars, replica, sync>>
    BY <1>4 DEF Lock, replicaVars
  <2>2. \A u \in Tasks : /\ push'[u].st = push[u].st
                         /\ push'[u].batch = push[u].batch
                         /\ push'[u].rev = push[u].rev
    BY <1>4 DEF Lock, VersionsExist, TypeOK, Push
  <2>3. AcksBehind'
    BY <2>1, <2>2 DEF VersionsExist, AcksBehind, Behind, Touched, serverVars
  <2>4. BasesBehind'
    BY <2>1, <2>2 DEF VersionsExist, BasesBehind, Behind, Touched, serverVars
  <2> QED
    BY <1>1, <2>1, <2>3, <2>4, ServerUntouched DEF VersionsExist
<1>3. ASSUME NEW version \in 0..MaxLevel, Restart(d, version)
      PROVE  VersionsExist'
  <2>1. UNCHANGED <<serverVars, replica>>
    BY <1>3 DEF Restart
  <2>2. \A u \in Tasks : sync'[u].page = sync[u].page \/ sync'[u].page = EmptyPage
    BY <1>3 DEF Restart, NoSync
  <2>3. \A u \in Tasks : \/ push'[u] = push[u]
                         \/ push'[u] = NoPush
                         \/ /\ push[u].st = "sent"
                            /\ push'[u].st = "orphan"
                            /\ push'[u].batch = push[u].batch
    BY <1>3 DEF Restart, VersionsExist, TypeOK, Push
  <2>4. AcksBehind'
    BY <2>1, <2>3 DEF VersionsExist, AcksBehind, Behind, Touched, serverVars, NoPush
  <2>5. BasesBehind'
    BY <2>1, <2>3 DEF VersionsExist, BasesBehind, Behind, Touched, serverVars, NoPush
  <2> QED
    BY <1>1, <2>1, <2>2, <2>4, <2>5, ServerUntouched DEF VersionsExist
<1> QED
  BY <1>2, <1>3, <1>4 DEF DeviceStep

LEMMA AcceptVersions ==
    ASSUME VersionsExist, NEW t \in Tasks, AcceptWrite(t)
    PROVE  VersionsExist'
<1> DEFINE batch == push[t].batch
<1>1. TypeOK /\ ServerOrdered /\ TypeOK'
  BY PushType DEF VersionsExist, PushStep
<1>2. batch \in Batch /\ ApplyBatch(batch)
  BY <1>1 DEF AcceptWrite, TypeOK, Push
<1>3. ASSUME NEW i \in Items, NEW row \in Row, Behind(row, i)
      PROVE  /\ row.rev <= rows'[i].rev
             /\ row.rev = rows'[i].rev => row.blob = rows'[i].blob
  BY <1>1, <1>2, <1>3, WriteKeepsBehind
<1>4. \A u \in Tasks \ {t} : push'[u] = push[u]
  BY DEF AcceptWrite, VersionsExist, TypeOK
<1>5. ServerOrdered'
  <2>1. SUFFICES ASSUME NEW i \in Items
                 PROVE  rows'[i].rev <= rev' /\ (rows'[i].rev = 0 => rows'[i] = NoRow)
    BY DEF ServerOrdered
  <2>2. rev \in Nat /\ rev' = rev + 1 /\ rows[i].rev \in Nat /\ rows[i].rev <= rev
    BY <1>1, <1>2 DEF TypeOK, ServerOrdered, ApplyBatch, Row
  <2>3. CASE i \in Touched(batch)
    <3>1. rows'[i].rev = rev + 1
      BY <1>2, <2>3 DEF ApplyBatch
    <3> QED
      BY <2>2, <3>1
  <2>4. CASE i \notin Touched(batch)
    <3>1. rows'[i] = rows[i]
      BY <1>2, <2>4 DEF ApplyBatch
    <3> QED
      BY <1>1, <2>2, <3>1 DEF ServerOrdered
  <2> QED
    BY <2>3, <2>4
<1>6. NeverAhead'
  <2>1. replica' = replica /\ \A d \in Devices, i \in Items : replica[d][i] \in Row
    BY <1>1 DEF AcceptWrite, replicaVars, TypeOK
  <2> QED
    BY <1>3, <2>1 DEF VersionsExist, NeverAhead, Behind
<1>7. PagesBehind'
  <2>1. sync' = sync /\ \A u \in Tasks, i \in Items : sync[u].page[i] \in Row
    BY <1>1 DEF AcceptWrite, TypeOK, Sync, Page
  <2> QED
    BY <1>3, <2>1 DEF VersionsExist, PagesBehind, Behind
<1>8. AcksBehind'
  <2>1. SUFFICES ASSUME NEW u \in Tasks, push'[u].st = "acked",
                        NEW i \in Touched(push'[u].batch)
                 PROVE  /\ push'[u].rev <= rows'[i].rev
                        /\ push'[u].rev = rows'[i].rev => push'[u].batch[i].blob = rows'[i].blob
    BY DEF AcksBehind, Behind, Touched
  <2>2. CASE u = t
    <3>1. push[t].st = "sent"
      BY <1>1, <2>1, <2>2 DEF AcceptWrite, TypeOK, NoPush
    <3>2. push'[t].rev = rev + 1 /\ push'[t].batch = batch
      BY <1>1, <3>1 DEF AcceptWrite, TypeOK, Push
    <3>3. i \in Items /\ rows'[i] = [rev |-> rev + 1, blob |-> batch[i].blob]
      BY <1>2, <2>1, <2>2, <3>2 DEF ApplyBatch, Touched
    <3> QED
      BY <1>1, <2>2, <3>2, <3>3 DEF TypeOK
  <2>3. CASE u # t
    <3> DEFINE row == [rev |-> push[u].rev, blob |-> push[u].batch[i].blob]
    <3>1. push'[u] = push[u] /\ i \in Items
      BY <1>4, <2>1, <2>3 DEF Touched
    <3>2. row \in Row /\ Behind(row, i)
      BY <1>1, <2>1, <3>1 DEF TypeOK, Push, Batch, Change, Row, VersionsExist, AcksBehind
    <3> QED
      BY <1>3, <3>1, <3>2
  <2> QED
    BY <2>2, <2>3
<1>9. BasesBehind'
  <2>1. SUFFICES ASSUME NEW u \in Tasks, push'[u].st \in {"sent", "orphan"},
                        NEW i \in Touched(push'[u].batch)
                 PROVE  /\ push'[u].batch[i].base <= rows'[i].rev
                        /\ push'[u].batch[i].base = rows'[i].rev
                              => push'[u].batch[i].seen = rows'[i].blob
    BY DEF BasesBehind, Behind, Touched
  <2>2. u # t
    <3>1. push'[t].st \in {"acked", "idle"}
      BY <1>1 DEF AcceptWrite, TypeOK, Push, NoPush
    <3> QED
      BY <2>1, <3>1
  <2> DEFINE row == [rev |-> push[u].batch[i].base, blob |-> push[u].batch[i].seen]
  <2>3. push'[u] = push[u] /\ i \in Items
    BY <1>4, <2>1, <2>2 DEF Touched
  <2>4. row \in Row /\ Behind(row, i)
    BY <1>1, <2>1, <2>3 DEF TypeOK, Push, Batch, Change, Row, VersionsExist, BasesBehind
  <2> QED
    BY <1>3, <2>3, <2>4
<1> QED
  BY <1>1, <1>5, <1>6, <1>7, <1>8, <1>9 DEF VersionsExist

LEMMA PushVersions ==
    ASSUME VersionsExist, NEW t \in Tasks, PushStep(t)
    PROVE  VersionsExist'
<1>1. TypeOK'
  BY PushType DEF VersionsExist
<1>2. CASE AcceptWrite(t)
  BY <1>2, AcceptVersions
<1>3. CASE RefuseWrite(t) \/ PushFails(t) \/ CommitRefused(t)
  <2>1. UNCHANGED <<serverVars, replica, sync>> /\ push' = [push EXCEPT ![t] = NoPush]
    BY <1>3 DEF RefuseWrite, PushFails, CommitRefused, replicaVars
  <2>2. \A u \in Tasks : push'[u] = push[u] \/ push'[u] = NoPush
    BY <2>1 DEF VersionsExist, TypeOK
  <2> QED
    BY <1>1, <2>1, <2>2, ServerUntouched DEF VersionsExist
<1>4. CASE PushTimesOut(t)
  <2>1. UNCHANGED <<serverVars, replica, sync>>
    BY <1>4 DEF PushTimesOut, replicaVars
  <2>2. \A u \in Tasks \ {t} : push'[u] = push[u]
    BY <1>4 DEF PushTimesOut, VersionsExist, TypeOK
  <2>3. push[t].st = "sent" /\ push'[t].st = "orphan" /\ push'[t].batch = push[t].batch
    BY <1>4 DEF PushTimesOut, VersionsExist, TypeOK, Push
  <2>4. AcksBehind'
    BY <2>1, <2>2, <2>3 DEF VersionsExist, AcksBehind, Behind, Touched, serverVars
  <2>5. BasesBehind'
    BY <2>1, <2>2, <2>3 DEF VersionsExist, BasesBehind, Behind, Touched, serverVars
  <2> QED
    BY <1>1, <2>1, <2>4, <2>5, ServerUntouched DEF VersionsExist
<1>5. ASSUME NEW i \in Items, CommitWrite(t, i)
      PROVE  VersionsExist'
  <2> DEFINE row == [rev |-> push[t].rev, blob |-> push[t].batch[i].blob]
             rest == [push[t].batch EXCEPT ![i] = NoChange]
  <2>1. UNCHANGED <<serverVars, sync>>
    BY <1>5 DEF CommitWrite
  <2>2. Behind(row, i) /\ Behind(NoRow, i)
    BY <1>5, NoRowBehind DEF CommitWrite, VersionsExist, AcksBehind
  <2>3. NeverAhead'
    <3>1. \A d \in Devices, j \in Items :
             \/ replica'[d][j] = replica[d][j]
             \/ j = i /\ replica'[d][j] \in {row, NoRow}
      BY <1>5 DEF CommitWrite, CommitRow, VersionsExist, TypeOK
    <3> QED
      BY <2>1, <2>2, <3>1 DEF VersionsExist, NeverAhead, Behind, serverVars
  <2>4. \A u \in Tasks : \/ push'[u] = push[u]
                         \/ push'[u] = NoPush
                         \/ /\ u = t
                            /\ push[t].st = "acked"
                            /\ push'[t].st = "acked"
                            /\ push'[t].rev = push[t].rev
                            /\ push'[t].batch = rest
    <3>1. push \in [Tasks -> Push]
      BY DEF VersionsExist, TypeOK
    <3>2. push[t].st = "acked" /\ (\/ push' = [push EXCEPT ![t] = NoPush]
                                  \/ push' = [push EXCEPT ![t] = [push[t] EXCEPT !.batch = rest]])
      BY <1>5 DEF CommitWrite
    <3>3. LET p == [push[t] EXCEPT !.batch = rest]
          IN  p.st = push[t].st /\ p.rev = push[t].rev /\ p.batch = rest
      BY <3>1 DEF Push
    <3> QED
      BY <3>1, <3>2, <3>3
  <2>5. \A j \in Touched(rest) : j \in Touched(push[t].batch) /\ rest[j] = push[t].batch[j]
    BY DEF Touched, VersionsExist, TypeOK, Push, Batch
  <2>6. NoPush.st = "idle"
    BY DEF NoPush
  <2>7. AcksBehind'
    <3>1. SUFFICES ASSUME NEW u \in Tasks, push'[u].st = "acked",
                          NEW j \in Touched(push'[u].batch)
                   PROVE  /\ push[u].st = "acked"
                          /\ push'[u].rev = push[u].rev
                          /\ j \in Touched(push[u].batch)
                          /\ push'[u].batch[j] = push[u].batch[j]
      BY <2>1 DEF VersionsExist, AcksBehind, Behind, Touched, serverVars
    <3>2. CASE push'[u] = push[u]
      BY <3>1, <3>2
    <3>3. CASE u = t /\ push[t].st = "acked" /\ push'[t].rev = push[t].rev
               /\ push'[t].batch = rest
      BY <2>5, <3>1, <3>3
    <3> QED
      BY <2>4, <2>6, <3>1, <3>2, <3>3
  <2>8. BasesBehind'
    BY <2>1, <2>4, <2>6 DEF VersionsExist, BasesBehind, Behind, Touched, serverVars
  <2> QED
    BY <1>1, <2>1, <2>3, <2>7, <2>8, ServerUntouched DEF VersionsExist
<1> QED
  BY <1>2, <1>3, <1>4, <1>5 DEF PushStep

LEMMA SyncVersions ==
    ASSUME VersionsExist, NEW t \in Tasks, SyncStep(t)
    PROVE  VersionsExist'
<1> DEFINE d == DeviceOf[t]
<1>1. TypeOK /\ TypeOK' /\ d \in Devices /\ sync[t] \in Sync
  BY SyncType DEF VersionsExist, TypeOK
<1>2. UNCHANGED serverVars
  BY DEF SyncStep, SyncNow, Resync, ReadCursor, PullSizes, PullRows, PullRewound, PullApply,
         DropLacking, RetryUnreadable, FetchItems, ApplyRefetched, FetchFails, PurgeExpired,
         SyncFails
<1>3. ServerOrdered'
  BY <1>2, ServerUntouched
<1>4. NeverAhead'
  <2>1. CASE PullApply(t)
    <3>1. sync[t].page \in [Items -> Row] /\ \A i \in Items : Behind(sync[t].page[i], i)
      BY <1>1 DEF VersionsExist, PagesBehind, Sync, Page
    <3> QED
      BY <1>1, <1>2, <2>1, <3>1, ApplyKeepsBehind DEF PullApply, ApplyRemoteChanges
  <2>2. CASE DropLacking(t)
    <3>1. EmptyPage \in [Items -> Row] /\ \A i \in Items : Behind(EmptyPage[i], i)
      BY <1>1, NoRowType, NoRowBehind DEF VersionsExist, EmptyPage, Page
    <3> QED
      BY <1>1, <1>2, <2>2, <3>1, ApplyKeepsBehind DEF DropLacking, DropItemsTheServerLacks
  <2>3. CASE ApplyRefetched(t)
    <3>1. sync[t].page \in [Items -> Row] /\ \A i \in Items : Behind(sync[t].page[i], i)
      BY <1>1 DEF VersionsExist, PagesBehind, Sync, Page
    <3> QED
      BY <1>1, <1>2, <2>3, <3>1, ApplyKeepsBehind DEF ApplyRefetched, Refetch
  <2>4. CASE UNCHANGED replica
    BY <1>2, <2>4, ServerUntouched
  <2> QED
    BY <2>1, <2>2, <2>3, <2>4
       DEF SyncStep, SyncNow, Resync, ReadCursor, PullSizes, PullRows, PullRewound,
           RetryUnreadable, FetchItems, FetchFails, PurgeExpired, SyncFails, replicaVars
<1>5. PagesBehind'
  <2>1. \A i \in Items : Behind(NoRow, i) /\ Behind(rows[i], i) /\ EmptyPage[i] = NoRow
    <3>1. \A i \in Items : rows[i].rev \in Nat
      BY <1>1 DEF TypeOK, Row
    <3>2. \A i \in Items : Behind(rows[i], i)
      BY <3>1 DEF Behind
    <3> QED
      BY <1>1, <3>2, NoRowBehind DEF VersionsExist, EmptyPage
  <2>2. \A u \in Tasks \ {t} : sync'[u] = sync[u]
    BY <1>1 DEF TypeOK, SyncStep, SyncNow, Resync, ReadCursor, PullSizes, PullRows,
         PullRewound, PullApply, DropLacking, RetryUnreadable, FetchItems, ApplyRefetched,
         FetchFails, PurgeExpired, SyncFails
  <2>3. SUFFICES \A i \in Items : Behind(sync'[t].page[i], i)
    BY <1>2, <2>2 DEF VersionsExist, PagesBehind, Behind, serverVars
  <2>4. t \in DOMAIN sync /\ sync[t] \in Sync
    BY <1>1 DEF TypeOK
  <2>5. CASE sync'[t].page = sync[t].page \/ sync'[t].page = EmptyPage
    BY <2>1, <2>5 DEF VersionsExist, PagesBehind
  <2>6. ASSUME NEW I \in SUBSET Items,
               sync'[t].page = [i \in Items |-> IF i \in I THEN rows[i] ELSE NoRow]
        PROVE  \A i \in Items : Behind(sync'[t].page[i], i)
    BY <2>1, <2>6
  <2>7. CASE PullRows(t)
    <3>1. CASE sync[t].next = 0
      <4>1. sync'[t].page = EmptyPage
        BY <1>1, <2>7, <3>1 DEF PullRows, TypeOK, Sync
      <4> QED
        BY <4>1, <2>5
    <3>2. CASE sync[t].next # 0
      <4>1. sync'[t].page = RowsThrough(sync[t].since, sync[t].next)
        BY <1>1, <2>7, <3>2 DEF PullRows, TypeOK, Sync
      <4> QED
        BY <2>1, <4>1 DEF RowsThrough
    <3> QED
      BY <3>1, <3>2
  <2>8. CASE FetchItems(t)
    <3>1. PICK I \in SUBSET {i \in sync[t].ask : rows[i].rev > 0} :
             sync' = [sync EXCEPT ![t] =
               [@ EXCEPT !.st = "fetched",
                         !.page = FetchRows(I),
                         !.answered = sync[t].ask \ ({i \in sync[t].ask : rows[i].rev > 0} \ I),
                         !.ask = {i \in sync[t].ask : rows[i].rev > 0} \ I]]
      BY <2>8 DEF FetchItems
    <3>2. I \in SUBSET Items
      BY <1>1 DEF Sync
    <3>3. sync'[t].page = FetchRows(I)
      BY <1>1, <3>1 DEF TypeOK, Sync
    <3> QED
      BY <2>6, <3>2, <3>3 DEF FetchRows
  <2>9. CASE PullRewound(t)
    <3>1. sync'[t].page = sync[t].page \/ sync'[t].page = EmptyPage
      <4>1. CASE sync[t].fromZero
        BY <2>4, <2>9, <4>1 DEF PullRewound, NoSync
      <4>2. CASE ~sync[t].fromZero
        <5> DEFINE s == [sync[t] EXCEPT !.st = "asked", !.since = 0, !.fromZero = TRUE,
                                        !.held = Held(d), !.seen = {}, !.began = rev]
        <5>1. sync' = [sync EXCEPT ![t] = s]
          BY <2>9, <4>2 DEF PullRewound
        <5>2. s.page = sync[t].page
          BY <2>4 DEF Sync
        <5> QED
          BY <2>4, <5>1, <5>2
      <4> QED
        BY <4>1, <4>2
    <3> QED
      BY <2>5, <3>1
  <2>10. CASE PullSizes(t)
    <3>1. sync'[t].page = sync[t].page \/ sync'[t].page = EmptyPage
      <4>1. PICK r, m : sync' = [sync EXCEPT ![t] =
                 [sync[t] EXCEPT !.st = "sized", !.next = r, !.more = m]]
        BY <2>10 DEF PullSizes
      <4>2. [sync[t] EXCEPT !.st = "sized", !.next = r, !.more = m].page = sync[t].page
        BY <2>4 DEF Sync
      <4> QED
        BY <2>4, <4>1, <4>2
    <3> QED
      BY <2>5, <3>1
  <2>11. CASE ReadCursor(t)
    <3>1. sync'[t].page = sync[t].page \/ sync'[t].page = EmptyPage
      BY <2>4, <2>11 DEF ReadCursor, Sync
    <3> QED
      BY <2>5, <3>1
  <2>12. CASE SyncNow(t)
    <3>1. sync'[t].page = sync[t].page \/ sync'[t].page = EmptyPage
      BY <2>4, <2>12 DEF SyncNow, NoSync
    <3> QED
      BY <2>5, <3>1
  <2>13. CASE Resync(t)
    <3>1. sync'[t].page = sync[t].page \/ sync'[t].page = EmptyPage
      BY <2>4, <2>13 DEF Resync, NoSync
    <3> QED
      BY <2>5, <3>1
  <2>14. CASE RetryUnreadable(t)
    <3>1. sync'[t].page = sync[t].page \/ sync'[t].page = EmptyPage
      BY <2>4, <2>14 DEF RetryUnreadable, NoSync
    <3> QED
      BY <2>5, <3>1
  <2>15. CASE ApplyRefetched(t)
    <3>1. sync'[t].page = sync[t].page \/ sync'[t].page = EmptyPage
      BY <2>4, <2>15 DEF ApplyRefetched, NoSync
    <3> QED
      BY <2>5, <3>1
  <2>16. CASE FetchFails(t)
    <3>1. sync'[t].page = sync[t].page \/ sync'[t].page = EmptyPage
      BY <2>4, <2>16 DEF FetchFails, NoSync
    <3> QED
      BY <2>5, <3>1
  <2>17. CASE PurgeExpired(t)
    <3>1. sync'[t].page = sync[t].page \/ sync'[t].page = EmptyPage
      BY <2>4, <2>17 DEF PurgeExpired, NoSync
    <3> QED
      BY <2>5, <3>1
  <2>18. CASE SyncFails(t)
    <3>1. sync'[t].page = sync[t].page \/ sync'[t].page = EmptyPage
      BY <2>4, <2>18 DEF SyncFails, NoSync
    <3> QED
      BY <2>5, <3>1
  <2>19. CASE PullApply(t)
    <3>1. sync'[t].page = sync[t].page \/ sync'[t].page = EmptyPage
      BY <2>4, <2>19 DEF PullApply, Sync
    <3> QED
      BY <2>5, <3>1
  <2>20. CASE DropLacking(t)
    <3>1. sync'[t].page = sync[t].page \/ sync'[t].page = EmptyPage
      BY <2>4, <2>20 DEF DropLacking, Sync
    <3> QED
      BY <2>5, <3>1
  <2> QED
    BY <2>7, <2>8, <2>9, <2>10, <2>11, <2>12, <2>13, <2>14, <2>15,
       <2>16, <2>17, <2>18, <2>19, <2>20 DEF SyncStep
<1>6. AcksBehind' /\ BasesBehind'
  <2>1. CASE PurgeExpired(t)
    <3>1. CASE push' = push
      BY <1>2, <3>1, ServerUntouched
    <3>2. ASSUME NEW I, Send(t, OnTop(d, I, Deleted))
          PROVE  AcksBehind' /\ BasesBehind'
      BY <1>1, <1>2, <3>2, SendKeepsBehind, StagedBehind, BatchTypes DEF Contents
    <3> QED
      BY <2>1, <3>1, <3>2 DEF PurgeExpired
  <2>2. CASE UNCHANGED push
    BY <1>2, <2>2, ServerUntouched
  <2> QED
    BY <2>1, <2>2
       DEF SyncStep, SyncNow, Resync, ReadCursor, PullSizes, PullRows, PullRewound, PullApply,
           DropLacking, RetryUnreadable, FetchItems, ApplyRefetched, FetchFails, SyncFails
<1> QED
  BY <1>1, <1>3, <1>4, <1>5, <1>6 DEF VersionsExist

LEMMA NextVersions ==
    ASSUME MaxRestores = 0
    PROVE  VersionsExist /\ [Next]_vars => VersionsExist'
<1> SUFFICES ASSUME VersionsExist, [Next]_vars PROVE VersionsExist'
  OBVIOUS
<1>3. ~TakeBackup /\ ~Restore
  BY DEF TakeBackup, Restore, VersionsExist, TypeOK
<1>1. CASE Next
  BY <1>1, <1>3, DeviceVersions, EditVersions, PushVersions, SyncVersions DEF Next
<1>2. CASE UNCHANGED vars
  <2>1. UNCHANGED <<serverVars, replica, sync, push>> /\ TypeOK'
    BY <1>2, NextType DEF vars, VersionsExist, serverVars
  <2> QED
    BY <2>1, ServerUntouched DEF VersionsExist
<1> QED
  BY <1>1, <1>2

\* Whatever is lost, late, repeated or refused, and however the tasks of a
\* device overlap, no replica ever holds a version the server did not have
\* first, as long as the server's database is not put back to a dump.
THEOREM ReplicasBehind ==
    ASSUME MaxRestores = 0
    PROVE  Spec => []NeverAhead
<1>1. VersionsExist => NeverAhead
  BY DEF VersionsExist
<1> QED
  BY <1>1, InitVersions, NextVersions, PTL DEF Spec

-----------------------------------------------------------------------------
(* No write replaces what its writer had not seen                          *)

\* One step: only an accepted write changes rows, and its bases are the
\* stored revisions, so what its writer saw is what is stored.
LEMMA StepReplacesSeen ==
    ASSUME MaxRestores = 0, VersionsExist, [Next]_vars, NEW i \in Items, rows'[i] # rows[i]
    PROVE  \E t \in Tasks : /\ push[t].st \in {"sent", "orphan"}
                            /\ i \in Touched(push[t].batch)
                            /\ push[t].batch[i].seen = rows[i].blob
                            /\ push[t].batch[i].blob = rows'[i].blob
<1>1. PICK t \in Tasks : AcceptWrite(t)
  <2>1. ~UNCHANGED serverVars
    BY DEF serverVars
  <2>2. \A d \in Devices : DeviceStep(d) => UNCHANGED serverVars
    BY DEF DeviceStep, Unlock, Lock, Restart
  <2>3. \A t \in Tasks : Edit(t) => UNCHANGED serverVars
    BY DEF Edit, StageCreate, StageIdentity, StageUpdate, StageDelete, StagePurge
  <2>4. \A t \in Tasks : PushStep(t) => UNCHANGED serverVars \/ AcceptWrite(t)
    BY DEF PushStep, RefuseWrite, PushFails, PushTimesOut, CommitWrite, CommitRefused
  <2>5. \A t \in Tasks : SyncStep(t) => UNCHANGED serverVars
    BY DEF SyncStep, SyncNow, Resync, ReadCursor, PullSizes, PullRows, PullRewound,
           PullApply, DropLacking, RetryUnreadable, FetchItems, ApplyRefetched, FetchFails,
           PurgeExpired, SyncFails
  <2>6. UNCHANGED vars => UNCHANGED serverVars
    BY DEF vars, serverVars
  <2>7. ~TakeBackup /\ ~Restore
    BY DEF TakeBackup, Restore, VersionsExist, TypeOK
  <2> QED
    BY <2>1, <2>2, <2>3, <2>4, <2>5, <2>6, <2>7 DEF Next
<1>2. i \in Touched(push[t].batch) /\ rows'[i].blob = push[t].batch[i].blob
  BY <1>1 DEF AcceptWrite, ApplyBatch, VersionsExist, TypeOK
<1>3. push[t].batch[i].base = rows[i].rev
  BY <1>1, <1>2 DEF AcceptWrite, FindConflicts
<1>4. push[t].batch[i].seen = rows[i].blob
  BY <1>1, <1>2, <1>3 DEF AcceptWrite, VersionsExist, BasesBehind, Behind
<1> QED
  BY <1>1, <1>2, <1>4 DEF AcceptWrite

\* The compare-and-swap holds end to end: the server replaces a version only
\* by a write made by someone who was looking at that very version.
THEOREM NothingOverwrittenBlindly ==
    ASSUME MaxRestores = 0
    PROVE  Spec => NoBlindOverwrite
<1>1. VersionsExist /\ [Next]_vars =>
        [\A i \in Items : rows'[i] # rows[i] =>
           \E t \in Tasks : /\ push[t].st \in {"sent", "orphan"}
                            /\ i \in Touched(push[t].batch)
                            /\ push[t].batch[i].seen = rows[i].blob
                            /\ push[t].batch[i].blob = rows'[i].blob]_vars
  BY StepReplacesSeen
<1> QED
  BY <1>1, InitVersions, NextVersions, PTL DEF Spec, NoBlindOverwrite

-----------------------------------------------------------------------------
(* Item sync implements one shared copy                                    *)

\* To the writers the vault is one shared copy (SharedVault): the server's
\* blobs, and of every task the changes the server may still be asked to make.
BlobsNow == [i \in Items |-> rows[i].blob]

DraftOf(t) ==
    [i \in IF push[t].st \in {"sent", "orphan"} THEN Touched(push[t].batch) ELSE {} |->
        [from |-> push[t].batch[i].seen, to |-> push[t].batch[i].blob]]

DraftsNow == [t \in Tasks |-> DraftOf(t)]

Shared == INSTANCE SharedVault WITH
            Empty <- Deleted, Writers <- Tasks, shared <- BlobsNow, draft <- DraftsNow

\* A task syncs or pushes, never both, so the purge that ends a sync takes the
\* place of no earlier push.
OneJob == \A t \in Tasks : sync[t].st = "idle" \/ push[t].st = "idle"

\* A send touches one task's push.
LEMMA SendTurns ==
    ASSUME TypeOK, NEW t \in Tasks, NEW batch, Send(t, batch)
    PROVE  /\ \A u \in Tasks \ {t} : push'[u] = push[u]
           /\ push'[t].st = "sent"
BY DEF Send, TypeOK

\* A step of a sync leaves the server's tables alone, and but for the purge that
\* ends it every push.
LEMMA SyncTouches ==
    ASSUME TypeOK, NEW t \in Tasks, SyncStep(t)
    PROVE  /\ UNCHANGED serverVars
           /\ push' = push \/ PurgeExpired(t)
           /\ SyncNow(t) \/ Resync(t) \/ sync[t].st # "idle"
           /\ \A u \in Tasks \ {t} : sync'[u] = sync[u]
<1>0. sync \in [Tasks -> Sync]
  BY DEF TypeOK
<1>1. CASE SyncNow(t) BY <1>0, <1>1 DEF SyncNow
<1>2. CASE Resync(t) BY <1>0, <1>2 DEF Resync
<1>3. CASE ReadCursor(t) BY <1>0, <1>3 DEF ReadCursor
<1>4. CASE PullSizes(t)
  <2>1. UNCHANGED <<serverVars, push>> /\ sync[t].st = "asked"
    BY <1>4, Zenon DEF PullSizes, serverVars
  <2> DEFINE sized(n, m) == [sync[t] EXCEPT !.st = "sized", !.next = n, !.more = m]
  <2>2. PICK n, m : sync' = [sync EXCEPT ![t] = sized(n, m)]
    BY <1>4, Zenon DEF PullSizes
  <2> HIDE DEF sized
  <2>3. \A u \in Tasks \ {t} : sync'[u] = sync[u]
    BY <1>0, <2>2
  <2> QED BY <1>0, <2>1, <2>3 DEF serverVars
<1>5. CASE PullRows(t) BY <1>0, <1>5 DEF PullRows
<1>6. CASE PullRewound(t) BY <1>0, <1>6 DEF PullRewound
<1>7. CASE PullApply(t) BY <1>0, <1>7 DEF PullApply
<1>8. CASE DropLacking(t) BY <1>0, <1>8 DEF DropLacking
<1>9. CASE RetryUnreadable(t) BY <1>0, <1>9 DEF RetryUnreadable
<1>10. CASE FetchItems(t) BY <1>0, <1>10 DEF FetchItems
<1>11. CASE ApplyRefetched(t) BY <1>0, <1>11 DEF ApplyRefetched
<1>12. CASE FetchFails(t) BY <1>0, <1>12 DEF FetchFails, Retrying
<1>13. CASE PurgeExpired(t) BY <1>0, <1>13 DEF PurgeExpired
<1>14. CASE SyncFails(t) BY <1>0, <1>14 DEF SyncFails
<1> QED
  BY <1>1, <1>2, <1>3, <1>4, <1>5, <1>6, <1>7, <1>8, <1>9, <1>10, <1>11, <1>12, <1>13, <1>14 DEF SyncStep

\* Every step keeps it.
LEMMA OneJobKept ==
    ASSUME TypeOK, OneJob, [Next]_vars
    PROVE  OneJob'
<1>0. /\ sync \in [Tasks -> Sync] /\ push \in [Tasks -> Push]
      /\ NoSync.st = "idle" /\ NoPush.st = "idle"
  BY DEF TypeOK, NoSync, NoPush
<1>1. ASSUME NEW d \in Devices, DeviceStep(d) PROVE OneJob'
  <2>1. CASE Unlock(d) BY <2>1 DEF Unlock, OneJob, taskVars
  <2>2. CASE Lock(d) BY <1>0, <2>2 DEF Lock, OneJob, Push
  <2>3. ASSUME NEW version \in 0..MaxLevel, Restart(d, version) PROVE OneJob'
    BY <1>0, <2>3 DEF Restart, OneJob, Push
  <2> QED BY <1>1, <2>1, <2>2, <2>3 DEF DeviceStep
<1>2. ASSUME NEW t \in Tasks, Edit(t) PROVE OneJob'
  <2>1. CanStart(t) /\ sync' = sync /\ \A u \in Tasks \ {t} : push'[u] = push[u]
    BY <1>2, SendTurns DEF Edit, StageCreate, StageIdentity, StageUpdate, StageDelete, StagePurge
  <2> QED BY <2>1 DEF CanStart, OneJob
<1>3. ASSUME NEW t \in Tasks, PushStep(t) PROVE OneJob'
  <2>1. sync' = sync /\ push[t].st # "idle" /\ \A u \in Tasks \ {t} : push'[u] = push[u]
    <3>1. ASSUME NEW i \in Items, CommitWrite(t, i)
          PROVE  sync' = sync /\ push[t].st # "idle" /\ \A u \in Tasks \ {t} : push'[u] = push[u]
      BY <1>0, <3>1 DEF CommitWrite
    <3> QED
      BY <1>0, <1>3, <3>1 DEF PushStep, AcceptWrite, RefuseWrite, PushFails, PushTimesOut, CommitRefused
  <2> QED BY <2>1 DEF OneJob
<1>4. ASSUME NEW t \in Tasks, SyncStep(t) PROVE OneJob'
  <2>1. CASE SyncNow(t) \/ Resync(t)
    BY <1>0, <2>1 DEF SyncNow, Resync, CanStart, OneJob
  <2>2. CASE PurgeExpired(t)
    <3>1. sync'[t].st = "idle" /\ \A u \in Tasks \ {t} : sync'[u] = sync[u]
      BY <1>0, <2>2 DEF PurgeExpired
    <3>2. \A u \in Tasks \ {t} : push'[u] = push[u]
      BY <2>2, SendTurns DEF PurgeExpired
    <3> QED BY <3>1, <3>2 DEF OneJob
  <2>3. CASE ~(SyncNow(t) \/ Resync(t) \/ PurgeExpired(t))
    <3>1. push' = push /\ sync[t].st # "idle" /\ \A u \in Tasks \ {t} : sync'[u] = sync[u]
      BY <1>0, <1>4, <2>3, SyncTouches
    <3> QED BY <3>1 DEF OneJob
  <2> QED BY <2>1, <2>2, <2>3
<1>5. CASE TakeBackup \/ UNCHANGED vars
  BY <1>5 DEF TakeBackup, vars, taskVars, OneJob
<1>6. CASE Restore
  BY <1>0, <1>6 DEF Restore, OneJob, Sync
<1> QED
  BY <1>1, <1>2, <1>3, <1>4, <1>5, <1>6 DEF Next

\* What a task under way is asking for, and what it is not.
LEMMA DraftIs ==
    ASSUME NEW t \in Tasks
    PROVE  /\ push[t].st \notin {"sent", "orphan"} => DraftOf(t) = Shared!NoDraft
           /\ push[t].st \in {"sent", "orphan"} => DOMAIN DraftOf(t) = Touched(push[t].batch)
           /\ \A i \in DOMAIN DraftOf(t) : DraftOf(t)[i] = [from |-> push[t].batch[i].seen, to |-> push[t].batch[i].blob]
           /\ DOMAIN DraftOf(t) = {} <=> DraftOf(t) = Shared!NoDraft
<1>1. push[t].st \notin {"sent", "orphan"} => DraftOf(t) = Shared!NoDraft
  BY DEF DraftOf, Shared!NoDraft
<1>2. push[t].st \in {"sent", "orphan"} => DOMAIN DraftOf(t) = Touched(push[t].batch)
  BY DEF DraftOf
<1>3. \A i \in DOMAIN DraftOf(t) : DraftOf(t)[i] = [from |-> push[t].batch[i].seen, to |-> push[t].batch[i].blob]
  BY DEF DraftOf
<1>4. DOMAIN DraftOf(t) = {} => DraftOf(t) = Shared!NoDraft
  BY DEF DraftOf, Shared!NoDraft
<1>5. DOMAIN Shared!NoDraft = {}
  BY DEF Shared!NoDraft
<1> QED BY <1>1, <1>2, <1>3, <1>4, <1>5

\* One task's push changes: one draft does.
LEMMA OneDraft ==
    ASSUME NEW t \in Tasks, \A u \in Tasks \ {t} : push'[u] = push[u]
    PROVE  DraftsNow' = [DraftsNow EXCEPT ![t] = DraftOf(t)']
<1>1. \A u \in Tasks \ {t} : DraftOf(u)' = DraftOf(u)
  BY DEF DraftOf, Touched
<1> QED BY <1>1 DEF DraftsNow

\* Staging drafts what the writer sees.
LEMMA SendDrafts ==
    ASSUME TypeOK, NEW t \in Tasks, push[t].st = "idle", NEW batch \in Batch,
           Send(t, batch), UNCHANGED serverVars
    PROVE  [Shared!SharedNext]_(Shared!sharedVars)
<1> DEFINE e == [i \in Touched(batch) |-> [from |-> batch[i].seen, to |-> batch[i].blob]]
<1>1. push'[t].st = "sent" /\ push'[t].batch = batch /\ \A u \in Tasks \ {t} : push'[u] = push[u]
  BY DEF Send, TypeOK
<1>2. DraftOf(t)' = e
  BY <1>1 DEF DraftOf, Touched
<1>3. DraftsNow' = [DraftsNow EXCEPT ![t] = e]
  BY <1>1, <1>2, OneDraft
<1>4. DraftsNow[t] = Shared!NoDraft
  BY DraftIs DEF DraftsNow
<1>5. e \in [Touched(batch) -> Shared!Edit] /\ Touched(batch) \in SUBSET Items
  BY DEF Touched, Batch, Change, Shared!Edit
<1>6. BlobsNow' = BlobsNow
  BY DEF BlobsNow, serverVars
<1>7. CASE Touched(batch) # {}
  <2>1. Shared!Drafts(t)
    BY <1>3, <1>4, <1>5, <1>6, <1>7 DEF Shared!Drafts
  <2> QED BY <2>1 DEF Shared!SharedNext
<1>8. CASE Touched(batch) = {}
  <2>1. e = Shared!NoDraft
    BY <1>8 DEF Shared!NoDraft
  <2>2. DraftsNow' = DraftsNow
    BY <1>3, <1>4, <2>1 DEF DraftsNow
  <2> QED BY <1>6, <2>2 DEF Shared!sharedVars
<1> QED BY <1>7, <1>8

\* A push that ends without a write is a draft given up.
LEMMA EndAbandons ==
    ASSUME NEW t \in Tasks, DraftOf(t)' = Shared!NoDraft \/ DraftOf(t)' = DraftOf(t),
           \A u \in Tasks \ {t} : push'[u] = push[u], UNCHANGED serverVars
    PROVE  [Shared!SharedNext]_(Shared!sharedVars)
<1>1. DraftsNow' = [DraftsNow EXCEPT ![t] = DraftOf(t)'] /\ DraftsNow[t] = DraftOf(t)
  BY OneDraft DEF DraftsNow
<1>2. BlobsNow' = BlobsNow
  BY DEF BlobsNow, serverVars
<1>3. CASE DraftOf(t)' = DraftOf(t)
  <2>1. DraftsNow' = DraftsNow
    BY <1>1, <1>3 DEF DraftsNow
  <2> QED BY <1>2, <2>1 DEF Shared!sharedVars
<1>4. CASE DraftOf(t)' # DraftOf(t)
  <2>1. Shared!Abandon(t)
    BY <1>1, <1>2, <1>4 DEF Shared!Abandon
  <2> QED BY <2>1 DEF Shared!SharedNext
<1> QED BY <1>3, <1>4

\* An accepted write publishes a draft: equal revisions are equal contents.
LEMMA AcceptPublishes ==
    ASSUME VersionsExist, NEW t \in Tasks, AcceptWrite(t)
    PROVE  [Shared!SharedNext]_(Shared!sharedVars)
<1> DEFINE b == push[t].batch
<1>1. /\ push \in [Tasks -> Push] /\ NoPush.st = "idle" /\ rows \in [Items -> Row]
  BY DEF VersionsExist, TypeOK, NoPush
<1>2. push'[t].st \notin {"sent", "orphan"} /\ \A u \in Tasks \ {t} : push'[u] = push[u]
  BY <1>1 DEF AcceptWrite, Push
<1>3. DraftOf(t)' = Shared!NoDraft
  BY <1>2 DEF DraftOf, Shared!NoDraft
<1>4. DraftsNow' = [DraftsNow EXCEPT ![t] = Shared!NoDraft] /\ DraftsNow[t] = DraftOf(t)
  BY <1>2, <1>3, OneDraft DEF DraftsNow
<1>5. DOMAIN DraftOf(t) = Touched(b)
      /\ \A i \in Touched(b) : DraftOf(t)[i] = [from |-> b[i].seen, to |-> b[i].blob]
  BY DraftIs DEF AcceptWrite
<1>6. Touched(b) \subseteq Items
  BY DEF Touched
<1>7. \A i \in Touched(b) : b[i].seen = rows[i].blob
  <2>1. \A i \in Touched(b) : b[i].base = rows[i].rev
    BY DEF AcceptWrite, FindConflicts
  <2> QED BY <1>6, <2>1 DEF AcceptWrite, VersionsExist, BasesBehind, Behind
<1>8. \A i \in Items : rows'[i].blob = IF i \in Touched(b) THEN b[i].blob ELSE rows[i].blob
  BY DEF AcceptWrite, ApplyBatch
<1>9. BlobsNow' = [i \in Items |-> IF i \in DOMAIN DraftOf(t) THEN DraftOf(t)[i].to ELSE BlobsNow[i]]
  BY <1>5, <1>8 DEF BlobsNow
<1>10. \A i \in DOMAIN DraftOf(t) : DraftOf(t)[i].from = BlobsNow[i]
  BY <1>5, <1>6, <1>7 DEF BlobsNow
<1>11. CASE DraftOf(t) # Shared!NoDraft
  <2>1. Shared!Publish(t)
    BY <1>4, <1>9, <1>10, <1>11 DEF Shared!Publish
  <2> QED BY <2>1 DEF Shared!SharedNext
<1>12. CASE DraftOf(t) = Shared!NoDraft
  <2>1. DOMAIN DraftOf(t) = {}
    BY <1>12 DEF Shared!NoDraft
  <2>2. BlobsNow' = BlobsNow
    BY <1>9, <2>1 DEF BlobsNow
  <2>3. DraftsNow' = DraftsNow
    BY <1>4, <1>12 DEF DraftsNow
  <2> QED BY <2>2, <2>3 DEF Shared!sharedVars
<1> QED BY <1>11, <1>12

\* Every step is a step of the shared copy or none of it.
LEMMA NextShared ==
    ASSUME MaxRestores = 0, VersionsExist, OneJob, [Next]_vars
    PROVE  [Shared!SharedNext]_(Shared!sharedVars)
<1>0. /\ TypeOK /\ push \in [Tasks -> Push] /\ NoPush.st = "idle"
  BY DEF VersionsExist, TypeOK, NoPush
<1>1. ASSUME \A t \in Tasks : DraftOf(t)' = DraftOf(t), UNCHANGED serverVars
      PROVE  UNCHANGED Shared!sharedVars
  BY <1>1 DEF Shared!sharedVars, BlobsNow, DraftsNow, serverVars
<1>2. ASSUME push' = push PROVE \A t \in Tasks : DraftOf(t)' = DraftOf(t)
  BY <1>2 DEF DraftOf, Touched
<1>3. ASSUME NEW d \in Devices, DeviceStep(d) PROVE UNCHANGED Shared!sharedVars
  <2>1. CASE Unlock(d)
    BY <1>1, <1>2, <2>1 DEF Unlock, taskVars, serverVars
  <2>2. CASE Lock(d)
    <3>1. \A t \in Tasks : push'[t].st = push[t].st /\ push'[t].batch = push[t].batch
      BY <1>0, <2>2 DEF Lock, Push
    <3>2. \A t \in Tasks : DraftOf(t)' = DraftOf(t)
      BY <3>1 DEF DraftOf, Touched
    <3> QED BY <1>1, <2>2, <3>2 DEF Lock, serverVars
  <2>3. ASSUME NEW version \in 0..MaxLevel, Restart(d, version) PROVE UNCHANGED Shared!sharedVars
    <3>1. \A t \in Tasks : /\ push'[t].st \in {"sent", "orphan"} <=> push[t].st \in {"sent", "orphan"}
                           /\ push[t].st \in {"sent", "orphan"} => push'[t].batch = push[t].batch
      BY <1>0, <2>3 DEF Restart, Push
    <3>2. \A t \in Tasks : DraftOf(t)' = DraftOf(t)
      BY <3>1 DEF DraftOf, Touched
    <3> QED BY <1>1, <2>3, <3>2 DEF Restart, serverVars
  <2> QED BY <1>3, <2>1, <2>2, <2>3 DEF DeviceStep
<1>4. ASSUME NEW t \in Tasks, Edit(t) PROVE [Shared!SharedNext]_(Shared!sharedVars)
  <2>1. CanStart(t) /\ UNCHANGED serverVars /\ \E batch \in Batch : Send(t, batch)
    <3>1. DeviceOf[t] \in Devices /\ Blobs \subseteq Contents /\ Deleted \in Contents
      BY DEF Contents
    <3> QED
      BY <1>0, <1>4, <3>1, BatchTypes
         DEF Edit, StageCreate, StageIdentity, StageUpdate, StageDelete, StagePurge
  <2> QED BY <1>0, <2>1, SendDrafts DEF CanStart
<1>5. ASSUME NEW t \in Tasks, PushStep(t) PROVE [Shared!SharedNext]_(Shared!sharedVars)
  <2>1. CASE AcceptWrite(t)
    BY <2>1, AcceptPublishes
  <2>2. ASSUME push'[t].st \notin {"sent", "orphan"} PROVE DraftOf(t)' = Shared!NoDraft
    BY <2>2 DEF DraftOf, Shared!NoDraft
  <2>3. CASE RefuseWrite(t) \/ PushFails(t) \/ CommitRefused(t)
    <3>1. push'[t].st = "idle" /\ (\A u \in Tasks \ {t} : push'[u] = push[u]) /\ UNCHANGED serverVars
      BY <1>0, <2>3 DEF RefuseWrite, PushFails, CommitRefused
    <3> QED BY <2>2, <3>1, EndAbandons
  <2>4. CASE PushTimesOut(t)
    <3>1. push[t].st = "sent" /\ push'[t].st = "orphan" /\ push'[t].batch = push[t].batch
          /\ (\A u \in Tasks \ {t} : push'[u] = push[u]) /\ UNCHANGED serverVars
      BY <1>0, <2>4 DEF PushTimesOut, Push
    <3>2. DraftOf(t)' = DraftOf(t)
      BY <3>1 DEF DraftOf, Touched
    <3> QED BY <3>1, <3>2, EndAbandons
  <2>5. ASSUME NEW i \in Items, CommitWrite(t, i) PROVE [Shared!SharedNext]_(Shared!sharedVars)
    <3>1. push'[t].st \notin {"sent", "orphan"} /\ (\A u \in Tasks \ {t} : push'[u] = push[u])
          /\ UNCHANGED serverVars
      BY <1>0, <2>5 DEF CommitWrite, Push
    <3> QED BY <2>2, <3>1, EndAbandons
  <2> QED BY <1>5, <2>1, <2>3, <2>4, <2>5 DEF PushStep
<1>6. ASSUME NEW t \in Tasks, SyncStep(t) PROVE [Shared!SharedNext]_(Shared!sharedVars)
  <2>1. CASE PurgeExpired(t) /\ push' # push
    <3>1. UNCHANGED serverVars /\ \E batch \in Batch : Send(t, batch)
      BY <1>0, <2>1, BatchTypes DEF PurgeExpired, Contents
    <3>2. push[t].st = "idle"
      BY <2>1 DEF PurgeExpired, OneJob
    <3> QED BY <1>0, <3>1, <3>2, SendDrafts
  <2>2. CASE push' = push
    <3>1. UNCHANGED serverVars
      BY <1>0, <1>6, SyncTouches
    <3> QED BY <1>1, <1>2, <2>2, <3>1
  <2>3. push' = push \/ PurgeExpired(t)
    BY <1>0, <1>6, SyncTouches
  <2> QED BY <2>1, <2>2, <2>3
<1>7. ~TakeBackup /\ ~Restore
  BY <1>0 DEF TakeBackup, Restore, TypeOK
<1>8. CASE UNCHANGED vars
  BY <1>1, <1>2, <1>8 DEF vars, serverVars
<1> QED
  BY <1>3, <1>4, <1>5, <1>6, <1>7, <1>8 DEF Next

\* To its writers a vault with any number of devices, replicas and requests
\* under way is one shared copy of every item: a batch is made as a whole or not
\* at all, only while each of its items still is what its writer was looking at,
\* and no other step of any device changes an item - although the server
\* compares revisions and never contents, requests are carried out long after
\* their clients gave up on them, and answers are lost.  As long as the
\* server's database is not put back (items.rs write; sync.rs push).
THEOREM SyncImplementsSharedVault ==
    ASSUME MaxRestores = 0
    PROVE  Spec => Shared!SharedSpec
<1>1. Init => Shared!SharedInit
  <2> SUFFICES ASSUME Init PROVE Shared!SharedInit
    OBVIOUS
  <2>1. \A i \in Items : rows[i].blob = Deleted
    BY DEF Init, ServerInit, NoRow
  <2>2. \A t \in Tasks : DraftOf(t) = Shared!NoDraft
    BY DraftIs DEF Init, NoPush
  <2> QED BY <2>1, <2>2 DEF Shared!SharedInit, BlobsNow, DraftsNow
<1>2. Init => OneJob
  BY DEF Init, OneJob, NoSync, NoPush
<1>3. VersionsExist /\ OneJob /\ [Next]_vars => (VersionsExist /\ OneJob)'
  BY NextVersions, OneJobKept DEF VersionsExist
<1>4. VersionsExist /\ OneJob /\ [Next]_vars => [Shared!SharedNext]_(Shared!sharedVars)
  BY NextShared
<1> QED
  BY <1>1, <1>2, <1>3, <1>4, InitVersions, PTL DEF Spec, Shared!SharedSpec

-----------------------------------------------------------------------------
(* The cursor covers what the replica has                                  *)

\* What CursorCovers says of a covered item, and that the record of an item
\* that did not open is of the server's version or gone.
Settled(d, i) ==
    IF rows[i].blob = Deleted THEN replica[d][i] = NoRow /\ unreadable[d][i] = 0
    ELSE \/ unreadable[d][i] = rows[i].rev
         \/ replica[d][i] = rows[i] /\ unreadable[d][i] = 0

Covered == \A d \in Devices, i \in Items : rows[i].rev <= cursor[d] => Settled(d, i)
CursorsBehind == \A d \in Devices : cursor[d] <= rev
RecordsBehind == \A d \in Devices, i \in Items : unreadable[d][i] <= rows[i].rev

Pulling == {"asked", "sized", "answered"}

\* Between the first request of a pull and the end of its last page, and from
\* an acknowledged write to its record, a task relies on where the cursor is.
OnCursor(t) == sync[t].st \in Pulling \cup {"drop"} \/ push[t].st = "acked"

\* Two things a step may do.  It moves a device's cursor although another task
\* of the device relies on it; it writes between the two statements of an
\* empty pull.
CursorMovesAlone ==
    \A t \in Tasks : OnCursor(t) /\ cursor'[DeviceOf[t]] # cursor[DeviceOf[t]] => sync'[t] # sync[t]
EmptyPullStays == BetweenEmptyStatements => rev' = rev

\* A pull starts at the device's cursor.
StartsAtCursor(t) == sync[t].st \in Pulling => sync[t].since = cursor[DeviceOf[t]]

\* Between and after its two statements a pull lacks nothing up to where its
\* page ends.
SizesFit(t) == sync[t].st = "sized" =>
    /\ sync[t].next <= rev
    /\ sync[t].next = 0 => \A i \in Items : rows[i].rev <= sync[t].since
PageFits(t) == sync[t].st = "answered" =>
    /\ sync[t].next <= rev
    /\ \A i \in Items : rows[i].rev <= sync[t].next =>
          \/ rows[i].rev <= sync[t].since /\ sync[t].page[i] = NoRow
          \/ sync[t].page[i] = rows[i]

\* A pull from 0 has seen every row up to the cursor.
SeenFits(t) == sync[t].st = "drop" \/ (sync[t].st \in Pulling /\ sync[t].fromZero) =>
    \A i \in Items : rows[i].rev > 0 /\ rows[i].rev <= cursor[DeviceOf[t]] => i \in sync[t].seen

\* A fetch asks for items the server has, and its answer has them.
FetchFits(t) ==
    /\ sync[t].st \in {"fetch", "fetched"} => \A i \in sync[t].ask : rows[i].rev > 0
    /\ sync[t].st = "fetched" => \A i \in sync[t].answered : sync[t].page[i].rev > 0

\* A write still to be recorded is past the cursor.
AckAhead(t) == push[t].st = "acked" => cursor[DeviceOf[t]] < push[t].rev

SyncFits(t) == StartsAtCursor(t) /\ SizesFit(t) /\ PageFits(t) /\ SeenFits(t) /\ FetchFits(t)

CursorInv ==
    /\ VersionsExist
    /\ OneJob
    /\ Covered /\ CursorsBehind /\ RecordsBehind
    /\ \A t \in Tasks : SyncFits(t) /\ AckAhead(t)

LEMMA InitCursor == Init => CursorInv
<1> SUFFICES ASSUME Init PROVE CursorInv
  OBVIOUS
<1>1. Covered /\ CursorsBehind /\ RecordsBehind
  BY DEF Init, ServerInit, ReplicaInit, Covered, CursorsBehind, RecordsBehind, Settled, NoRow
<1>2. \A t \in Tasks : SyncFits(t) /\ AckAhead(t)
  BY DEF Init, NoSync, NoPush, SyncFits, StartsAtCursor, SizesFit, PageFits, SeenFits, FetchFits,
         AckAhead, Pulling
<1>3. OneJob
  BY DEF Init, OneJob, NoSync, NoPush
<1> QED
  BY <1>1, <1>2, <1>3, InitVersions DEF CursorInv

\* What a task that has nothing under way may have left behind fits.
LEMMA RestingFits ==
    ASSUME NEW t \in Tasks, sync[t].st \in {"idle", "header", "retry", "purge"}
    PROVE  SyncFits(t)
BY DEF SyncFits, StartsAtCursor, SizesFit, PageFits, SeenFits, FetchFits, Pulling

\* A step that leaves the server and the replicas alone and hands a task what
\* fits keeps the invariant.
LEMMA LocalCursor ==
    ASSUME CursorInv, VersionsExist', OneJob',
           UNCHANGED <<rev, rows, replica, unreadable, cursor>>,
           \A u \in Tasks : sync'[u] = sync[u] \/ SyncFits(u)',
           \A u \in Tasks : push'[u].st = "acked" => push[u].st = "acked" /\ push'[u].rev = push[u].rev
    PROVE  CursorInv'
<1>1. Covered' /\ CursorsBehind' /\ RecordsBehind'
  BY DEF CursorInv, Covered, CursorsBehind, RecordsBehind, Settled
<1>2. \A u \in Tasks : sync'[u] = sync[u] => SyncFits(u)'
  BY DEF CursorInv, SyncFits, StartsAtCursor, SizesFit, PageFits, SeenFits, FetchFits
<1>3. \A u \in Tasks : AckAhead(u)'
  BY DEF CursorInv, AckAhead
<1> QED
  BY <1>1, <1>2, <1>3 DEF CursorInv

\* Editing, the server's refusals, locks and restarts.
LEMMA QuietCursor ==
    ASSUME CursorInv, VersionsExist', OneJob', NEW t \in Tasks,
           \/ Edit(t) \/ RefuseWrite(t) \/ PushFails(t) \/ PushTimesOut(t) \/ CommitRefused(t)
           \/ \E d \in Devices : DeviceStep(d)
    PROVE  CursorInv'
<1>0. push \in [Tasks -> Push] /\ sync \in [Tasks -> Sync]
  BY DEF CursorInv, VersionsExist, TypeOK
<1>1. CASE Edit(t)
  <2>1. UNCHANGED <<rev, rows, replica, unreadable, cursor, sync>>
    BY <1>1 DEF Edit, StageCreate, StageIdentity, StageUpdate, StageDelete, StagePurge, serverVars,
                replicaVars
  <2>2. push'[t].st = "sent" /\ \A u \in Tasks \ {t} : push'[u] = push[u]
    BY <1>1, SendTurns DEF Edit, StageCreate, StageIdentity, StageUpdate, StageDelete, StagePurge,
                           CursorInv, VersionsExist
  <2> QED
    BY <2>1, <2>2, LocalCursor
<1>2. CASE RefuseWrite(t) \/ PushFails(t) \/ PushTimesOut(t) \/ CommitRefused(t)
  <2>1. UNCHANGED <<rev, rows, replica, unreadable, cursor, sync>>
    BY <1>2 DEF RefuseWrite, PushFails, PushTimesOut, CommitRefused, serverVars, replicaVars
  <2>2. push'[t].st \in {"idle", "orphan"} /\ \A u \in Tasks \ {t} : push'[u] = push[u]
    BY <1>0, <1>2 DEF RefuseWrite, PushFails, PushTimesOut, CommitRefused, NoPush, Push
  <2> QED
    BY <2>1, <2>2, LocalCursor
<1>3. ASSUME NEW d \in Devices, DeviceStep(d)
      PROVE  CursorInv'
  <2>1. UNCHANGED <<rev, rows, replica, unreadable, cursor>>
    BY <1>3 DEF DeviceStep, Unlock, Lock, Restart, serverVars, replicaVars
  <2>2. \A u \in Tasks : /\ sync'[u] = sync[u] \/ sync'[u] = NoSync
                         /\ push'[u].st = "acked" => push[u].st = "acked" /\ push'[u].rev = push[u].rev
    <3>1. CASE Unlock(d)
      BY <3>1 DEF Unlock, taskVars
    <3>2. CASE Lock(d)
      BY <1>0, <3>2 DEF Lock, Push
    <3>3. ASSUME NEW version \in 0..MaxLevel, Restart(d, version)
          PROVE  \A u \in Tasks : /\ sync'[u] = sync[u] \/ sync'[u] = NoSync
                                  /\ push'[u].st = "acked" => push'[u] = push[u]
      BY <1>0, <3>3 DEF Restart, Push, NoPush
    <3> QED
      BY <1>3, <3>1, <3>2, <3>3 DEF DeviceStep
  <2>3. \A u \in Tasks : sync'[u] = NoSync => SyncFits(u)'
    BY DEF NoSync, SyncFits, StartsAtCursor, SizesFit, PageFits, SeenFits, FetchFits, Pulling
  <2> QED
    BY <2>1, <2>2, <2>3, LocalCursor
<1> QED
  BY <1>1, <1>2, <1>3

\* An accepted write is past every cursor and past every page under way.
LEMMA AcceptCursor ==
    ASSUME EmptyPullStays, CursorInv, VersionsExist', OneJob', NEW t \in Tasks, AcceptWrite(t)
    PROVE  CursorInv'
<1>1. /\ UNCHANGED <<replica, unreadable, cursor, sync>> /\ rev' = rev + 1 /\ rev \in Nat
      /\ \A i \in Items : rows'[i] = rows[i] \/ rows'[i].rev = rev + 1
      /\ ~BetweenEmptyStatements
  <2>1. /\ UNCHANGED <<replica, unreadable, cursor, sync>> /\ rev' = rev + 1 /\ rev \in Nat
        /\ \A i \in Items : rows'[i] = rows[i] \/ rows'[i].rev = rev + 1
    BY DEF AcceptWrite, ApplyBatch, replicaVars, CursorInv, VersionsExist, TypeOK
  <2>2. rev' # rev
    BY <2>1
  <2> QED
    BY <2>1, <2>2 DEF EmptyPullStays
<1>2. /\ \A i \in Items : rows[i].rev \in Nat /\ rows[i].rev <= rev
      /\ \A d \in Devices : cursor[d] \in Nat /\ cursor[d] <= rev
      /\ \A d \in Devices, i \in Items : unreadable[d][i] \in Nat /\ unreadable[d][i] <= rows[i].rev
      /\ \A u \in Tasks : sync[u].next \in Nat /\ sync[u].since \in Nat /\ DeviceOf[u] \in Devices
  <2>1. \A i \in Items : rows[i].rev \in Nat /\ rows[i].rev <= rev
    BY DEF CursorInv, VersionsExist, TypeOK, ServerOrdered, Row
  <2>2. \A d \in Devices : cursor[d] \in Nat /\ cursor[d] <= rev
    BY DEF CursorInv, VersionsExist, TypeOK, CursorsBehind
  <2>3. \A d \in Devices, i \in Items : unreadable[d][i] \in Nat /\ unreadable[d][i] <= rows[i].rev
    BY DEF CursorInv, VersionsExist, TypeOK, RecordsBehind
  <2>4. \A u \in Tasks : sync[u].next \in Nat /\ sync[u].since \in Nat /\ DeviceOf[u] \in Devices
    BY DEF CursorInv, VersionsExist, TypeOK, Sync
  <2> QED
    BY <2>1, <2>2, <2>3, <2>4
<1>3. Covered'
  BY <1>1, <1>2 DEF CursorInv, Covered, Settled
<1>4. CursorsBehind' /\ RecordsBehind'
  BY <1>1, <1>2 DEF CursorsBehind, RecordsBehind
<1>5. ASSUME NEW u \in Tasks PROVE SyncFits(u)'
  <2>1. SyncFits(u)
    BY DEF CursorInv
  <2>2. StartsAtCursor(u)'
    BY <1>1, <2>1 DEF SyncFits, StartsAtCursor
  <2>3. SizesFit(u)'
    BY <1>1, <1>2, <2>1 DEF SyncFits, SizesFit, BetweenEmptyStatements
  <2>4. PageFits(u)'
    BY <1>1, <1>2, <2>1 DEF SyncFits, PageFits
  <2>5. SeenFits(u)'
    BY <1>1, <1>2, <2>1 DEF SyncFits, SeenFits
  <2>6. FetchFits(u)'
    <3>1. \A i \in Items : rows[i].rev > 0 => rows'[i].rev > 0
      BY <1>1, <1>2
    <3>2. sync[u].ask \subseteq Items
      BY DEF CursorInv, VersionsExist, TypeOK, Sync
    <3> QED
      BY <1>1, <2>1, <3>1, <3>2 DEF SyncFits, FetchFits
  <2> QED
    BY <2>2, <2>3, <2>4, <2>5, <2>6 DEF SyncFits
<1>6. ASSUME NEW u \in Tasks PROVE AckAhead(u)'
  <2>1. push'[u] = push[u] \/ push'[u] = NoPush \/ push'[u].rev = rev + 1
    BY DEF AcceptWrite, CursorInv, VersionsExist, TypeOK, Push
  <2> QED
    BY <1>1, <1>2, <2>1 DEF AckAhead, CursorInv, NoPush
<1> QED
  BY <1>3, <1>4, <1>5, <1>6 DEF CursorInv

\* A write is recorded past the cursor, so no covered item changes.
LEMMA CommitCursor ==
    ASSUME CursorInv, VersionsExist', OneJob', NEW t \in Tasks, NEW i \in Items, CommitWrite(t, i)
    PROVE  CursorInv'
<1> DEFINE d == DeviceOf[t]
<1>1. /\ UNCHANGED <<rev, rows, unreadable, cursor, sync>>
      /\ push[t].st = "acked" /\ i \in Touched(push[t].batch) /\ d \in Devices
  <2>1. UNCHANGED <<rev, rows, unreadable, cursor, sync>>
    BY DEF CommitWrite, serverVars
  <2>2. push[t].st = "acked" /\ i \in Touched(push[t].batch)
    BY DEF CommitWrite
  <2> QED
    BY <2>1, <2>2
<1>2. \A e \in Devices, j \in Items : e # d \/ j # i => replica'[e][j] = replica[e][j]
  BY DEF CommitWrite, CommitRow, CursorInv, VersionsExist, TypeOK
<1>3. ~(rows[i].rev <= cursor[d])
  <2>1. cursor[d] < push[t].rev /\ push[t].rev <= rows[i].rev
    BY <1>1 DEF CursorInv, AckAhead, VersionsExist, AcksBehind, Behind
  <2>2. cursor[d] \in Nat /\ push[t].rev \in Nat /\ rows[i].rev \in Nat
    BY <1>1 DEF CursorInv, VersionsExist, TypeOK, Push, Row
  <2> QED
    BY <2>1, <2>2
<1>4. Covered'
  BY <1>1, <1>2, <1>3 DEF CursorInv, Covered, Settled
<1>5. CursorsBehind' /\ RecordsBehind'
  BY <1>1 DEF CursorInv, CursorsBehind, RecordsBehind
<1>6. \A u \in Tasks : SyncFits(u)'
  BY <1>1 DEF CursorInv, SyncFits, StartsAtCursor, SizesFit, PageFits, SeenFits, FetchFits
<1>7. \A u \in Tasks : push'[u].st = "acked" => push[u].st = "acked" /\ push'[u].rev = push[u].rev
  <2> DEFINE rest == [push[t].batch EXCEPT ![i] = NoChange]
  <2>1. push \in [Tasks -> Push] /\ push[t] \in Push
    BY DEF CursorInv, VersionsExist, TypeOK
  <2>2. \/ push' = [push EXCEPT ![t] = NoPush]
        \/ push' = [push EXCEPT ![t] = [push[t] EXCEPT !.batch = rest]]
    BY DEF CommitWrite
  <2>3. [push[t] EXCEPT !.batch = rest].rev = push[t].rev /\ NoPush.st = "idle"
    BY <2>1 DEF Push, NoPush
  <2> HIDE DEF rest
  <2>4. \A u \in Tasks \ {t} : push'[u] = push[u]
    BY <2>1, <2>2
  <2>5. push'[t] = NoPush \/ push'[t] = [push[t] EXCEPT !.batch = rest]
    BY <2>1, <2>2
  <2> QED
    BY <1>1, <2>3, <2>4, <2>5
<1>8. \A u \in Tasks : AckAhead(u)'
  BY <1>1, <1>7 DEF CursorInv, AckAhead
<1> QED
  BY <1>4, <1>5, <1>6, <1>8 DEF CursorInv

\* What a step of one sync_now leaves alone.
LEMMA SyncFrame ==
    ASSUME TypeOK, NEW t \in Tasks,
           \/ SyncNow(t) \/ Resync(t) \/ ReadCursor(t) \/ PullSizes(t) \/ PullRows(t) \/ PullRewound(t)
           \/ PullApply(t) \/ DropLacking(t) \/ RetryUnreadable(t) \/ FetchItems(t)
           \/ ApplyRefetched(t) \/ FetchFails(t) \/ SyncFails(t)
    PROVE  /\ UNCHANGED <<rev, rows, push, backup, restores>>
           /\ \A u \in Tasks \ {t} : sync'[u] = sync[u]
<1>1. UNCHANGED <<rev, rows, push, backup, restores>>
  BY DEF SyncNow, Resync, ReadCursor, PullSizes, PullRows, PullRewound, PullApply, DropLacking,
         RetryUnreadable, FetchItems, ApplyRefetched, FetchFails, SyncFails, serverVars, backupVars
<1>2. \A u \in Tasks \ {t} : sync'[u] = sync[u]
  BY DEF SyncNow, Resync, ReadCursor, PullSizes, PullRows, PullRewound, PullApply, DropLacking,
         RetryUnreadable, FetchItems, ApplyRefetched, FetchFails, SyncFails, TypeOK
<1> QED
  BY <1>1, <1>2

\* The state of a task after each step of a pull.
LEMMA ReadCursorIs ==
    ASSUME TypeOK, NEW t \in Tasks, ReadCursor(t)
    PROVE  /\ sync'[t].st = "asked" /\ sync'[t].since = cursor[DeviceOf[t]]
           /\ sync'[t].fromZero = (cursor[DeviceOf[t]] = 0)
           /\ sync'[t].held = IF cursor[DeviceOf[t]] = 0 THEN Held(DeviceOf[t]) ELSE {}
           /\ sync'[t].seen = sync[t].seen /\ sync'[t].page = sync[t].page /\ sync'[t].began = rev
BY DEF ReadCursor, TypeOK, Sync

LEMMA PullSizesIs ==
    ASSUME TypeOK, NEW t \in Tasks, PullSizes(t)
    PROVE  /\ sync'[t].st = "sized" /\ sync[t].st = "asked"
           /\ sync'[t].since = sync[t].since /\ sync'[t].fromZero = sync[t].fromZero
           /\ sync'[t].held = sync[t].held /\ sync'[t].seen = sync[t].seen
           /\ sync'[t].page = sync[t].page /\ sync'[t].began = sync[t].began
           /\ \/ RevisionsAfter(sync[t].since) = {} /\ sync'[t].next = 0 /\ ~sync'[t].more
              \/ /\ sync'[t].next \in RevisionsAfter(sync[t].since)
                 /\ ~sync'[t].more => RevisionsAfter(sync'[t].next) = {}
<1>1. sync \in [Tasks -> Sync] /\ sync[t] \in Sync
  BY DEF TypeOK
<1> DEFINE sized(n, m) == [sync[t] EXCEPT !.st = "sized", !.next = n, !.more = m]
<1>2. \A n, m :
         /\ sized(n, m).st = "sized" /\ sized(n, m).since = sync[t].since
         /\ sized(n, m).fromZero = sync[t].fromZero
         /\ sized(n, m).held = sync[t].held /\ sized(n, m).seen = sync[t].seen
         /\ sized(n, m).page = sync[t].page /\ sized(n, m).began = sync[t].began
         /\ sized(n, m).next = n /\ sized(n, m).more = m
  BY <1>1 DEF Sync
<1>3. PICK n, m :
         /\ sync' = [sync EXCEPT ![t] = sized(n, m)]
         /\ \/ RevisionsAfter(sync[t].since) = {} /\ n = 0 /\ m = FALSE
            \/ n \in RevisionsAfter(sync[t].since) /\ m = (RevisionsAfter(n) # {})
  BY Zenon DEF PullSizes
<1>4. sync[t].st = "asked"
  BY DEF PullSizes
<1> HIDE DEF sized
<1>5. sync'[t] = sized(n, m)
  BY <1>1, <1>3
<1>6. n \in RevisionsAfter(sync[t].since) /\ m = (RevisionsAfter(n) # {}) => (~m => RevisionsAfter(n) = {})
  BY Zenon
<1> QED
  BY <1>2, <1>3, <1>4, <1>5, <1>6

LEMMA PullRowsIs ==
    ASSUME TypeOK, NEW t \in Tasks, PullRows(t)
    PROVE  /\ sync'[t].st = "answered" /\ sync[t].st = "sized"
           /\ sync'[t].since = sync[t].since /\ sync'[t].fromZero = sync[t].fromZero
           /\ sync'[t].held = sync[t].held /\ sync'[t].seen = sync[t].seen
           /\ sync'[t].more = sync[t].more /\ sync'[t].began = sync[t].began
           /\ IF sync[t].next = 0 THEN sync'[t].next = rev /\ sync'[t].page = EmptyPage
              ELSE sync'[t].next = sync[t].next /\ sync'[t].page = RowsThrough(sync[t].since, sync[t].next)
BY DEF PullRows, TypeOK, Sync

LEMMA PullRewoundIs ==
    ASSUME TypeOK, NEW t \in Tasks, PullRewound(t)
    PROVE  /\ sync[t].st = "answered" /\ UNCHANGED replica
           /\ \/ sync'[t] = NoSync /\ UNCHANGED <<unreadable, cursor>>
              \/ /\ ResetCursor(DeviceOf[t])
                 /\ sync'[t].st = "asked" /\ sync'[t].since = 0 /\ sync'[t].fromZero = TRUE
                 /\ sync'[t].held = Held(DeviceOf[t]) /\ sync'[t].seen = {} /\ sync'[t].began = rev
                 /\ sync'[t].page = sync[t].page
<1>1. sync \in [Tasks -> Sync] /\ sync[t] \in Sync
  BY DEF TypeOK
<1>2. CASE sync[t].fromZero
  BY <1>1, <1>2 DEF PullRewound
<1>3. CASE ~sync[t].fromZero
  <2> DEFINE s == [sync[t] EXCEPT !.st = "asked", !.since = 0, !.fromZero = TRUE,
                                  !.held = Held(DeviceOf[t]), !.seen = {}, !.began = rev]
  <2>1. /\ s.st = "asked" /\ s.since = 0 /\ s.fromZero = TRUE /\ s.held = Held(DeviceOf[t])
        /\ s.seen = {} /\ s.began = rev /\ s.page = sync[t].page
    BY <1>1 DEF Sync
  <2>2. sync' = [sync EXCEPT ![t] = s] /\ ResetCursor(DeviceOf[t])
    BY <1>3 DEF PullRewound
  <2> HIDE DEF s
  <2>3. sync'[t] = s
    BY <1>1, <2>2
  <2> QED
    BY <2>1, <2>2, <2>3 DEF PullRewound
<1> QED
  BY <1>2, <1>3

LEMMA PullApplyIs ==
    ASSUME TypeOK, NEW t \in Tasks, PullApply(t)
    PROVE  /\ sync[t].st = "answered" /\ sync[t].next >= sync[t].since
           /\ ApplyChanges(DeviceOf[t], Mentioned(sync[t].page), sync[t].page)
           /\ cursor' = [cursor EXCEPT ![DeviceOf[t]] = sync[t].next]
           /\ sync'[t].fromZero = sync[t].fromZero /\ sync'[t].held = sync[t].held
           /\ sync'[t].began = sync[t].began /\ sync'[t].page = EmptyPage
           /\ sync[t].fromZero => sync'[t].seen = sync[t].seen \cup Mentioned(sync[t].page)
           /\ \/ sync'[t].st = "asked" /\ sync'[t].since = sync[t].next /\ sync[t].more
              \/ sync'[t].st = "drop" /\ sync[t].fromZero /\ ~sync[t].more
              \/ sync'[t].st = "retry" /\ (~sync[t].fromZero \/ (sync[t].more /\ ~(sync[t].next > sync[t].since)))
<1>1. sync \in [Tasks -> Sync] /\ sync[t] \in Sync
  BY DEF TypeOK
<1>2. /\ sync[t].st = "answered" /\ sync[t].next >= sync[t].since
      /\ ApplyChanges(DeviceOf[t], Mentioned(sync[t].page), sync[t].page)
      /\ cursor' = [cursor EXCEPT ![DeviceOf[t]] = sync[t].next]
  BY DEF PullApply, ApplyRemoteChanges
<1> DEFINE seen == IF sync[t].fromZero THEN sync[t].seen \cup Mentioned(sync[t].page) ELSE sync[t].seen
           on == [sync[t] EXCEPT !.st = "asked", !.since = sync[t].next, !.seen = seen, !.page = EmptyPage]
           end(st) == [sync[t] EXCEPT !.st = st, !.seen = seen, !.page = EmptyPage]
<1>3. CASE sync[t].more /\ sync[t].next > sync[t].since
  <2>1. /\ on.st = "asked" /\ on.since = sync[t].next /\ on.fromZero = sync[t].fromZero /\ on.held = sync[t].held
        /\ on.began = sync[t].began /\ on.page = EmptyPage /\ on.seen = seen
    BY <1>1 DEF Sync
  <2>2. sync' = [sync EXCEPT ![t] = on]
    BY <1>3 DEF PullApply
  <2>3. sync'[t] = on
    <3> HIDE DEF on
    <3> QED
      BY <1>1, <2>2
  <2> QED
    BY <1>2, <1>3, <2>1, <2>3
<1>4. CASE ~(sync[t].more /\ sync[t].next > sync[t].since)
  <2> DEFINE st == IF sync[t].fromZero /\ ~sync[t].more THEN "drop" ELSE "retry"
  <2>1. /\ end(st).st = st /\ end(st).fromZero = sync[t].fromZero /\ end(st).held = sync[t].held
        /\ end(st).began = sync[t].began /\ end(st).page = EmptyPage /\ end(st).seen = seen
    BY <1>1 DEF Sync
  <2>2. sync' = [sync EXCEPT ![t] = end(st)]
    BY <1>4 DEF PullApply
  <2>3. sync'[t] = end(st)
    <3> HIDE DEF end
    <3> QED
      BY <1>1, <2>2
  <2>4. /\ st = "drop" \/ st = "retry"
        /\ st = "drop" => sync[t].fromZero /\ ~sync[t].more
        /\ st = "retry" => ~sync[t].fromZero \/ (sync[t].more /\ ~(sync[t].next > sync[t].since))
    BY <1>4
  <2>5. sync[t].fromZero => seen = sync[t].seen \cup Mentioned(sync[t].page)
    OBVIOUS
  <2> HIDE DEF st, seen, end
  <2>6. /\ sync'[t].fromZero = sync[t].fromZero /\ sync'[t].held = sync[t].held
        /\ sync'[t].began = sync[t].began /\ sync'[t].page = EmptyPage
        /\ sync'[t].seen = seen /\ sync'[t].st = st
    BY <2>1, <2>3
  <2> QED
    BY <1>2, <2>4, <2>5, <2>6
<1> QED
  BY <1>3, <1>4

\* A step that moves the cursor alone leaves the other tasks what they rely on.
LEMMA OthersFit ==
    ASSUME CursorInv, NEW t \in Tasks, UNCHANGED <<rev, rows, push>>,
           \A u \in Tasks \ {t} : sync'[u] = sync[u],
           \A e \in Devices \ {DeviceOf[t]} : cursor'[e] = cursor[e],
           CursorMovesAlone, push[t].st = "idle"
    PROVE  /\ \A u \in Tasks \ {t} : SyncFits(u)'
           /\ \A u \in Tasks : AckAhead(u)'
<1>1. ASSUME NEW u \in Tasks \ {t} PROVE SyncFits(u)' /\ AckAhead(u)'
  <2>0. sync'[u] = sync[u] /\ push' = push /\ rows' = rows /\ rev' = rev /\ SyncFits(u) /\ AckAhead(u)
    BY DEF CursorInv
  <2>1. CASE cursor'[DeviceOf[u]] = cursor[DeviceOf[u]]
    BY <2>0, <2>1 DEF SyncFits, StartsAtCursor, SizesFit, PageFits, SeenFits, FetchFits, AckAhead
  <2>2. CASE cursor'[DeviceOf[u]] # cursor[DeviceOf[u]]
    <3>1. sync[u].st \notin Pulling \cup {"drop"} /\ push[u].st # "acked"
      BY <2>0, <2>2 DEF CursorMovesAlone, OnCursor
    <3> QED
      BY <2>0, <3>1 DEF SyncFits, StartsAtCursor, SizesFit, PageFits, SeenFits, FetchFits, AckAhead, Pulling
  <2> QED
    BY <2>1, <2>2
<1>2. AckAhead(t)'
  BY DEF AckAhead
<1> QED
  BY <1>1, <1>2

\* What a batch of changes leaves of each item.
LEMMA ChangesAre ==
    ASSUME TypeOK, NEW d \in Devices, NEW I, NEW changes, ApplyChanges(d, I, changes)
    PROVE  /\ \A e \in Devices \ {d} : replica'[e] = replica[e] /\ unreadable'[e] = unreadable[e]
           /\ \A i \in Items \ I : replica'[d][i] = replica[d][i] /\ unreadable'[d][i] = unreadable[d][i]
           /\ \A i \in Items \cap I : /\ replica'[d][i] = ChangedRow(d, i, changes[i])
                                       /\ unreadable'[d][i] = ChangedUnreadable(d, changes[i])
BY DEF ApplyChanges, TypeOK

\* Once the server's version of an item was applied, the item is settled.
LEMMA AppliedSettles ==
    ASSUME TypeOK, NEW d \in Devices, NEW i \in Items, rows' = rows,
           replica'[d][i] = ChangedRow(d, i, rows[i]),
           unreadable'[d][i] = ChangedUnreadable(d, rows[i])
    PROVE  Settled(d, i)'
BY DEF Settled, ChangedRow, ChangedUnreadable, TypeOK

\* An item the server does not know and the replica does not hold is settled.
LEMMA UnknownSettles ==
    ASSUME VersionsExist, NEW d \in Devices, NEW i \in Items, rows' = rows, rows[i].rev <= 0,
           replica'[d][i] = replica[d][i] \/ replica'[d][i] = NoRow, unreadable'[d][i] = 0
    PROVE  Settled(d, i)'
<1>1. rows[i] = NoRow
  BY DEF VersionsExist, TypeOK, ServerOrdered, Row
<1>2. replica[d][i] = NoRow
  <2>1. replica[d][i] \in Row /\ Behind(replica[d][i], i)
    BY DEF VersionsExist, TypeOK, NeverAhead
  <2> QED
    BY <1>1, <2>1 DEF Behind, Row, NoRow
<1> QED
  BY <1>1, <1>2 DEF Settled, NoRow

LEMMA ResetCovers ==
    ASSUME CursorInv, NEW d \in Devices, ResetCursor(d), UNCHANGED <<rev, rows, replica>>
    PROVE  /\ Covered' /\ CursorsBehind' /\ RecordsBehind'
           /\ cursor'[d] = 0 /\ \A e \in Devices \ {d} : cursor'[e] = cursor[e]
<1>1. /\ cursor'[d] = 0 /\ \A i \in Items : unreadable'[d][i] = 0
      /\ \A e \in Devices \ {d} : cursor'[e] = cursor[e] /\ unreadable'[e] = unreadable[e]
  BY DEF ResetCursor, CursorInv, VersionsExist, TypeOK
<1>2. Covered'
  <2> SUFFICES ASSUME NEW e \in Devices, NEW i \in Items, rows[i].rev <= cursor'[e] PROVE Settled(e, i)'
    BY DEF Covered
  <2>1. CASE e = d
    BY <1>1, <2>1, UnknownSettles DEF CursorInv
  <2>2. CASE e # d
    BY <1>1, <2>2 DEF CursorInv, Covered, Settled
  <2> QED
    BY <2>1, <2>2
<1>3. rev \in Nat /\ \A i \in Items : rows[i].rev \in Nat
  BY DEF CursorInv, VersionsExist, TypeOK, Row
<1>4. CursorsBehind'
  BY <1>1, <1>3 DEF CursorInv, CursorsBehind
<1>5. RecordsBehind'
  BY <1>1, <1>3 DEF CursorInv, RecordsBehind
<1> QED
  BY <1>1, <1>2, <1>4, <1>5

LEMMA ResyncCursor ==
    ASSUME CursorInv, CursorMovesAlone, VersionsExist', OneJob', NEW t \in Tasks, Resync(t)
    PROVE  CursorInv'
<1>1. /\ UNCHANGED <<rev, rows, push>> /\ \A u \in Tasks \ {t} : sync'[u] = sync[u]
  BY SyncFrame DEF CursorInv, VersionsExist
<1>2. /\ ResetCursor(DeviceOf[t]) /\ UNCHANGED replica
      /\ push[t].st = "idle" /\ sync'[t].st = "header"
  BY DEF Resync, CanStart, NoSync, CursorInv, VersionsExist, TypeOK
<1>3. /\ Covered' /\ CursorsBehind' /\ RecordsBehind'
      /\ \A e \in Devices \ {DeviceOf[t]} : cursor'[e] = cursor[e]
  BY <1>1, <1>2, ResetCovers
<1>4. SyncFits(t)'
  BY <1>2 DEF SyncFits, StartsAtCursor, SizesFit, PageFits, SeenFits, FetchFits, Pulling
<1>5. (\A u \in Tasks \ {t} : SyncFits(u)') /\ (\A u \in Tasks : AckAhead(u)')
  BY <1>1, <1>2, <1>3, OthersFit
<1> QED
  BY <1>3, <1>4, <1>5 DEF CursorInv

LEMMA RewoundCursor ==
    ASSUME CursorInv, CursorMovesAlone, VersionsExist', OneJob', NEW t \in Tasks, PullRewound(t)
    PROVE  CursorInv'
<1>0. TypeOK /\ sync[t].st = "answered" /\ UNCHANGED replica
  BY PullRewoundIs DEF CursorInv, VersionsExist
<1>1. /\ UNCHANGED <<rev, rows, push>> /\ \A u \in Tasks \ {t} : sync'[u] = sync[u]
  BY <1>0, SyncFrame
<1>2. push[t].st = "idle"
  BY <1>0 DEF CursorInv, OneJob
<1>3. CASE sync'[t] = NoSync /\ UNCHANGED <<unreadable, cursor>>
  <2>1. SyncFits(t)'
    BY <1>3 DEF NoSync, SyncFits, StartsAtCursor, SizesFit, PageFits, SeenFits, FetchFits, Pulling
  <2> QED
    BY <1>0, <1>1, <1>3, <2>1, LocalCursor
<1>4. CASE ResetCursor(DeviceOf[t]) /\ sync'[t].st = "asked" /\ sync'[t].since = 0
  <2>1. /\ Covered' /\ CursorsBehind' /\ RecordsBehind' /\ cursor'[DeviceOf[t]] = 0
        /\ \A e \in Devices \ {DeviceOf[t]} : cursor'[e] = cursor[e]
    BY <1>0, <1>1, <1>4, ResetCovers
  <2>2. \A i \in Items : rows[i].rev \in Nat
    BY <1>0 DEF TypeOK, Row
  <2>3. SyncFits(t)'
    BY <1>1, <1>4, <2>1, <2>2 DEF SyncFits, StartsAtCursor, SizesFit, PageFits, SeenFits, FetchFits
  <2>4. (\A u \in Tasks \ {t} : SyncFits(u)') /\ (\A u \in Tasks : AckAhead(u)')
    BY <1>1, <1>2, <2>1, OthersFit
  <2> QED
    BY <2>1, <2>3, <2>4 DEF CursorInv
<1> QED
  BY <1>0, <1>3, <1>4, PullRewoundIs

LEMMA ApplyCursor ==
    ASSUME CursorInv, CursorMovesAlone, VersionsExist', OneJob', NEW t \in Tasks, PullApply(t)
    PROVE  CursorInv'
<1> DEFINE d == DeviceOf[t]
           s == sync[t]
<1>0. TypeOK /\ d \in Devices /\ SyncFits(t) /\ s \in Sync
  BY DEF CursorInv, VersionsExist, TypeOK
<1>1. /\ UNCHANGED <<rev, rows, push>> /\ \A u \in Tasks \ {t} : sync'[u] = sync[u]
  BY <1>0, SyncFrame
<1>2. /\ s.st = "answered" /\ s.next >= s.since
      /\ ApplyChanges(d, Mentioned(s.page), s.page) /\ cursor' = [cursor EXCEPT ![d] = s.next]
  BY <1>0, PullApplyIs
<1>3. push[t].st = "idle"
  BY <1>2 DEF CursorInv, OneJob
<1>4. cursor'[d] = s.next /\ \A e \in Devices \ {d} : cursor'[e] = cursor[e]
  BY <1>0, <1>2 DEF TypeOK
<1>5. /\ s.since = cursor[d] /\ s.next <= rev
      /\ \A i \in Items : rows[i].rev <= s.next =>
            \/ rows[i].rev <= s.since /\ s.page[i] = NoRow
            \/ s.page[i] = rows[i]
  BY <1>0, <1>2 DEF SyncFits, StartsAtCursor, PageFits, Pulling
<1>6. /\ \A e \in Devices \ {d} : replica'[e] = replica[e] /\ unreadable'[e] = unreadable[e]
      /\ \A i \in Items \ Mentioned(s.page) : replica'[d][i] = replica[d][i] /\ unreadable'[d][i] = unreadable[d][i]
      /\ \A i \in Items \cap Mentioned(s.page) : /\ replica'[d][i] = ChangedRow(d, i, s.page[i])
                                                  /\ unreadable'[d][i] = ChangedUnreadable(d, s.page[i])
  <2> HIDE DEF d, s
  <2> QED
    BY <1>0, <1>2, ChangesAre
<1>7. rev \in Nat /\ cursor[d] \in Nat /\ (\A i \in Items : rows[i].rev \in Nat)
      /\ s.since \in Nat /\ s.next \in Nat
  BY <1>0 DEF TypeOK, Row, Sync
<1> HIDE DEF s, d
<1>8. Covered'
  <2> SUFFICES ASSUME NEW e \in Devices, NEW i \in Items, rows[i].rev <= cursor'[e] PROVE Settled(e, i)'
    BY <1>1 DEF Covered
  <2>1. CASE e # d
    BY <1>1, <1>4, <1>6, <2>1 DEF CursorInv, Covered, Settled
  <2>2. CASE e = d /\ i \in Mentioned(s.page)
    <3>1. s.page[i] = rows[i]
      BY <1>4, <1>5, <2>2 DEF Mentioned
    <3> QED
      BY <1>0, <1>1, <1>6, <2>2, <3>1, AppliedSettles
  <2>3. CASE e = d /\ i \notin Mentioned(s.page)
    <3>1. rows[i].rev <= cursor[d]
      BY <1>4, <1>5, <1>7, <2>3 DEF Mentioned, NoRow
    <3>2. Settled(d, i)
      BY <1>0, <3>1 DEF CursorInv, Covered
    <3> QED
      BY <1>1, <1>6, <2>3, <3>2 DEF Settled
  <2> QED
    BY <2>1, <2>2, <2>3
<1>9. CursorsBehind'
  BY <1>1, <1>4, <1>5 DEF CursorInv, CursorsBehind
<1>10. RecordsBehind'
  <2>1. \A i \in Items : s.page[i].rev <= rows[i].rev
    BY DEF s, CursorInv, VersionsExist, PagesBehind, Behind
  <2>2. \A i \in Items : ChangedUnreadable(d, s.page[i]) \in {0, s.page[i].rev}
    BY DEF ChangedUnreadable
  <2> QED
    BY <1>1, <1>6, <1>7, <2>1, <2>2 DEF CursorInv, RecordsBehind
<1>11. SyncFits(t)'
  <2>1. ASSUME s.fromZero, NEW i \in Items, rows[i].rev > 0, rows[i].rev <= s.next
        PROVE  i \in s.seen \cup Mentioned(s.page)
    <3>1. CASE rows[i].rev <= s.since
      BY <1>0, <1>2, <1>5, <2>1, <3>1 DEF SyncFits, SeenFits, Pulling, s, d
    <3>2. CASE s.page[i] = rows[i]
      <4>1. s.page[i] # NoRow
        BY <1>7, <2>1, <3>2 DEF NoRow
      <4> QED
        BY <4>1 DEF Mentioned
    <3> QED
      BY <1>5, <2>1, <3>1, <3>2
  <2>2. /\ sync'[t].fromZero = s.fromZero
        /\ s.fromZero => sync'[t].seen = s.seen \cup Mentioned(s.page)
        /\ \/ sync'[t].st = "asked" /\ sync'[t].since = s.next
           \/ sync'[t].st = "drop" /\ s.fromZero
           \/ sync'[t].st = "retry"
    BY <1>0, PullApplyIs DEF s
  <2>3. CASE sync'[t].st = "retry"
    BY <2>3 DEF SyncFits, StartsAtCursor, SizesFit, PageFits, SeenFits, FetchFits, Pulling
  <2>4. CASE sync'[t].st = "asked" /\ sync'[t].since = s.next
    BY <1>1, <1>4, <2>1, <2>2, <2>4 DEF SyncFits, StartsAtCursor, SizesFit, PageFits, SeenFits, FetchFits, d
  <2>5. CASE sync'[t].st = "drop" /\ s.fromZero
    BY <1>1, <1>4, <2>1, <2>2, <2>5 DEF SyncFits, StartsAtCursor, SizesFit, PageFits, SeenFits, FetchFits, Pulling, d
  <2> QED
    BY <2>2, <2>3, <2>4, <2>5
<1>12. (\A u \in Tasks \ {t} : SyncFits(u)') /\ (\A u \in Tasks : AckAhead(u)')
  BY <1>1, <1>3, <1>4, OthersFit DEF d
<1> QED
  BY <1>8, <1>9, <1>10, <1>11, <1>12 DEF CursorInv

\* A step on the replica that leaves the cursors and keeps what is settled.
LEMMA SettledCursor ==
    ASSUME CursorInv, VersionsExist', OneJob', NEW t \in Tasks,
           UNCHANGED <<rev, rows, cursor, push>>, \A u \in Tasks \ {t} : sync'[u] = sync[u],
           SyncFits(t)', Covered', RecordsBehind'
    PROVE  CursorInv'
<1>1. \A u \in Tasks \ {t} : SyncFits(u)'
  BY DEF CursorInv, SyncFits, StartsAtCursor, SizesFit, PageFits, SeenFits, FetchFits
<1>2. \A u \in Tasks : AckAhead(u)'
  BY DEF CursorInv, AckAhead
<1>3. CursorsBehind'
  BY DEF CursorInv, CursorsBehind
<1> QED
  BY <1>1, <1>2, <1>3 DEF CursorInv

\* What a whole pull did not mention the server does not have, or has written
\* past the cursor.
LEMMA DropCursor ==
    ASSUME CursorInv, VersionsExist', OneJob', NEW t \in Tasks, DropLacking(t)
    PROVE  CursorInv'
<1> DEFINE d == DeviceOf[t]
           I == sync[t].held \ sync[t].seen
<1>0. TypeOK /\ d \in Devices /\ SyncFits(t)
  BY DEF CursorInv, VersionsExist
<1>1. UNCHANGED <<rev, rows, cursor, push>> /\ \A u \in Tasks \ {t} : sync'[u] = sync[u]
  BY <1>0, SyncFrame DEF DropLacking
<1>2. sync[t].st = "drop" /\ sync'[t].st = "retry" /\ ApplyChanges(d, I, EmptyPage)
  BY <1>0 DEF DropLacking, DropItemsTheServerLacks, TypeOK, Sync
<1>3. /\ \A e \in Devices \ {d} : replica'[e] = replica[e] /\ unreadable'[e] = unreadable[e]
      /\ \A i \in Items \ I : replica'[d][i] = replica[d][i] /\ unreadable'[d][i] = unreadable[d][i]
      /\ \A i \in Items \cap I : replica'[d][i] = NoRow /\ unreadable'[d][i] = 0
  <2>1. \A i \in Items : /\ ChangedRow(d, i, EmptyPage[i]) = NoRow
                         /\ ChangedUnreadable(d, EmptyPage[i]) = 0
    BY DEF ChangedRow, ChangedUnreadable, EmptyPage, NoRow
  <2> HIDE DEF d, I
  <2> QED
    BY <1>0, <1>2, <2>1, ChangesAre
<1>4. \A i \in Items : rows[i].rev \in Nat
  BY <1>0 DEF TypeOK, Row
<1>5. Covered'
  <2> SUFFICES ASSUME NEW e \in Devices, NEW i \in Items, rows[i].rev <= cursor[e] PROVE Settled(e, i)'
    BY <1>1 DEF Covered
  <2>1. CASE e = d /\ i \in I
    <3>1. ~(rows[i].rev > 0)
      BY <1>0, <1>2, <2>1 DEF SyncFits, SeenFits
    <3> QED
      BY <1>1, <1>3, <1>4, <2>1, <3>1, UnknownSettles DEF CursorInv
  <2>2. CASE ~(e = d /\ i \in I)
    BY <1>1, <1>3, <2>2 DEF CursorInv, Covered, Settled
  <2> QED
    BY <2>1, <2>2
<1>6. RecordsBehind'
  BY <1>1, <1>3, <1>4 DEF CursorInv, RecordsBehind
<1>7. SyncFits(t)'
  BY <1>2 DEF SyncFits, StartsAtCursor, SizesFit, PageFits, SeenFits, FetchFits, Pulling
<1> QED
  BY <1>1, <1>5, <1>6, <1>7, SettledCursor

\* The answer of a fetch touches what is still recorded, and only with what
\* is as new as the record: of a covered item, the server's version.
LEMMA RefetchCursor ==
    ASSUME CursorInv, VersionsExist', OneJob', NEW t \in Tasks, ApplyRefetched(t)
    PROVE  CursorInv'
<1> DEFINE d == DeviceOf[t]
           page == sync[t].page
           stale == {i \in Mentioned(page) : page[i].rev < unreadable[d][i]}
           I == (sync[t].answered \cap Unreadable(d)) \ stale
<1>0. TypeOK /\ d \in Devices /\ SyncFits(t) /\ sync[t] \in Sync
  BY DEF CursorInv, VersionsExist, TypeOK
<1>1. UNCHANGED <<rev, rows, cursor, push>> /\ \A u \in Tasks \ {t} : sync'[u] = sync[u]
  BY <1>0, SyncFrame DEF ApplyRefetched
<1>2. sync[t].st = "fetched" /\ ApplyChanges(d, I, page)
  BY DEF ApplyRefetched, Refetch
<1>3. /\ \A e \in Devices \ {d} : replica'[e] = replica[e] /\ unreadable'[e] = unreadable[e]
      /\ \A i \in Items \ I : replica'[d][i] = replica[d][i] /\ unreadable'[d][i] = unreadable[d][i]
      /\ \A i \in Items \cap I : /\ replica'[d][i] = ChangedRow(d, i, page[i])
                                  /\ unreadable'[d][i] = ChangedUnreadable(d, page[i])
  <2> HIDE DEF d, I, page
  <2> QED
    BY <1>0, <1>2, ChangesAre
<1>4. \A i \in Items : /\ rows[i].rev \in Nat /\ unreadable[d][i] \in Nat /\ page[i] \in Row /\ rows[i] \in Row
                       /\ Behind(page[i], i)
  BY <1>0 DEF TypeOK, Row, Sync, Page, CursorInv, VersionsExist, PagesBehind
<1>5. \A i \in I : i \in Items /\ unreadable[d][i] > 0 /\ page[i].rev >= unreadable[d][i]
  <2>1. \A i \in I : i \in Items /\ unreadable[d][i] > 0 /\ page[i].rev > 0
    BY <1>0, <1>2 DEF SyncFits, FetchFits, Unreadable
  <2>2. \A i \in I : i \in Mentioned(page) /\ i \notin stale
    BY <2>1 DEF Mentioned, NoRow
  <2>3. \A i \in I : ~(page[i].rev < unreadable[d][i])
    BY <2>2
  <2> HIDE DEF I, stale, page, d
  <2> QED
    BY <1>4, <2>1, <2>3 DEF Row
<1> HIDE DEF I, stale, page, d
<1>6. Covered'
  <2> SUFFICES ASSUME NEW e \in Devices, NEW i \in Items, rows[i].rev <= cursor[e] PROVE Settled(e, i)'
    BY <1>1 DEF Covered
  <2>1. CASE e = d /\ i \in I
    <3>1. unreadable[d][i] = rows[i].rev
      BY <1>4, <1>5, <2>1 DEF CursorInv, Covered, Settled
    <3>2. page[i] = rows[i]
      <4>1. page[i].rev = rows[i].rev /\ page[i].blob = rows[i].blob
        BY <1>4, <1>5, <2>1, <3>1 DEF Behind, Row
      <4> QED
        BY <1>4, <4>1 DEF Row
    <3> QED
      BY <1>0, <1>1, <1>3, <2>1, <3>2, AppliedSettles
  <2>2. CASE ~(e = d /\ i \in I)
    BY <1>1, <1>3, <2>2 DEF CursorInv, Covered, Settled
  <2> QED
    BY <2>1, <2>2
<1>7. RecordsBehind'
  <2>1. \A i \in Items : ChangedUnreadable(d, page[i]) \in {0, page[i].rev}
    BY DEF ChangedUnreadable
  <2> QED
    BY <1>1, <1>3, <1>4, <2>1 DEF CursorInv, RecordsBehind, Behind
<1>8. SyncFits(t)'
  <2>1. \/ sync'[t].st = "purge"
        \/ sync'[t].st = "fetch" /\ sync'[t].ask = sync[t].ask
    <3>1. \/ sync'[t] = [NoSync EXCEPT !.st = "purge"]
          \/ sync'[t] = [NoSync EXCEPT !.st = "fetch", !.ask = sync[t].ask]
      BY <1>0 DEF ApplyRefetched, TypeOK
    <3>2. /\ [NoSync EXCEPT !.st = "purge"].st = "purge"
          /\ [NoSync EXCEPT !.st = "fetch", !.ask = sync[t].ask].st = "fetch"
          /\ [NoSync EXCEPT !.st = "fetch", !.ask = sync[t].ask].ask = sync[t].ask
      BY DEF NoSync
    <3> QED
      BY <3>1, <3>2
  <2> QED
    BY <1>0, <1>1, <1>2, <2>1 DEF SyncFits, StartsAtCursor, SizesFit, PageFits, SeenFits, FetchFits, Pulling
<1> QED
  BY <1>1, <1>6, <1>7, <1>8, SettledCursor

\* The steps of a sync that leave the replica alone hand it what fits.
LEMMA AskingCursor ==
    ASSUME CursorInv, VersionsExist', OneJob', NEW t \in Tasks,
           \/ SyncNow(t) \/ ReadCursor(t) \/ PullSizes(t) \/ PullRows(t) \/ RetryUnreadable(t)
           \/ FetchItems(t) \/ FetchFails(t) \/ SyncFails(t)
    PROVE  CursorInv'
<1> DEFINE d == DeviceOf[t]
<1>0. /\ TypeOK /\ d \in Devices /\ SyncFits(t) /\ sync[t] \in Sync /\ sync \in [Tasks -> Sync]
  BY DEF CursorInv, VersionsExist, TypeOK
<1>1. UNCHANGED <<rev, rows, push>> /\ \A u \in Tasks \ {t} : sync'[u] = sync[u]
  BY <1>0, SyncFrame
<1>2. UNCHANGED <<replica, unreadable, cursor>>
  BY DEF SyncNow, ReadCursor, PullSizes, PullRows, RetryUnreadable, FetchItems, FetchFails, SyncFails,
         replicaVars
<1>3. /\ rev \in Nat /\ cursor[d] \in Nat /\ sync[t].since \in Nat /\ sync[t].next \in Nat
      /\ \A i \in Items : rows[i].rev \in Nat /\ rows[i].rev <= rev
  BY <1>0 DEF TypeOK, Sync, Row, CursorInv, VersionsExist, ServerOrdered
<1>4. SUFFICES SyncFits(t)'
  BY <1>1, <1>2, LocalCursor
<1> USE DEF SyncFits
<1>5. CASE SyncNow(t) \/ FetchFails(t) \/ SyncFails(t)
  <2>1. sync'[t].st \in {"idle", "header", "purge"}
    BY <1>0, <1>5 DEF SyncNow, FetchFails, SyncFails, NoSync
  <2> QED
    BY <2>1 DEF StartsAtCursor, SizesFit, PageFits, SeenFits, FetchFits, Pulling
<1>6. CASE ReadCursor(t)
  <2>1. /\ sync'[t].st = "asked" /\ sync'[t].since = cursor[d]
        /\ sync'[t].fromZero = (cursor[d] = 0)
    BY <1>0, <1>6, ReadCursorIs
  <2>2. sync'[t].fromZero => cursor[d] = 0
    BY <2>1, Zenon
  <2> QED
    BY <1>1, <1>2, <1>3, <2>1, <2>2 DEF StartsAtCursor, SizesFit, PageFits, SeenFits, FetchFits
<1>7. CASE PullSizes(t)
  <2>1. /\ sync'[t].st = "sized" /\ sync[t].st = "asked"
        /\ sync'[t].since = sync[t].since /\ sync'[t].fromZero = sync[t].fromZero
        /\ sync'[t].seen = sync[t].seen
        /\ \/ RevisionsAfter(sync[t].since) = {} /\ sync'[t].next = 0
           \/ sync'[t].next \in RevisionsAfter(sync[t].since)
    BY <1>0, <1>7, PullSizesIs
  <2>2. SizesFit(t)'
    <3>1. CASE RevisionsAfter(sync[t].since) = {} /\ sync'[t].next = 0
      <4>1. \A i \in Items : ~(rows[i].rev > sync[t].since)
        BY <3>1 DEF RevisionsAfter
      <4> QED
        BY <1>1, <1>3, <2>1, <3>1, <4>1 DEF SizesFit
    <3>2. CASE sync'[t].next \in RevisionsAfter(sync[t].since)
      <4>1. sync'[t].next <= rev /\ sync'[t].next > sync[t].since
        BY <1>3, <3>2 DEF RevisionsAfter
      <4> QED
        BY <1>1, <1>3, <4>1 DEF SizesFit
    <3> QED
      BY <2>1, <3>1, <3>2
  <2> QED
    BY <1>0, <1>1, <1>2, <2>1, <2>2 DEF StartsAtCursor, PageFits, SeenFits, FetchFits, Pulling
<1>8. CASE PullRows(t)
  <2>1. /\ sync'[t].st = "answered" /\ sync[t].st = "sized"
        /\ sync'[t].since = sync[t].since /\ sync'[t].fromZero = sync[t].fromZero
        /\ sync'[t].seen = sync[t].seen
        /\ IF sync[t].next = 0 THEN sync'[t].next = rev /\ sync'[t].page = EmptyPage
           ELSE sync'[t].next = sync[t].next /\ sync'[t].page = RowsThrough(sync[t].since, sync[t].next)
    BY <1>0, <1>8, PullRowsIs
  <2>2. PageFits(t)'
    <3>1. CASE sync[t].next = 0
      <4>1. sync'[t].next = rev /\ \A i \in Items : sync'[t].page[i] = NoRow /\ rows[i].rev <= sync[t].since
        BY <1>0, <2>1, <3>1 DEF SizesFit, EmptyPage
      <4> QED
        BY <1>1, <1>3, <2>1, <4>1 DEF PageFits
    <3>2. CASE sync[t].next # 0
      <4>1. /\ sync'[t].next = sync[t].next /\ sync[t].next <= rev
            /\ \A i \in Items : sync'[t].page[i] = IF rows[i].rev > sync[t].since /\ rows[i].rev <= sync[t].next
                                                   THEN rows[i] ELSE NoRow
        BY <1>0, <2>1, <3>2 DEF SizesFit, RowsThrough
      <4> QED
        BY <1>1, <1>3, <2>1, <4>1 DEF PageFits
    <3> QED
      BY <3>1, <3>2
  <2> QED
    BY <1>0, <1>1, <1>2, <2>1, <2>2 DEF StartsAtCursor, SizesFit, SeenFits, FetchFits, Pulling
<1>9. CASE RetryUnreadable(t)
  <2>1. \/ sync'[t].st = "purge"
        \/ sync'[t].st = "fetch" /\ sync'[t].ask = Unreadable(d)
    <3>1. \/ sync'[t] = [NoSync EXCEPT !.st = "purge"]
          \/ sync'[t] = [NoSync EXCEPT !.st = "fetch", !.ask = Unreadable(d)]
      BY <1>0, <1>9 DEF RetryUnreadable
    <3>2. /\ [NoSync EXCEPT !.st = "purge"].st = "purge"
          /\ [NoSync EXCEPT !.st = "fetch", !.ask = Unreadable(d)].st = "fetch"
          /\ [NoSync EXCEPT !.st = "fetch", !.ask = Unreadable(d)].ask = Unreadable(d)
      BY DEF NoSync
    <3> QED
      BY <3>1, <3>2
  <2>2. \A i \in Unreadable(d) : i \in Items /\ rows[i].rev > 0
    BY <1>0, <1>3 DEF Unreadable, CursorInv, RecordsBehind, TypeOK
  <2> QED
    BY <1>1, <2>1, <2>2 DEF StartsAtCursor, SizesFit, PageFits, SeenFits, FetchFits, Pulling
<1>10. CASE FetchItems(t)
  <2> DEFINE known == {i \in sync[t].ask : rows[i].rev > 0}
  <2>1. sync[t].st = "fetch" /\ sync[t].ask \subseteq Items
    BY <1>0, <1>10 DEF FetchItems, Sync
  <2>2. known = sync[t].ask
    BY <1>0, <2>1 DEF FetchFits
  <2>3. PICK answered \in SUBSET known :
           sync' = [sync EXCEPT ![t] =
               [sync[t] EXCEPT !.st = "fetched", !.page = FetchRows(answered),
                         !.answered = sync[t].ask \ (known \ answered),
                         !.ask = known \ answered]]
    BY <1>10 DEF FetchItems
  <2>4. /\ sync'[t].st = "fetched" /\ sync'[t].page = FetchRows(answered)
        /\ sync'[t].answered = sync[t].ask \ (known \ answered) /\ sync'[t].ask = known \ answered
    BY <1>0, <2>3 DEF Sync
  <2>5. \A i \in sync'[t].answered : i \in answered /\ i \in Items
    BY <2>1, <2>2, <2>4
  <2>6. \A i \in sync'[t].answered : sync'[t].page[i].rev > 0
    BY <2>4, <2>5 DEF FetchRows
  <2> QED
    BY <1>1, <2>4, <2>6 DEF StartsAtCursor, SizesFit, PageFits, SeenFits, FetchFits, Pulling
<1> QED
  BY <1>5, <1>6, <1>7, <1>8, <1>9, <1>10

LEMMA PurgeCursor ==
    ASSUME CursorInv, VersionsExist', OneJob', NEW t \in Tasks, PurgeExpired(t)
    PROVE  CursorInv'
<1>1. UNCHANGED <<rev, rows, replica, unreadable, cursor>>
  BY DEF PurgeExpired, serverVars, replicaVars
<1>2. /\ sync'[t].st = "idle" /\ \A u \in Tasks \ {t} : sync'[u] = sync[u]
      /\ push' = push \/ (push'[t].st = "sent" /\ \A u \in Tasks \ {t} : push'[u] = push[u])
  BY SendTurns DEF PurgeExpired, NoSync, CursorInv, VersionsExist, TypeOK
<1>3. SyncFits(t)'
  BY <1>2 DEF SyncFits, StartsAtCursor, SizesFit, PageFits, SeenFits, FetchFits, Pulling
<1> QED
  BY <1>1, <1>2, <1>3, LocalCursor

LEMMA NextCursor ==
    ASSUME MaxRestores = 0
    PROVE  CursorInv /\ [Next]_vars /\ [CursorMovesAlone /\ EmptyPullStays]_vars => CursorInv'
<1> SUFFICES ASSUME CursorInv, [Next]_vars, [CursorMovesAlone /\ EmptyPullStays]_vars PROVE CursorInv'
  OBVIOUS
<1>1. VersionsExist' /\ OneJob' /\ ~TakeBackup /\ ~Restore
  BY NextVersions, OneJobKept DEF CursorInv, VersionsExist, TakeBackup, Restore, TypeOK
<1>2. CASE UNCHANGED vars
  BY <1>1, <1>2, LocalCursor DEF vars
<1> SUFFICES ASSUME Next, CursorMovesAlone, EmptyPullStays PROVE CursorInv'
  BY <1>2
<1>3. ASSUME NEW t \in Tasks, SyncStep(t) PROVE CursorInv'
  BY <1>1, <1>3, AskingCursor, ResyncCursor, RewoundCursor, ApplyCursor, DropCursor, RefetchCursor,
     PurgeCursor DEF SyncStep
<1>4. ASSUME NEW t \in Tasks, PushStep(t) PROVE CursorInv'
  BY <1>1, <1>4, QuietCursor, AcceptCursor, CommitCursor DEF PushStep
<1>5. ASSUME NEW t \in Tasks, Edit(t) PROVE CursorInv'
  BY <1>1, <1>5, QuietCursor
<1>6. ASSUME NEW d \in Devices, DeviceStep(d) PROVE CursorInv'
  <2>1. UNCHANGED <<rev, rows, replica, unreadable, cursor>>
    BY <1>6 DEF DeviceStep, Unlock, Lock, Restart, serverVars, replicaVars
  <2>2. CASE Tasks = {}
    BY <1>1, <2>1, <2>2, LocalCursor
  <2>3. CASE Tasks # {}
    BY <1>1, <1>6, <2>3, QuietCursor
  <2> QED
    BY <2>2, <2>3
<1> QED
  BY <1>1, <1>2, <1>3, <1>4, <1>5, <1>6 DEF Next

\* What can make a cursor pass a version its replica lacks, of everything that
\* any number of devices and of overlapping tasks of a device do: nothing but
\* a step that moves the cursor under another task that relies on it, and a
\* write between the two statements of an empty pull.  As long as neither
\* happens, no cursor does (sync.rs pull; core sync.rs apply_remote_changes,
\* apply_refetched; vault.rs commit_write).  The runs late_commit and
\* empty_pull show that each of the two does happen and does it.
THEOREM CursorsCover ==
    ASSUME MaxRestores = 0
    PROVE  Spec /\ [][CursorMovesAlone /\ EmptyPullStays]_vars => []CursorCovers
<1>1. CursorInv => CursorCovers
  BY DEF CursorInv, Covered, Settled, CursorCovers, Mirrors
<1> QED
  BY <1>1, InitCursor, NextCursor, PTL DEF Spec

-----------------------------------------------------------------------------
(* A whole pull repairs a replica, whatever the server was put back to     *)

\* No revision but a row's own: 0 means that there is none.
Known(row) == row.rev = 0 => row = NoRow

RowsKnown == /\ \A i \in Items : Known(rows[i]) /\ Known(backup.rows[i])
             /\ \A d \in Devices, i \in Items : Known(replica[d][i])
             /\ \A t \in Tasks, i \in Items : Known(sync[t].page[i])
             /\ \A t \in Tasks : push[t].st = "acked" => push[t].rev > 0

RevisionsBounded == rev <= MaxRevision /\ backup.rev <= MaxRevision

\* A pull from 0 under way.
FullPull(t) == sync[t].fromZero /\ sync[t].st \in Pulling \cup {"drop", "retry"}

CopyStays(d) == cursor'[d] = cursor[d] /\ replica'[d] = replica[d] /\ unreadable'[d] = unreadable[d]

\* While a pull from 0 is under way only that pull changes its device's copy.
CopyIsThePulls == \A t \in Tasks : FullPull(t) /\ ~CopyStays(DeviceOf[t]) => sync'[t] # sync[t]

\* A pull from 0 since whose start the server has not changed.
Whole(t) == sync[t].fromZero /\ sync[t].began = rev

BeganFits(t) == sync[t].began <= rev \/ sync[t].began = MaxRevision + 1
HeaderFits(t) == sync[t].st = "header" => sync[t].seen = {}

\* What such a pull knows between and after the server's two statements.
SizesWhole(t) == sync[t].st = "sized" =>
    /\ sync[t].more => sync[t].next > sync[t].since
    /\ sync[t].next = 0 => \A i \in Items : rows[i].rev <= sync[t].since
    /\ ~sync[t].more /\ sync[t].next # 0 => \A i \in Items : rows[i].rev <= sync[t].next
PageWhole(t) == sync[t].st = "answered" =>
    /\ sync[t].more => sync[t].next > sync[t].since
    /\ ~sync[t].more /\ sync[t].next >= sync[t].since => \A i \in Items : rows[i].rev <= sync[t].next
    /\ \A i \in Items : sync[t].page[i] = IF rows[i].rev > sync[t].since /\ rows[i].rev <= sync[t].next
                                          THEN rows[i] ELSE NoRow

\* Up to the cursor the replica is as the server is and was mentioned; what
\* was mentioned exists; whatever else the replica has was there before.
SoFar(t) == sync[t].st \in Pulling \cup {"drop"} =>
    /\ \A i \in Items : rows[i].rev > 0 /\ rows[i].rev <= cursor[DeviceOf[t]] =>
            Mirrors(DeviceOf[t], i) /\ i \in sync[t].seen
    /\ \A i \in sync[t].seen : rows[i].rev > 0
    /\ \A i \in Items : replica[DeviceOf[t]][i] # NoRow => i \in sync[t].held \cup sync[t].seen
AtTheEnd(t) == /\ sync[t].st = "drop" => \A i \in Items : rows[i].rev <= cursor[DeviceOf[t]]
               /\ sync[t].st = "retry" => \A i \in Items : Mirrors(DeviceOf[t], i)

WholeFits(t) == Whole(t) => SizesWhole(t) /\ PageWhole(t) /\ SoFar(t) /\ AtTheEnd(t)

FromCursor(t) == sync[t].fromZero => StartsAtCursor(t)

TaskFits(t) == FromCursor(t) /\ BeganFits(t) /\ HeaderFits(t) /\ WholeFits(t)

FullInv == /\ TypeOK /\ RowsKnown /\ RevisionsBounded
           /\ \A t \in Tasks : TaskFits(t)

\* A task between two pulls fits.
LEMMA BetweenPulls ==
    ASSUME NEW t \in Tasks, sync[t].st \in {"idle", "fetch", "fetched", "purge"}, BeganFits(t)
    PROVE  TaskFits(t)
BY DEF TaskFits, FromCursor, StartsAtCursor, HeaderFits, WholeFits, SizesWhole, PageWhole, SoFar, AtTheEnd, Pulling

LEMMA InitFull == Init => FullInv
<1> SUFFICES ASSUME Init PROVE FullInv
  OBVIOUS
<1>1. RowsKnown /\ RevisionsBounded
  BY DEF Init, ServerInit, ReplicaInit, NoSync, NoPush, EmptyPage, NoRow, RowsKnown, Known, RevisionsBounded
<1>2. \A t \in Tasks : TaskFits(t)
  <2>1. \A t \in Tasks : sync[t].st = "idle" /\ BeganFits(t)
    BY DEF Init, ServerInit, NoSync, BeganFits
  <2> QED
    BY <2>1, BetweenPulls
<1> QED
  BY <1>1, <1>2, InitType DEF FullInv

-----------------------------------------------------------------------------
(* Rows with a revision                                                    *)

LEMMA ChangesKnown ==
    ASSUME TypeOK, NEW d \in Devices, NEW I, NEW changes, ApplyChanges(d, I, changes),
           \A i \in Items : Known(replica[d][i]) /\ Known(changes[i]),
           \A e \in Devices, i \in Items : Known(replica[e][i])
    PROVE  \A e \in Devices, i \in Items : Known(replica'[e][i])
<1>1. \A i \in Items : ChangedRow(d, i, changes[i]) \in {NoRow, changes[i], replica[d][i]}
  BY DEF ChangedRow
<1>2. \A i \in Items : Known(ChangedRow(d, i, changes[i]))
  BY <1>1 DEF Known
<1> QED
  BY <1>2, ChangesAre
\* A step that leaves rows and pages as they are.
LEMMA SameKnown ==
    ASSUME RowsKnown, RevisionsBounded, UNCHANGED <<rev, rows, replica, backup>>,
           \A u \in Tasks, i \in Items : Known(sync'[u].page[i]),
           \A u \in Tasks : push'[u].st = "acked" => push[u].st = "acked" /\ push'[u].rev = push[u].rev
    PROVE  RowsKnown' /\ RevisionsBounded'
BY DEF RowsKnown, RevisionsBounded, Known

LEMMA NoPageKnown == \A i \in Items : Known(NoSync.page[i]) /\ Known(EmptyPage[i]) /\ Known(NoRow)
BY DEF NoSync, EmptyPage, NoRow, Known

LEMMA DeviceKnown ==
    ASSUME TypeOK, RowsKnown, RevisionsBounded, NEW d \in Devices, DeviceStep(d)
    PROVE  RowsKnown' /\ RevisionsBounded'
<1>0. push \in [Tasks -> Push] /\ sync \in [Tasks -> Sync]
  BY DEF TypeOK
<1>1. UNCHANGED <<rev, rows, replica, backup>>
  BY DEF DeviceStep, Unlock, Lock, Restart, serverVars, replicaVars, backupVars
<1>2. \A u \in Tasks : /\ sync'[u] = sync[u] \/ sync'[u] = NoSync
                       /\ push'[u].st = "acked" => push[u].st = "acked" /\ push'[u].rev = push[u].rev
  <2>1. CASE Unlock(d)
    BY <2>1 DEF Unlock, taskVars
  <2>2. CASE Lock(d)
    BY <1>0, <2>2 DEF Lock, Push
  <2>3. ASSUME NEW version \in 0..MaxLevel, Restart(d, version)
        PROVE  \A u \in Tasks : /\ sync'[u] = sync[u] \/ sync'[u] = NoSync
                                /\ push'[u].st = "acked" => push'[u] = push[u]
    BY <1>0, <2>3 DEF Restart, Push, NoPush
  <2> QED
    BY <2>1, <2>2, <2>3 DEF DeviceStep
<1>3. \A u \in Tasks, i \in Items : Known(sync'[u].page[i])
  BY <1>2, NoPageKnown DEF RowsKnown
<1> QED
  BY <1>1, <1>2, <1>3, SameKnown

LEMMA EditKnown ==
    ASSUME TypeOK, RowsKnown, RevisionsBounded, NEW t \in Tasks, Edit(t)
    PROVE  RowsKnown' /\ RevisionsBounded'
<1>1. UNCHANGED <<rev, rows, replica, backup, sync>>
  BY DEF Edit, StageCreate, StageIdentity, StageUpdate, StageDelete, StagePurge, serverVars, replicaVars,
         backupVars
<1>2. push'[t].st = "sent" /\ \A u \in Tasks \ {t} : push'[u] = push[u]
  BY SendTurns DEF Edit, StageCreate, StageIdentity, StageUpdate, StageDelete, StagePurge
<1> QED
  BY <1>1, <1>2, SameKnown DEF RowsKnown

\* What a step of a push leaves of the other pushes, and of its own when the
\* server did not just accept it.
LEMMA PushFrame ==
    ASSUME TypeOK, NEW t \in Tasks, PushStep(t)
    PROVE  /\ UNCHANGED <<unreadable, cursor, sync, backup>>
           /\ AcceptWrite(t) \/ UNCHANGED <<rev, rows>>
           /\ (\E i \in Items : CommitWrite(t, i)) \/ UNCHANGED replica
           /\ \A u \in Tasks \ {t} : push'[u] = push[u]
           /\ push'[t].st = "acked" => \/ push[t].st = "acked" /\ push'[t].rev = push[t].rev
                                       \/ AcceptWrite(t) /\ push'[t].rev = rev + 1
<1>0. push \in [Tasks -> Push] /\ push[t] \in Push /\ NoPush.st = "idle"
  BY DEF TypeOK, NoPush
<1>1. UNCHANGED <<unreadable, cursor, sync, backup>>
  BY DEF PushStep, AcceptWrite, RefuseWrite, PushFails, PushTimesOut, CommitWrite, CommitRefused,
         replicaVars, backupVars
<1>2. AcceptWrite(t) \/ UNCHANGED <<rev, rows>>
  BY DEF PushStep, RefuseWrite, PushFails, PushTimesOut, CommitWrite, CommitRefused, serverVars
<1>3. (\E i \in Items : CommitWrite(t, i)) \/ UNCHANGED replica
  BY DEF PushStep, AcceptWrite, RefuseWrite, PushFails, PushTimesOut, CommitRefused, replicaVars
<1>4. CASE AcceptWrite(t)
  BY <1>0, <1>1, <1>2, <1>3, <1>4 DEF AcceptWrite, Push
<1>5. CASE RefuseWrite(t) \/ PushFails(t) \/ CommitRefused(t)
  BY <1>0, <1>1, <1>2, <1>3, <1>5 DEF RefuseWrite, PushFails, CommitRefused
<1>6. CASE PushTimesOut(t)
  <2>1. push'[t].st = "orphan" /\ \A u \in Tasks \ {t} : push'[u] = push[u]
    BY <1>0, <1>6 DEF PushTimesOut, Push
  <2> QED
    BY <1>1, <1>2, <1>3, <2>1
<1>7. ASSUME NEW i \in Items, CommitWrite(t, i)
      PROVE  /\ \A u \in Tasks \ {t} : push'[u] = push[u]
             /\ push'[t].st = "acked" => push[t].st = "acked" /\ push'[t].rev = push[t].rev
  <2> DEFINE rest == [push[t].batch EXCEPT ![i] = NoChange]
  <2>1. push[t].st = "acked" /\ \/ push' = [push EXCEPT ![t] = NoPush]
                                \/ push' = [push EXCEPT ![t] = [push[t] EXCEPT !.batch = rest]]
    BY <1>7 DEF CommitWrite
  <2>2. [push[t] EXCEPT !.batch = rest].rev = push[t].rev
    BY <1>0 DEF Push
  <2> HIDE DEF rest
  <2>3. \A u \in Tasks \ {t} : push'[u] = push[u]
    BY <1>0, <2>1
  <2>4. push'[t] = NoPush \/ push'[t] = [push[t] EXCEPT !.batch = rest]
    BY <1>0, <2>1
  <2> QED
    BY <1>0, <2>1, <2>2, <2>3, <2>4
<1> QED
  BY <1>1, <1>2, <1>3, <1>4, <1>5, <1>6, <1>7 DEF PushStep

LEMMA PushKnown ==
    ASSUME TypeOK, RowsKnown, RevisionsBounded, NEW t \in Tasks, PushStep(t)
    PROVE  RowsKnown' /\ RevisionsBounded'
<1>0. /\ rev \in Nat /\ backup.rev \in Nat /\ rev' \in Nat
      /\ UNCHANGED <<sync, backup>> /\ \A u \in Tasks \ {t} : push'[u] = push[u]
  BY PushFrame, NextType DEF TypeOK, Next
<1>1. (\A i \in Items : Known(rows'[i])) /\ RevisionsBounded'
  <2>1. CASE AcceptWrite(t)
    <3>1. rev' = rev + 1 /\ rev < MaxRevision /\ \A i \in Items : rows'[i] = rows[i] \/ rows'[i].rev = rev + 1
      BY <2>1 DEF AcceptWrite, ApplyBatch
    <3> QED
      BY <1>0, <3>1 DEF RowsKnown, RevisionsBounded, Known
  <2>2. CASE UNCHANGED <<rev, rows>>
    BY <1>0, <2>2 DEF RowsKnown, RevisionsBounded
  <2> QED
    BY <2>1, <2>2, PushFrame
<1>2. \A d \in Devices, i \in Items : Known(replica'[d][i])
  <2>1. ASSUME NEW i \in Items, CommitWrite(t, i)
        PROVE  \A d \in Devices, j \in Items : Known(replica'[d][j])
    <3>1. /\ push[t].st = "acked"
          /\ \A d \in Devices, j \in Items :
               replica'[d][j] = replica[d][j] \/ replica'[d][j] = NoRow \/ replica'[d][j].rev = push[t].rev
      BY <2>1 DEF CommitWrite, CommitRow, TypeOK
    <3>2. push[t].rev > 0 /\ push[t].rev \in Nat
      BY <3>1 DEF RowsKnown, TypeOK, Push
    <3> QED
      BY <3>1, <3>2 DEF RowsKnown, Known
  <2> QED
    BY <2>1, PushFrame DEF RowsKnown
<1>3. \A u \in Tasks : push'[u].st = "acked" => push'[u].rev > 0
  <2>1. push'[t].st = "acked" => push'[t].rev > 0
    BY <1>0, PushFrame DEF RowsKnown
  <2> QED
    BY <1>0, <2>1 DEF RowsKnown
<1> QED
  BY <1>0, <1>1, <1>2, <1>3 DEF RowsKnown

LEMMA SyncKnown ==
    ASSUME TypeOK, RowsKnown, RevisionsBounded, NEW t \in Tasks, SyncStep(t)
    PROVE  RowsKnown' /\ RevisionsBounded'
<1>0. sync \in [Tasks -> Sync] /\ sync[t] \in Sync
  BY DEF TypeOK
<1>1. /\ UNCHANGED <<rev, rows, backup>> /\ \A u \in Tasks \ {t} : sync'[u] = sync[u]
      /\ \A u \in Tasks : push'[u].st = "acked" => push'[u] = push[u]
  <2>1. CASE PurgeExpired(t)
    BY <1>0, <2>1, SendTurns DEF PurgeExpired, serverVars, backupVars
  <2>2. CASE ~PurgeExpired(t)
    BY <2>2, SyncFrame DEF SyncStep
  <2> QED
    BY <2>1, <2>2
<1>2. \A i \in Items : Known(sync'[t].page[i])
  <2>1. CASE SyncNow(t) \/ Resync(t) \/ FetchFails(t) \/ PurgeExpired(t) \/ SyncFails(t)
    <3>1. sync'[t].page = NoSync.page
      BY <1>0, <2>1 DEF SyncNow, Resync, FetchFails, PurgeExpired, SyncFails, NoSync
    <3> QED
      BY <3>1, NoPageKnown
  <2>2. CASE ReadCursor(t) \/ PullSizes(t)
    <3>1. sync'[t].page = sync[t].page
      BY <2>2, ReadCursorIs, PullSizesIs
    <3> QED
      BY <3>1 DEF RowsKnown
  <2>3. CASE PullRows(t)
    <3>1. sync'[t].page = EmptyPage \/ sync'[t].page = RowsThrough(sync[t].since, sync[t].next)
      BY <2>3, PullRowsIs
    <3> QED
      BY <3>1, NoPageKnown DEF RowsThrough, RowsKnown
  <2>4. CASE PullRewound(t)
    <3>1. sync'[t].page = sync[t].page \/ sync'[t] = NoSync
      BY <2>4, PullRewoundIs
    <3> QED
      BY <3>1, NoPageKnown DEF RowsKnown
  <2>5. CASE PullApply(t)
    BY <2>5, PullApplyIs, NoPageKnown
  <2>6. CASE DropLacking(t)
    <3>1. sync'[t].page = sync[t].page
      BY <1>0, <2>6 DEF DropLacking, Sync
    <3> QED
      BY <3>1 DEF RowsKnown
  <2>7. CASE FetchItems(t)
    <3>1. PICK answered : sync'[t].page = FetchRows(answered)
      BY <1>0, <2>7, SMTT(30) DEF FetchItems, Sync
    <3> QED
      BY <3>1, NoPageKnown DEF FetchRows, RowsKnown
  <2>8. CASE ApplyRefetched(t) \/ RetryUnreadable(t)
    <3>1. \/ sync'[t] = [NoSync EXCEPT !.st = "purge"]
          \/ \E ask : sync'[t] = [NoSync EXCEPT !.st = "fetch", !.ask = ask]
      BY <1>0, <2>8 DEF ApplyRefetched, RetryUnreadable
    <3>2. /\ [NoSync EXCEPT !.st = "purge"].page = NoSync.page
          /\ \A ask : [NoSync EXCEPT !.st = "fetch", !.ask = ask].page = NoSync.page
      BY DEF NoSync
    <3> QED
      BY <3>1, <3>2, NoPageKnown
  <2> QED
    BY <2>1, <2>2, <2>3, <2>4, <2>5, <2>6, <2>7, <2>8 DEF SyncStep
<1>3. \A d \in Devices, i \in Items : Known(replica'[d][i])
  <2>0. DeviceOf[t] \in Devices
    OBVIOUS
  <2>1. CASE UNCHANGED replica
    BY <2>1 DEF RowsKnown
  <2>2. CASE PullApply(t)
    BY <2>0, <2>2, PullApplyIs, ChangesKnown DEF RowsKnown
  <2>3. CASE DropLacking(t)
    <3>1. ApplyChanges(DeviceOf[t], sync[t].held \ sync[t].seen, EmptyPage)
      BY <2>3 DEF DropLacking, DropItemsTheServerLacks
    <3> QED
      BY <2>0, <3>1, NoPageKnown, ChangesKnown DEF RowsKnown
  <2>4. CASE ApplyRefetched(t)
    <3>1. PICK I : ApplyChanges(DeviceOf[t], I, sync[t].page)
      BY <2>4 DEF ApplyRefetched, Refetch
    <3> QED
      BY <2>0, <3>1, ChangesKnown DEF RowsKnown
  <2> QED
    BY <2>1, <2>2, <2>3, <2>4 DEF SyncStep, SyncNow, Resync, ReadCursor, PullSizes, PullRows, PullRewound,
       RetryUnreadable, FetchItems, FetchFails, PurgeExpired, SyncFails, replicaVars
<1> QED
  BY <1>1, <1>2, <1>3 DEF RowsKnown, RevisionsBounded

LEMMA RestoreKnown ==
    ASSUME TypeOK, RowsKnown, RevisionsBounded, TakeBackup \/ Restore
    PROVE  RowsKnown' /\ RevisionsBounded'
<1>1. CASE TakeBackup
  <2>1. backup'.rev = rev /\ backup'.rows = rows /\ UNCHANGED <<rev, rows, replica, sync, push>>
    BY <1>1 DEF TakeBackup, serverVars, replicaVars, taskVars
  <2> QED
    BY <2>1 DEF RowsKnown, RevisionsBounded
<1>2. CASE Restore
  <2>1. /\ rev' = backup.rev /\ rows' = backup.rows /\ UNCHANGED <<replica, backup>>
    BY <1>2 DEF Restore, replicaVars
  <2>2. \A u \in Tasks : /\ sync'[u].page = NoSync.page \/ sync'[u].page = sync[u].page
                         /\ push'[u] = push[u] \/ push'[u] = NoPush
    BY <1>2 DEF Restore, TypeOK, Sync, NoSync
  <2> QED
    BY <2>1, <2>2, NoPageKnown DEF RowsKnown, RevisionsBounded, NoPush
<1> QED
  BY <1>1, <1>2

-----------------------------------------------------------------------------
(* Whole pulls                                                             *)

\* A task's own state and what it knows of its device stay.
LEMMA SameFits ==
    ASSUME NEW u \in Tasks, TaskFits(u), sync'[u] = sync[u], UNCHANGED <<rev, rows>>,
           CopyStays(DeviceOf[u]) \/ ~FullPull(u)
    PROVE  TaskFits(u)'
<1>1. CASE ~FullPull(u)
  <2>1. BeganFits(u)' /\ HeaderFits(u)'
    BY DEF TaskFits, BeganFits, HeaderFits
  <2> QED
    BY <1>1, <2>1 DEF FullPull, TaskFits, FromCursor, StartsAtCursor, WholeFits, Whole, SizesWhole, PageWhole, SoFar,
                      AtTheEnd, Pulling
<1>2. CASE CopyStays(DeviceOf[u])
  BY <1>2 DEF CopyStays, TaskFits, FromCursor, StartsAtCursor, BeganFits, HeaderFits, WholeFits, Whole, SizesWhole,
              PageWhole, SoFar, AtTheEnd, Mirrors
<1> QED
  BY <1>1, <1>2

\* After a write or a restore no pull under way is whole.
LEMMA BrokenFits ==
    ASSUME NEW u \in Tasks, TaskFits(u), sync'[u].st = sync[u].st, sync'[u].since = sync[u].since,
           sync'[u].seen = sync[u].seen, sync'[u].fromZero = sync[u].fromZero, cursor' = cursor,
           sync'[u].began # rev',
           BeganFits(u)'
    PROVE  TaskFits(u)'
BY DEF TaskFits, FromCursor, StartsAtCursor, HeaderFits, WholeFits, Whole

LEMMA DeviceFits ==
    ASSUME FullInv, NEW d \in Devices, DeviceStep(d)
    PROVE  \A u \in Tasks : TaskFits(u)'
<1>1. UNCHANGED <<rev, rows, replica, unreadable, cursor>>
  BY DEF DeviceStep, Unlock, Lock, Restart, serverVars, replicaVars
<1>2. \A u \in Tasks : sync'[u] = sync[u] \/ sync'[u] = NoSync
  BY DEF DeviceStep, Unlock, Lock, Restart, taskVars
<1>3. ASSUME NEW u \in Tasks, sync'[u] = NoSync PROVE TaskFits(u)'
  <2>1. sync'[u].st = "idle" /\ BeganFits(u)'
    BY <1>1, <1>3 DEF NoSync, BeganFits, FullInv, TypeOK
  <2> QED
    BY <2>1 DEF TaskFits, FromCursor, StartsAtCursor, HeaderFits, WholeFits, SizesWhole, PageWhole, SoFar, AtTheEnd,
                Pulling
<1> QED
  BY <1>1, <1>2, <1>3, SameFits DEF FullInv, CopyStays

LEMMA EditFits ==
    ASSUME FullInv, NEW t \in Tasks, Edit(t)
    PROVE  \A u \in Tasks : TaskFits(u)'
<1>1. UNCHANGED <<rev, rows, replica, unreadable, cursor, sync>>
  BY DEF Edit, StageCreate, StageIdentity, StageUpdate, StageDelete, StagePurge, serverVars, replicaVars
<1> QED
  BY <1>1, SameFits DEF FullInv, CopyStays

\* A write ends what was whole; what is recorded leaves a pull from 0 alone.
LEMMA PushFits ==
    ASSUME FullInv, CopyIsThePulls, NEW t \in Tasks, PushStep(t)
    PROVE  \A u \in Tasks : TaskFits(u)'
<1>0. TypeOK /\ UNCHANGED <<unreadable, cursor, sync>>
  BY PushFrame DEF FullInv
<1>1. CASE AcceptWrite(t)
  <2>1. rev' = rev + 1 /\ rev \in Nat /\ rev < MaxRevision
    BY <1>0, <1>1 DEF AcceptWrite, ApplyBatch, TypeOK
  <2>2. ASSUME NEW u \in Tasks PROVE TaskFits(u)'
    <3>1. sync[u].began \in Nat /\ BeganFits(u) /\ TaskFits(u)
      BY <1>0 DEF TypeOK, Sync, FullInv, TaskFits
    <3>2. sync'[u].began # rev' /\ BeganFits(u)'
      BY <1>0, <2>1, <3>1 DEF BeganFits
    <3> QED
      BY <1>0, <3>1, <3>2, BrokenFits
  <2> QED
    BY <2>2
<1>2. ASSUME NEW i \in Items, CommitWrite(t, i) PROVE \A u \in Tasks : TaskFits(u)'
  <2>1. /\ push[t].st = "acked" /\ UNCHANGED <<rev, rows>>
        /\ \A e \in Devices \ {DeviceOf[t]} : replica'[e] = replica[e]
    BY <1>0, <1>2 DEF CommitWrite, CommitRow, serverVars, TypeOK
  <2>2. ASSUME NEW u \in Tasks PROVE TaskFits(u)'
    <3>1. TaskFits(u) /\ sync'[u] = sync[u]
      BY <1>0 DEF FullInv
    <3>2. CopyStays(DeviceOf[u]) \/ ~FullPull(u)
      BY <3>1 DEF CopyIsThePulls
    <3> QED
      BY <2>1, <3>1, <3>2, SameFits
  <2> QED
    BY <2>2
<1>3. CASE UNCHANGED <<rev, rows, replica>>
  BY <1>0, <1>3, SameFits DEF FullInv, CopyStays
<1> QED
  BY <1>0, <1>1, <1>2, <1>3, PushFrame

LEMMA RestoreFits ==
    ASSUME FullInv, TakeBackup \/ Restore
    PROVE  \A u \in Tasks : TaskFits(u)'
<1>1. CASE TakeBackup
  <2>1. UNCHANGED <<rev, rows, replica, unreadable, cursor, sync>>
    BY <1>1 DEF TakeBackup, serverVars, replicaVars, taskVars
  <2> QED
    BY <2>1, SameFits DEF FullInv, CopyStays
<1>2. CASE Restore
  <2>1. rev' = backup.rev /\ cursor' = cursor
    BY <1>2 DEF Restore, replicaVars
  <2>2. rev' \in Nat /\ rev' <= MaxRevision
    BY <2>1 DEF FullInv, TypeOK, RevisionsBounded
  <2>3. ASSUME NEW u \in Tasks PROVE TaskFits(u)'
    <3>1. \/ sync'[u].st \in {"idle", "purge"} /\ sync'[u].began = 0
          \/ /\ sync'[u].st = sync[u].st /\ sync'[u].since = sync[u].since /\ sync'[u].seen = sync[u].seen
             /\ sync'[u].began = MaxRevision + 1 /\ sync'[u].fromZero = sync[u].fromZero
      <4>1. sync[u] \in Sync
        BY DEF FullInv, TypeOK
      <4>2. sync'[u] \in {NoSync, [NoSync EXCEPT !.st = "purge"], [sync[u] EXCEPT !.began = MaxRevision + 1]}
        BY <1>2 DEF Restore
      <4>3. CASE sync'[u] \in {NoSync, [NoSync EXCEPT !.st = "purge"]}
        BY <4>3 DEF NoSync
      <4>4. CASE sync'[u] = [sync[u] EXCEPT !.began = MaxRevision + 1]
        BY <4>1, <4>4 DEF Sync
      <4> QED
        BY <4>2, <4>3, <4>4
    <3>2. BeganFits(u)'
      BY <2>2, <3>1 DEF BeganFits
    <3>3. CASE sync'[u].st \in {"idle", "purge"}
      BY <3>2, <3>3 DEF TaskFits, FromCursor, StartsAtCursor, HeaderFits, WholeFits, SizesWhole, PageWhole, SoFar,
                        AtTheEnd, Pulling
    <3>4. CASE sync'[u].st \notin {"idle", "purge"}
      <4>1. sync'[u].began # rev'
        BY <2>2, <3>1, <3>4
      <4> QED
        BY <2>1, <3>1, <3>2, <3>4, <4>1, BrokenFits DEF FullInv
    <3> QED
      BY <3>3, <3>4
  <2> QED
    BY <2>3
<1> QED
  BY <1>1, <1>2

\* A step of one sync leaves alone what the pulls from 0 of others know.
LEMMA OthersStay ==
    ASSUME FullInv, CopyIsThePulls, NEW t \in Tasks, SyncStep(t)
    PROVE  /\ UNCHANGED <<rev, rows>>
           /\ \A u \in Tasks \ {t} : TaskFits(u)'
<1>1. UNCHANGED <<rev, rows>> /\ \A u \in Tasks \ {t} : sync'[u] = sync[u]
  BY SyncTouches DEF FullInv, serverVars
<1>2. \A u \in Tasks \ {t} : CopyStays(DeviceOf[u]) \/ ~FullPull(u)
  BY <1>1 DEF CopyIsThePulls
<1> QED
  BY <1>1, <1>2, SameFits DEF FullInv

\* The start of a pull: nothing is covered, nothing mentioned, and whatever
\* the replica has is in `held`.
LEMMA StartFits ==
    ASSUME FullInv, NEW t \in Tasks, ReadCursor(t) \/ PullRewound(t), UNCHANGED <<rev, rows>>
    PROVE  TaskFits(t)'
<1> DEFINE d == DeviceOf[t]
<1>0. /\ TypeOK /\ d \in Devices /\ rev \in Nat /\ cursor[d] \in Nat
      /\ \A i \in Items : rows[i].rev \in Nat
      /\ \A i \in Items : replica[d][i] # NoRow => i \in Held(d)
  <2>1. \A i \in Items : replica[d][i].rev \in Nat /\ Known(replica[d][i])
    BY DEF FullInv, TypeOK, Row, RowsKnown
  <2> QED
    BY <2>1 DEF FullInv, TypeOK, Row, Held, Known
<1>1. ASSUME sync'[t].st = "asked", sync'[t].since = cursor'[d], sync'[t].began = rev,
             sync'[t].fromZero => cursor'[d] = 0 /\ sync'[t].held = Held(d), sync'[t].seen = {},
             UNCHANGED replica
      PROVE  TaskFits(t)'
  <2>1. StartsAtCursor(t)' /\ BeganFits(t)' /\ HeaderFits(t)'
    BY <1>0, <1>1 DEF StartsAtCursor, BeganFits, HeaderFits
  <2>2. ASSUME Whole(t)' PROVE SizesWhole(t)' /\ PageWhole(t)' /\ SoFar(t)' /\ AtTheEnd(t)'
    <3>1. cursor'[d] = 0 /\ sync'[t].held = Held(d)
      BY <1>1, <2>2 DEF Whole
    <3> QED
      BY <1>0, <1>1, <3>1 DEF SizesWhole, PageWhole, SoFar, AtTheEnd
  <2> QED
    BY <2>1, <2>2 DEF TaskFits, FromCursor, WholeFits
<1>2. CASE ReadCursor(t)
  <2>1. /\ sync'[t].st = "asked" /\ sync'[t].since = cursor[d]
        /\ sync'[t].fromZero = (cursor[d] = 0)
        /\ sync'[t].held = IF cursor[d] = 0 THEN Held(d) ELSE {}
        /\ sync'[t].seen = sync[t].seen /\ sync'[t].began = rev
    BY <1>0, <1>2, ReadCursorIs
  <2>2. sync[t].st = "header" /\ UNCHANGED <<replica, cursor>>
    BY <1>2 DEF ReadCursor, replicaVars
  <2>3. sync[t].seen = {}
    BY <2>2 DEF FullInv, TaskFits, HeaderFits
  <2>4. sync'[t].fromZero => cursor[d] = 0
    BY <2>1, Zenon
  <2> QED
    BY <1>1, <2>1, <2>2, <2>3, <2>4
<1>3. CASE PullRewound(t)
  <2>1. CASE sync'[t] = NoSync
    <3>1. sync'[t].st = "idle" /\ BeganFits(t)'
      BY <1>0, <2>1 DEF NoSync, BeganFits
    <3> QED
      BY <3>1 DEF TaskFits, FromCursor, StartsAtCursor, HeaderFits, WholeFits, SizesWhole, PageWhole, SoFar, AtTheEnd,
                  Pulling
  <2>2. CASE sync'[t] # NoSync
    <3>1. /\ sync'[t].st = "asked" /\ sync'[t].since = 0 /\ sync'[t].held = Held(d) /\ sync'[t].seen = {}
          /\ sync'[t].began = rev /\ UNCHANGED replica /\ ResetCursor(d)
      BY <1>0, <1>3, <2>2, PullRewoundIs
    <3>2. cursor'[d] = 0
      BY <1>0, <3>1 DEF ResetCursor, TypeOK
    <3> QED
      BY <1>1, <3>1, <3>2
  <2> QED
    BY <2>1, <2>2
<1> QED
  BY <1>2, <1>3

\* The server's two statements.
LEMMA StatementFits ==
    ASSUME FullInv, NEW t \in Tasks, PullSizes(t) \/ PullRows(t), UNCHANGED <<rev, rows>>
    PROVE  TaskFits(t)'
<1> DEFINE d == DeviceOf[t]
<1>0. /\ TypeOK /\ rev \in Nat /\ sync[t].since \in Nat /\ sync[t].next \in Nat /\ TaskFits(t)
      /\ \A i \in Items : rows[i].rev \in Nat
  BY DEF FullInv, TypeOK, Row, Sync
<1>1. UNCHANGED <<replica, unreadable, cursor>>
  BY DEF PullSizes, PullRows, replicaVars
<1>2. CASE PullSizes(t)
  <2>1. /\ sync'[t].st = "sized" /\ sync[t].st = "asked"
        /\ sync'[t].since = sync[t].since /\ sync'[t].fromZero = sync[t].fromZero
        /\ sync'[t].held = sync[t].held /\ sync'[t].seen = sync[t].seen
        /\ sync'[t].began = sync[t].began
        /\ \/ RevisionsAfter(sync[t].since) = {} /\ sync'[t].next = 0 /\ ~sync'[t].more
           \/ /\ sync'[t].next \in RevisionsAfter(sync[t].since)
              /\ ~sync'[t].more => RevisionsAfter(sync'[t].next) = {}
    BY <1>0, <1>2, PullSizesIs
  <2>2. \A r \in Nat : RevisionsAfter(r) = {} => \A i \in Items : rows[i].rev <= r
    <3> SUFFICES ASSUME NEW r \in Nat, RevisionsAfter(r) = {}, NEW i \in Items PROVE rows[i].rev <= r
      OBVIOUS
    <3>1. ~(rows[i].rev > r)
      BY DEF RevisionsAfter
    <3> QED
      BY <1>0, <3>1
  <2>3. \A r \in RevisionsAfter(sync[t].since) : r \in Nat /\ r > sync[t].since
    BY <1>0 DEF RevisionsAfter
  <2>4. SizesWhole(t)'
    <3>1. CASE RevisionsAfter(sync[t].since) = {} /\ sync'[t].next = 0 /\ ~sync'[t].more
      BY <1>0, <2>1, <2>2, <3>1 DEF SizesWhole
    <3>2. CASE /\ sync'[t].next \in RevisionsAfter(sync[t].since)
               /\ ~sync'[t].more => RevisionsAfter(sync'[t].next) = {}
      <4>1. sync'[t].next \in Nat /\ sync'[t].next > sync[t].since
        BY <2>3, <3>2
      <4> QED
        BY <1>0, <2>1, <2>2, <3>2, <4>1 DEF SizesWhole
    <3> QED
      BY <2>1, <3>1, <3>2
  <2>5. Whole(t)' = Whole(t)
    BY <2>1 DEF Whole
  <2> QED
    BY <1>0, <1>1, <2>1, <2>4, <2>5 DEF TaskFits, FromCursor, StartsAtCursor, BeganFits, HeaderFits, WholeFits, PageWhole,
                                        SoFar, AtTheEnd, Pulling, Mirrors
<1>3. CASE PullRows(t)
  <2>1. /\ sync'[t].st = "answered" /\ sync[t].st = "sized"
        /\ sync'[t].since = sync[t].since /\ sync'[t].fromZero = sync[t].fromZero
        /\ sync'[t].held = sync[t].held /\ sync'[t].seen = sync[t].seen
        /\ sync'[t].more = sync[t].more /\ sync'[t].began = sync[t].began
        /\ IF sync[t].next = 0 THEN sync'[t].next = rev /\ sync'[t].page = EmptyPage
           ELSE sync'[t].next = sync[t].next /\ sync'[t].page = RowsThrough(sync[t].since, sync[t].next)
    BY <1>0, <1>3, PullRowsIs
  <2>2. Whole(t)' = Whole(t)
    BY <2>1 DEF Whole
  <2>3. ASSUME Whole(t) PROVE PageWhole(t)'
    <3>0. SizesWhole(t)
      BY <1>0, <2>3 DEF TaskFits, WholeFits
    <3>1. CASE sync[t].next = 0
      <4>1. ~sync[t].more /\ \A i \in Items : rows[i].rev <= sync[t].since
        BY <1>0, <2>1, <3>0, <3>1 DEF SizesWhole
      <4>2. sync'[t].next = rev /\ \A i \in Items : sync'[t].page[i] = NoRow
        BY <2>1, <3>1 DEF EmptyPage
      <4> QED
        BY <1>0, <2>1, <4>1, <4>2 DEF PageWhole
    <3>2. CASE sync[t].next # 0
      <4>1. /\ sync[t].more => sync[t].next > sync[t].since
            /\ ~sync[t].more => \A i \in Items : rows[i].rev <= sync[t].next
        BY <2>1, <3>0, <3>2 DEF SizesWhole
      <4>2. /\ sync'[t].next = sync[t].next
            /\ \A i \in Items : sync'[t].page[i] = IF rows[i].rev > sync[t].since /\ rows[i].rev <= sync[t].next
                                                   THEN rows[i] ELSE NoRow
        BY <2>1, <3>2 DEF RowsThrough
      <4> QED
        BY <2>1, <4>1, <4>2 DEF PageWhole
    <3> QED
      BY <3>1, <3>2
  <2> QED
    BY <1>0, <1>1, <2>1, <2>2, <2>3 DEF TaskFits, FromCursor, StartsAtCursor, BeganFits, HeaderFits, WholeFits, SizesWhole,
                                        SoFar, AtTheEnd, Pulling, Mirrors
<1> QED
  BY <1>2, <1>3

\* Where the server's version was applied, the replica mirrors it.
LEMMA AppliedMirrors ==
    ASSUME TypeOK, NEW d \in Devices, NEW i \in Items, rows' = rows,
           replica'[d][i] = ChangedRow(d, i, rows[i]),
           unreadable'[d][i] = ChangedUnreadable(d, rows[i])
    PROVE  Mirrors(d, i)'
BY DEF Mirrors, ChangedRow, ChangedUnreadable

\* A page moves the cursor over rows it brings to the replica.
LEMMA ApplyFits ==
    ASSUME FullInv, NEW t \in Tasks, PullApply(t), UNCHANGED <<rev, rows>>
    PROVE  TaskFits(t)'
<1> DEFINE d == DeviceOf[t]
           s == sync[t]
<1>0. TypeOK /\ d \in Devices /\ TaskFits(t) /\ s \in Sync
  BY DEF FullInv, TypeOK
<1>1. /\ s.st = "answered" /\ s.next >= s.since
      /\ ApplyChanges(d, Mentioned(s.page), s.page) /\ cursor' = [cursor EXCEPT ![d] = s.next]
      /\ sync'[t].fromZero = s.fromZero /\ sync'[t].held = s.held /\ sync'[t].began = s.began
      /\ s.fromZero => sync'[t].seen = s.seen \cup Mentioned(s.page)
      /\ \/ sync'[t].st = "asked" /\ sync'[t].since = s.next /\ s.more
         \/ sync'[t].st = "drop" /\ s.fromZero /\ ~s.more
         \/ sync'[t].st = "retry" /\ (~s.fromZero \/ (s.more /\ ~(s.next > s.since)))
  BY <1>0, PullApplyIs
<1>2. cursor'[d] = s.next /\ (s.fromZero => s.since = cursor[d])
  BY <1>0, <1>1 DEF TypeOK, TaskFits, FromCursor, StartsAtCursor, Pulling
<1>3. /\ \A i \in Items \ Mentioned(s.page) : replica'[d][i] = replica[d][i] /\ unreadable'[d][i] = unreadable[d][i]
      /\ \A i \in Items \cap Mentioned(s.page) : /\ replica'[d][i] = ChangedRow(d, i, s.page[i])
                                                  /\ unreadable'[d][i] = ChangedUnreadable(d, s.page[i])
  <2> HIDE DEF d, s
  <2> QED
    BY <1>0, <1>1, ChangesAre
<1>4. s.since \in Nat /\ s.next \in Nat /\ s.seen \subseteq Items /\ \A i \in Items : rows[i].rev \in Nat
  BY <1>0 DEF TypeOK, Row, Sync
<1>5. StartsAtCursor(t)' /\ BeganFits(t)' /\ HeaderFits(t)'
  BY <1>0, <1>1, <1>2 DEF TaskFits, FromCursor, StartsAtCursor, BeganFits, HeaderFits, Pulling
<1>6. ASSUME Whole(t)' PROVE SizesWhole(t)' /\ PageWhole(t)' /\ SoFar(t)' /\ AtTheEnd(t)'
  <2>1. Whole(t) /\ PageWhole(t) /\ SoFar(t) /\ s.fromZero
    BY <1>0, <1>1, <1>6 DEF Whole, TaskFits, WholeFits
  <2>2. \A i \in Items : /\ i \in Mentioned(s.page) => rows[i].rev > s.since /\ s.page[i] = rows[i]
                         /\ rows[i].rev > s.since /\ rows[i].rev <= s.next => i \in Mentioned(s.page)
    BY <1>1, <1>4, <2>1 DEF PageWhole, Mentioned, NoRow
  <2>3. /\ \A i \in Items : rows[i].rev > 0 /\ rows[i].rev <= s.since => Mirrors(d, i) /\ i \in s.seen
        /\ \A i \in s.seen : rows[i].rev > 0
        /\ \A i \in Items : replica[d][i] # NoRow => i \in s.held \cup s.seen
    BY <1>1, <1>2, <2>1 DEF SoFar, Pulling
  <2>4. sync'[t].seen = s.seen \cup Mentioned(s.page) /\ sync'[t].held = s.held
    BY <1>1, <2>1
  <2> HIDE DEF s, d
  <2>5. ASSUME NEW i \in Items, rows[i].rev > 0, rows[i].rev <= s.next
        PROVE  Mirrors(d, i)' /\ i \in s.seen \cup Mentioned(s.page)
    <3>1. CASE i \in Mentioned(s.page)
      <4>1. s.page[i] = rows[i]
        BY <2>2, <3>1
      <4> QED
        BY <1>0, <1>3, <3>1, <4>1, AppliedMirrors
    <3>2. CASE i \notin Mentioned(s.page)
      <4>1. rows[i].rev <= s.since
        BY <1>4, <2>2, <2>5, <3>2
      <4> QED
        BY <1>3, <2>3, <2>5, <3>2, <4>1 DEF Mirrors
    <3> QED
      BY <3>1, <3>2
  <2>6. \A i \in s.seen \cup Mentioned(s.page) : rows[i].rev > 0
    BY <1>4, <2>2, <2>3 DEF Mentioned
  <2>7. \A i \in Items : replica'[d][i] # NoRow => i \in s.held \cup s.seen \cup Mentioned(s.page)
    BY <1>3, <2>3
  <2>8. SoFar(t)'
    BY <1>2, <2>4, <2>5, <2>6, <2>7 DEF SoFar, d
  <2>9. AtTheEnd(t)'
    <3>1. s.more => s.next > s.since
      BY <1>1, <2>1 DEF PageWhole, s
    <3>2. ~s.more => \A i \in Items : rows[i].rev <= s.next
      BY <1>1, <2>1 DEF PageWhole, s
    <3> QED
      BY <1>1, <1>2, <2>1, <3>1, <3>2 DEF AtTheEnd, d
  <2> QED
    BY <1>1, <2>8, <2>9 DEF SizesWhole, PageWhole
<1> QED
  BY <1>5, <1>6 DEF TaskFits, FromCursor, WholeFits

\* What a whole pull did not mention the server does not have.
LEMMA DropFits ==
    ASSUME FullInv, NEW t \in Tasks, DropLacking(t), UNCHANGED <<rev, rows>>
    PROVE  TaskFits(t)'
<1> DEFINE d == DeviceOf[t]
           I == sync[t].held \ sync[t].seen
<1>0. TypeOK /\ d \in Devices /\ TaskFits(t)
  BY DEF FullInv
<1>1. /\ sync[t].st = "drop" /\ ApplyChanges(d, I, EmptyPage) /\ UNCHANGED cursor
      /\ sync'[t].st = "retry" /\ sync'[t].fromZero = sync[t].fromZero /\ sync'[t].began = sync[t].began
  BY <1>0 DEF DropLacking, DropItemsTheServerLacks, TypeOK, Sync
<1>2. /\ \A i \in Items \ I : replica'[d][i] = replica[d][i] /\ unreadable'[d][i] = unreadable[d][i]
      /\ \A i \in Items \cap I : replica'[d][i] = NoRow
  <2>1. \A i \in Items : ChangedRow(d, i, EmptyPage[i]) = NoRow
    BY DEF ChangedRow, EmptyPage, NoRow
  <2> HIDE DEF d, I
  <2> QED
    BY <1>0, <1>1, <2>1, ChangesAre
<1>3. FromCursor(t)' /\ BeganFits(t)' /\ HeaderFits(t)'
  BY <1>0, <1>1 DEF TaskFits, FromCursor, StartsAtCursor, BeganFits, HeaderFits, Pulling
<1>4. ASSUME Whole(t)', NEW i \in Items PROVE Mirrors(d, i)'
  <2>0. SoFar(t) /\ AtTheEnd(t)
    BY <1>0, <1>1, <1>4 DEF Whole, TaskFits, WholeFits
  <2>1. CASE rows[i].rev > 0
    <3>1. Mirrors(d, i) /\ i \in sync[t].seen
      BY <1>1, <2>0, <2>1 DEF SoFar, AtTheEnd
    <3> QED
      BY <1>2, <3>1 DEF Mirrors
  <2>2. CASE ~(rows[i].rev > 0)
    <3>1. rows[i] = NoRow
      BY <1>0, <2>2 DEF TypeOK, Row, FullInv, RowsKnown, Known
    <3>2. i \notin sync[t].seen /\ (replica[d][i] # NoRow => i \in sync[t].held \cup sync[t].seen)
      BY <1>1, <2>0, <2>2 DEF SoFar
    <3>3. replica'[d][i] = NoRow
      BY <1>2, <3>2
    <3> QED
      BY <3>1, <3>3 DEF Mirrors, NoRow
  <2> QED
    BY <2>1, <2>2
<1>5. Whole(t)' => SizesWhole(t)' /\ PageWhole(t)' /\ SoFar(t)' /\ AtTheEnd(t)'
  BY <1>1, <1>4 DEF SizesWhole, PageWhole, SoFar, AtTheEnd, Pulling
<1> QED
  BY <1>3, <1>5 DEF TaskFits, WholeFits

\* The steps before and after a pull.
LEMMA OutsideFits ==
    ASSUME FullInv, NEW t \in Tasks, UNCHANGED <<rev, rows>>,
           \/ SyncNow(t) \/ Resync(t) \/ RetryUnreadable(t) \/ FetchItems(t) \/ ApplyRefetched(t)
           \/ FetchFails(t) \/ PurgeExpired(t) \/ SyncFails(t)
    PROVE  TaskFits(t)'
<1>0. sync \in [Tasks -> Sync] /\ sync[t] \in Sync /\ rev \in Nat /\ BeganFits(t)
  BY DEF FullInv, TypeOK, TaskFits
<1>1. /\ sync'[t].st \in {"idle", "header", "fetch", "fetched", "purge"}
      /\ sync'[t].began = 0 \/ sync'[t].began = sync[t].began
      /\ sync'[t].st = "header" => sync'[t].seen = {}
  <2>1. CASE SyncNow(t) \/ Resync(t) \/ FetchFails(t) \/ PurgeExpired(t) \/ SyncFails(t)
    <3> DEFINE header == [NoSync EXCEPT !.st = "header"]
               purge == [NoSync EXCEPT !.st = "purge"]
    <3>1. sync'[t] = NoSync \/ sync'[t] = header \/ sync'[t] = purge
      BY <1>0, <2>1 DEF SyncNow, Resync, FetchFails, PurgeExpired, SyncFails
    <3>2. /\ NoSync.st = "idle" /\ NoSync.began = 0
          /\ header.st = "header" /\ header.began = 0 /\ header.seen = {}
          /\ purge.st = "purge" /\ purge.began = 0
      BY DEF NoSync
    <3> HIDE DEF header, purge
    <3> QED
      BY <3>1, <3>2
  <2>2. CASE RetryUnreadable(t) \/ ApplyRefetched(t)
    <3>1. \/ sync'[t] = [NoSync EXCEPT !.st = "purge"]
          \/ \E ask : sync'[t] = [NoSync EXCEPT !.st = "fetch", !.ask = ask]
      BY <1>0, <2>2 DEF ApplyRefetched, RetryUnreadable
    <3>2. /\ [NoSync EXCEPT !.st = "purge"].st = "purge" /\ [NoSync EXCEPT !.st = "purge"].began = 0
          /\ \A ask : /\ [NoSync EXCEPT !.st = "fetch", !.ask = ask].st = "fetch"
                      /\ [NoSync EXCEPT !.st = "fetch", !.ask = ask].began = 0
      BY DEF NoSync
    <3> QED
      BY <3>1, <3>2
  <2>3. CASE FetchItems(t)
    <3> DEFINE fetched(page, answered, ask) == [sync[t] EXCEPT !.st = "fetched", !.page = page,
                                                               !.answered = answered, !.ask = ask]
    <3>1. \E page, answered, ask : sync' = [sync EXCEPT ![t] = fetched(page, answered, ask)]
      BY <2>3 DEF FetchItems
    <3>2. \A page, answered, ask : /\ fetched(page, answered, ask).st = "fetched"
                                   /\ fetched(page, answered, ask).began = sync[t].began
      BY <1>0 DEF Sync
    <3> HIDE DEF fetched
    <3> QED
      BY <1>0, <3>1, <3>2
  <2> QED
    BY <2>1, <2>2, <2>3
<1>2. BeganFits(t)'
  BY <1>0, <1>1 DEF BeganFits
<1> QED
  BY <1>1, <1>2 DEF TaskFits, FromCursor, StartsAtCursor, HeaderFits, WholeFits, SizesWhole, PageWhole, SoFar, AtTheEnd,
                    Pulling

LEMMA SyncStepFits ==
    ASSUME FullInv, CopyIsThePulls, NEW t \in Tasks, SyncStep(t)
    PROVE  \A u \in Tasks : TaskFits(u)'
<1>1. UNCHANGED <<rev, rows>> /\ \A u \in Tasks \ {t} : TaskFits(u)'
  BY OthersStay
<1>2. TaskFits(t)'
  BY <1>1, StartFits, StatementFits, ApplyFits, DropFits, OutsideFits DEF SyncStep
<1> QED
  BY <1>1, <1>2

LEMMA NextFull == FullInv /\ [Next]_vars /\ [CopyIsThePulls]_vars => FullInv'
<1> SUFFICES ASSUME FullInv, [Next]_vars, [CopyIsThePulls]_vars PROVE FullInv'
  OBVIOUS
<1>1. TypeOK'
  BY NextType DEF FullInv
<1>2. RowsKnown' /\ RevisionsBounded'
  <2>1. CASE UNCHANGED vars
    BY <2>1 DEF vars, FullInv, RowsKnown, RevisionsBounded
  <2> QED
    BY <2>1, DeviceKnown, EditKnown, PushKnown, SyncKnown, RestoreKnown DEF FullInv, Next
<1>3. \A t \in Tasks : TaskFits(t)'
  <2>1. CASE UNCHANGED vars
    BY <2>1, SameFits DEF vars, FullInv, CopyStays
  <2> QED
    BY <2>1, DeviceFits, EditFits, PushFits, SyncStepFits, RestoreFits DEF Next
<1> QED
  BY <1>1, <1>2, <1>3 DEF FullInv

\* A pull from 0 during which the server stayed as it was leaves the replica
\* as the server is, whatever it held before, however often the server's
\* database was put back and whatever other tasks the device runs, as long as
\* none of them changes the device's copy while the pull is under way
\* (commands.rs resync_vault; core sync.rs drop_items_the_server_lacks).
THEOREM FullPullsRepair == Spec /\ [][CopyIsThePulls]_vars => []FullPullExact
<1>1. FullInv => FullPullExact
  BY DEF FullInv, TaskFits, WholeFits, Whole, AtTheEnd, FullPullExact
<1> QED
  BY <1>1, InitFull, NextFull, PTL DEF Spec

=============================================================================
