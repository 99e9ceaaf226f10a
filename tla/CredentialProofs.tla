-------------------------- MODULE CredentialProofs --------------------------
(***************************************************************************)
(* Proofs about Credentials: for any number of devices, of tasks on them   *)
(* and of passwords, with every interleaving of their requests, every lost *)
(* answer, and locks and restarts anywhere.                                *)
(***************************************************************************)
EXTENDS Credentials, TLAPS

USE AccountServerAssumption, CredentialsAssumption

-----------------------------------------------------------------------------
(* The inductive invariant                                                 *)

\* The states of a task that has a credential to install, and of a request
\* that may still install it.
Rekeying == {"derive", "reauth", "change", "ask", "commit"}
InFlight == {"sent", "checked"}

\* A header the server once installed at its revision.
Installed(h) == h.rev < Len(headers) /\ h.cred = headers[h.rev + 1]

\* Every credential anyone holds was derived before.
DerivedBefore ==
    /\ \A i \in 1..Len(headers) : headers[i] <= made
    /\ \A t \in Tasks : /\ task[t].st \in Rekeying => task[t].new \in 1..made
                        /\ change[t].st \in InFlight => change[t].new \in 1..made

\* What a task carries from the server is what the server had.
RemoteInstalled == \A t \in Tasks : task[t].st \in {"prepared", "adopt", "take"}
                                        => Installed(task[t].remote)

\* A fresh credential is derived for one task, on top of one revision, and
\* nothing installs it anywhere else.
OneBase ==
    \A t \in Tasks : task[t].st \in Rekeying =>
        /\ \A i \in 1..Len(headers) : headers[i] = task[t].new => i = task[t].ticket.rev + 2
        /\ \A u \in Tasks : u # t /\ task[u].st \in Rekeying => task[u].new # task[t].new
        /\ \A u \in Tasks : change[u].st \in InFlight /\ change[u].new = task[t].new
                               => change[u].base = task[t].ticket.rev

\* The change a task waits for is its own, and who goes on to commit has it
\* on the server.
Takes(t) == Installed([rev |-> task[t].ticket.rev + 1, cred |-> task[t].new])
OwnAnswer ==
    \A t \in Tasks :
        /\ At(t, "change") /\ change[t].st \in InFlight
              => change[t].new = task[t].new /\ change[t].base = task[t].ticket.rev
        /\ At(t, "change") /\ change[t].st = "done" => Takes(t)
        /\ At(t, "commit") => Takes(t)

\* What an enrolment or a change without OPAQUE checked: there was no record.
ChecksHold ==
    \A t \in Tasks :
        /\ At(t, "enrolling") => /\ task[t].key # 0
                                 /\ task[t].seen.verifier = task[t].key
                                 /\ task[t].seen.record = 0
        /\ change[t].st = "checked" /\ ~change[t].pake => change[t].seen.record = 0

\* Whoever saw OPAQUE work saw it on an account that has moved to it.
MovedToPake ==
    /\ \A t \in Tasks : At(t, "finish") \/ task[t].ok => account.record # 0
    /\ \A d \in Devices : confirmed[d] => account.record # 0

\* The floor is the revision in use.
FloorsFit == \A d \in Devices : floor[d] <= local[d].rev

CredentialInv == /\ TypeOK /\ CredentialsAgree /\ HeadersAreTheServers /\ LockWins
                 /\ DerivedBefore /\ RemoteInstalled /\ OneBase /\ OwnAnswer
                 /\ ChecksHold /\ MovedToPake /\ FloorsFit

-----------------------------------------------------------------------------
(* Type correctness                                                        *)

LEMMA EmptyTypes == NoTask \in Task /\ NoChange \in Change /\ NoColumns \in Columns
BY DEF NoTask, Task, TaskStates, NoChange, Change, NoColumns, Columns, NoHeader, LocalHeader

LEMMA ServerTypes == TypeOK => Stored \in Columns /\ Header \in LocalHeader /\ Header.cred \in Creds
<1> SUFFICES ASSUME TypeOK
             PROVE  Stored \in Columns /\ Header \in LocalHeader /\ Header.cred \in Creds
  OBVIOUS
<1>1. Stored \in Columns
  BY DEF TypeOK, Account, Stored, Columns
<1>2. Len(headers) \in Nat \ {0} /\ headers[Len(headers)] \in Creds
  BY DEF TypeOK
<1> QED
  BY <1>1, <1>2 DEF Header, LocalHeader

LEMMA InitType == Init => TypeOK
<1> SUFFICES ASSUME Init
             PROVE  TypeOK
  OBVIOUS
<1>1. 1 \in Creds
  BY DEF Creds
<1> QED
  BY <1>1, EmptyTypes DEF Init, AccountInit, TypeOK, Account, LocalHeader

LEMMA TaskGoals ==
    ASSUME NEW st \in TaskStates, NEW goal \in {"sync", "change"}
    PROVE  [NoTask EXCEPT !.st = st, !.goal = goal] \in Task
BY Zenon, EmptyTypes DEF Task

LEMMA StatesType == /\ {"idle", "kdf", "params", "prepared", "connect", "start", "finish"} \subseteq TaskStates
                    /\ {"read", "verify", "issue", "enrol", "enrolling", "signed"} \subseteq TaskStates
                    /\ {"header", "adopt", "take", "rekey", "derive", "reauth"} \subseteq TaskStates
                    /\ {"change", "ask", "commit"} \subseteq TaskStates
BY DEF TaskStates

\* A task that becomes a record of a task.
LEMMA BecomesType ==
    ASSUME TypeOK, NEW t \in Tasks, NEW k \in Task, task' = [task EXCEPT ![t] = k]
    PROVE  task' \in [Tasks -> Task]
BY DEF TypeOK

LEMMA GoesTypes ==
    ASSUME TypeOK, NEW t \in Tasks, NEW st \in TaskStates
    PROVE  /\ Goes(t, st) => task' \in [Tasks -> Task]
           /\ Ends(t) => task' \in [Tasks -> Task]
<1>0. task[t] \in Task
  BY DEF TypeOK
<1>1. [task[t] EXCEPT !.st = st] \in Task
  BY Zenon, <1>0 DEF Task
<1>2. Goes(t, st) => task' = [task EXCEPT ![t] = [task[t] EXCEPT !.st = st]]
  BY DEF Goes
<1> QED
  BY <1>1, <1>2, BecomesType, EmptyTypes DEF Ends

LEMMA UnlockType ==
    ASSUME TypeOK, NEW t \in Tasks,
           \/ \E password \in 1..made : Unlock(t, password)
           \/ DiscardUnlock(t) \/ FinishUnlock(t)
    PROVE  TypeOK'
<1>1. ASSUME NEW password \in 1..made, Unlock(t, password)
      PROVE  TypeOK'
  <2>1. password \in {0} \cup Creds /\ local[My(t)] \in LocalHeader
    BY DEF TypeOK, Creds, My
  <2>2. [NoTask EXCEPT !.st = "kdf", !.key = password, !.ticket = local[My(t)]] \in Task
    BY Zenon, <2>1, EmptyTypes, StatesType DEF Task
  <2> QED
    BY <1>1, <2>2, BecomesType DEF Unlock, TypeOK, My, accountVars
<1>2. CASE DiscardUnlock(t)
  BY <1>2, GoesTypes, StatesType DEF DiscardUnlock, TypeOK, accountVars, deviceVars
<1>3. CASE FinishUnlock(t)
  BY <1>3, GoesTypes, StatesType DEF FinishUnlock, TypeOK, accountVars
<1> QED
  BY <1>1, <1>2, <1>3

LEMMA LockType ==
    ASSUME TypeOK, NEW d \in Locking, Lock(d) \/ Restart(d)
    PROVE  TypeOK'
<1>1. CASE Lock(d)
  <2>1. ASSUME NEW t \in Tasks
        PROVE  [task[t] EXCEPT !.stale = TRUE] \in Task
    <3>1. task[t] \in Task
      BY DEF TypeOK
    <3> QED
      BY Zenon, <3>1 DEF Task
  <2> QED
    BY <1>1, <2>1 DEF Lock, TypeOK, accountVars
<1>2. CASE Restart(d)
  BY <1>2, EmptyTypes DEF Restart, TypeOK, accountVars
<1> QED
  BY <1>1, <1>2

LEMMA SignInType ==
    ASSUME TypeOK, NEW t \in Tasks, SignIn(t)
    PROVE  TypeOK'
<1> USE DEF accountVars, deviceVars, My
<1>0. task[t] \in Task /\ DeviceOf[t] \in Devices
  BY DEF TypeOK
<1>1. CASE Connect(t)
  <2> DEFINE k == [task[t] EXCEPT !.st = "start", !.goal = "connect",
                                 !.pake = confirmed[DeviceOf[t]], !.stale = FALSE]
  <2>1. confirmed[DeviceOf[t]] \in BOOLEAN
    BY <1>0 DEF TypeOK
  <2>2. k \in Task
    BY Zenon, <1>0, <2>1, StatesType DEF Task
  <2>3. task' = [task EXCEPT ![t] = k] \/ Ends(t)
    BY Zenon, <1>1 DEF Connect
  <2>4. task' \in [Tasks -> Task]
    BY <2>2, <2>3, GoesTypes, BecomesType, StatesType
  <2> QED
    BY <1>1, <2>4 DEF Connect, TypeOK
<1>2. CASE AskParams(t)
  <2> DEFINE k(key) == [task[t] EXCEPT !.st = "start", !.goal = "fallback", !.key = key,
                                      !.pake = confirmed[DeviceOf[t]]]
  <2>1. confirmed[DeviceOf[t]] \in BOOLEAN
    BY <1>0 DEF TypeOK
  <2>2. k(0) \in Task /\ k(task[t].key) \in Task
    BY Zenon, <1>0, <2>1, StatesType DEF Task
  <2>3. task' = [task EXCEPT ![t] = k(0)] \/ task' = [task EXCEPT ![t] = k(task[t].key)] \/ Ends(t)
    BY Zenon, <1>2 DEF AskParams
  <2>4. task' \in [Tasks -> Task]
    BY <2>2, <2>3, GoesTypes, BecomesType, StatesType
  <2> QED
    BY <1>2, <2>4 DEF AskParams, TypeOK
<1>3. CASE PakeStart(t)
  BY <1>3, GoesTypes, StatesType DEF PakeStart, PakeRejected, Rejected, TypeOK
<1>4. CASE PakeFinish(t)
  <2>1. [task[t] EXCEPT !.st = "issue", !.ok = TRUE] \in Task
    BY Zenon, <1>0, StatesType DEF Task
  <2>2. task' = [task EXCEPT ![t] = [task[t] EXCEPT !.st = "issue", !.ok = TRUE]]
    BY Zenon, <1>4 DEF PakeFinish
  <2>3. task' \in [Tasks -> Task]
    BY <2>1, <2>2, BecomesType
  <2> QED
    BY <1>4, <2>3 DEF PakeFinish, DropSessions, TypeOK
<1>5. CASE PakeExpired(t)
  BY <1>5, GoesTypes, StatesType DEF PakeExpired, PakeRejected, Rejected, TypeOK
<1>6. CASE LegacyRead(t)
  <2>1. [task[t] EXCEPT !.st = "verify", !.seen = Stored] \in Task
    BY Zenon, <1>0, ServerTypes, StatesType DEF Task
  <2>2. task' = [task EXCEPT ![t] = [task[t] EXCEPT !.st = "verify", !.seen = Stored]] \/ Ends(t)
    BY Zenon, <1>6 DEF LegacyRead, Rejected
  <2>3. task' \in [Tasks -> Task]
    BY <2>1, <2>2, GoesTypes, BecomesType, StatesType
  <2> QED
    BY <1>6, <2>3 DEF LegacyRead, Rejected, TypeOK
<1>7. CASE LegacyVerify(t)
  <2>1. [task[t] EXCEPT !.st = "issue", !.seen = NoColumns] \in Task
    BY Zenon, <1>0, EmptyTypes, StatesType DEF Task
  <2>2. task' = [task EXCEPT ![t] = [task[t] EXCEPT !.st = "issue", !.seen = NoColumns]] \/ Ends(t)
    BY Zenon, <1>7 DEF LegacyVerify, Rejected
  <2>3. task' \in [Tasks -> Task]
    BY <2>1, <2>2, GoesTypes, BecomesType, StatesType
  <2> QED
    BY <1>7, <2>3 DEF LegacyVerify, DropSessions, Rejected, TypeOK
<1>8. CASE IssueToken(t)
  <2>1. task[t].key \in {0} \cup Creds
    BY <1>0 DEF Task
  <2> QED
    BY <1>8, <2>1, GoesTypes, StatesType DEF IssueToken, TypeOK
<1>9. CASE EnrolCheck(t)
  <2>1. [task[t] EXCEPT !.st = "enrolling", !.seen = Stored] \in Task
    BY Zenon, <1>0, ServerTypes, StatesType DEF Task
  <2>2. task' = [task EXCEPT ![t] = [task[t] EXCEPT !.st = "enrolling", !.seen = Stored]] \/ Goes(t, "signed")
    BY Zenon, <1>9 DEF EnrolCheck
  <2>3. task' \in [Tasks -> Task]
    BY <2>1, <2>2, GoesTypes, BecomesType, StatesType
  <2> QED
    BY <1>9, <2>3 DEF EnrolCheck, TypeOK
<1>10. CASE EnrolCommit(t)
  <2> DEFINE k(ok) == [task[t] EXCEPT !.st = "signed", !.ok = ok, !.seen = NoColumns]
  <2>1. [task[t] EXCEPT !.st = "signed", !.seen = NoColumns] \in Task
    BY Zenon, <1>0, EmptyTypes, StatesType DEF Task
  <2>2. \A heard \in BOOLEAN : k(heard) \in Task
    BY Zenon, <1>0, EmptyTypes, StatesType DEF Task
  <2>3. \/ task' = [task EXCEPT ![t] = [task[t] EXCEPT !.st = "signed", !.seen = NoColumns]]
        \/ \E heard \in BOOLEAN : task' = [task EXCEPT ![t] = k(heard)]
    BY Zenon, <1>10 DEF EnrolCommit
  <2>4. task' \in [Tasks -> Task]
    BY <2>1, <2>2, <2>3, BecomesType
  <2>5. task[t].key \in {0} \cup Creds
    BY <1>0 DEF Task
  <2>6. account' \in Account
    BY <1>10, <2>5 DEF EnrolCommit, TypeOK, Account
  <2> QED
    BY <1>10, <2>4, <2>6 DEF EnrolCommit, TypeOK
<1>11. CASE SignInFails(t)
  BY <1>11, GoesTypes, StatesType DEF SignInFails, TypeOK
<1> QED
  BY <1>1, <1>2, <1>3, <1>4, <1>5, <1>6, <1>7, <1>8, <1>9, <1>10, <1>11 DEF SignIn

LEMMA OnlineType ==
    ASSUME TypeOK, NEW t \in Tasks, GoOnline(t) \/ FetchHeader(t) \/ AdoptAndUnlock(t)
    PROVE  TypeOK'
<1> USE DEF accountVars, deviceVars, My
<1>0. task[t] \in Task /\ DeviceOf[t] \in Devices
  BY DEF TypeOK
<1>1. CASE GoOnline(t)
  <2>1. task' \in [Tasks -> Task]
    BY <1>1, GoesTypes, TaskGoals, BecomesType, StatesType DEF GoOnline
  <2>2. task[t].ok \in BOOLEAN
    BY <1>0 DEF Task
  <2>3. confirmed' \in [Devices -> BOOLEAN]
    BY <1>1, <2>2 DEF GoOnline, Confirm, TypeOK
  <2>4. session' \in [Devices -> Tasks \cup {Nobody}]
    BY <1>0, <1>1 DEF GoOnline, TypeOK
  <2> QED
    BY <1>1, <2>1, <2>3, <2>4 DEF GoOnline, TypeOK
<1>2. CASE FetchHeader(t)
  <2>1. [task[t] EXCEPT !.st = "prepared", !.remote = Header] \in Task
    BY Zenon, <1>0, ServerTypes, StatesType DEF Task
  <2>2. task' = [task EXCEPT ![t] = [task[t] EXCEPT !.st = "prepared", !.remote = Header]] \/ Ends(t)
    BY Zenon, <1>2 DEF FetchHeader
  <2>3. task' \in [Tasks -> Task]
    BY <2>1, <2>2, GoesTypes, BecomesType, StatesType
  <2> QED
    BY <1>2, <2>3 DEF FetchHeader, TypeOK
<1>3. CASE AdoptAndUnlock(t)
  <2>1. task' \in [Tasks -> Task]
    BY <1>3, GoesTypes, TaskGoals, BecomesType, StatesType DEF AdoptAndUnlock
  <2>2. task[t].ok \in BOOLEAN /\ task[t].remote \in LocalHeader /\ task[t].remote.rev \in Nat
    BY <1>0 DEF Task, LocalHeader
  <2>3. confirmed' \in [Devices -> BOOLEAN]
    BY <1>3, <2>2 DEF AdoptAndUnlock, Confirm, TypeOK
  <2>4. local' \in [Devices -> LocalHeader]
    BY <1>3, <2>2 DEF AdoptAndUnlock, TypeOK
  <2>5. floor' \in [Devices -> Nat]
    BY <1>3, <2>2 DEF AdoptAndUnlock, TypeOK, Max
  <2>6. session' \in [Devices -> Tasks \cup {Nobody}]
    BY <1>0, <1>3 DEF AdoptAndUnlock, TypeOK
  <2>7. vault' \in [Devices -> {"locked", "unlocking", "unlocked"}]
    BY <1>0, <1>3 DEF AdoptAndUnlock, TypeOK
  <2> QED
    BY <1>3, <2>1, <2>3, <2>4, <2>5, <2>6, <2>7 DEF AdoptAndUnlock, TypeOK
<1> QED
  BY <1>1, <1>2, <1>3

Syncing(t) == \/ \E goal \in {"sync", "change"} : StartSync(t, goal)
              \/ GetHeader(t) \/ CompareHeader(t) \/ AdoptHeader(t) \/ SyncFails(t)

LEMMA SyncingType ==
    ASSUME TypeOK, NEW t \in Tasks, Syncing(t)
    PROVE  TypeOK'
<1> USE DEF accountVars, deviceVars, My
<1>0. task[t] \in Task /\ DeviceOf[t] \in Devices
  BY DEF TypeOK
<1>1. ASSUME NEW goal \in {"sync", "change"}, StartSync(t, goal)
      PROVE  TypeOK'
  <2>1. task' \in [Tasks -> Task]
    BY <1>1, TaskGoals, BecomesType, StatesType DEF StartSync
  <2> QED
    BY <1>1, <2>1 DEF StartSync, TypeOK
<1>2. CASE GetHeader(t)
  <2>1. [task[t] EXCEPT !.st = "adopt", !.remote = Header] \in Task
    BY Zenon, <1>0, ServerTypes, StatesType DEF Task
  <2>2. task' = [task EXCEPT ![t] = [task[t] EXCEPT !.st = "adopt", !.remote = Header]] \/ Ends(t)
    BY Zenon, <1>2 DEF GetHeader
  <2>3. task' \in [Tasks -> Task]
    BY <2>1, <2>2, GoesTypes, BecomesType, StatesType
  <2> QED
    BY <1>2, <2>3 DEF GetHeader, TypeOK
<1>3. HeaderDone(t) => task' \in [Tasks -> Task]
  BY GoesTypes, TaskGoals, BecomesType, StatesType DEF HeaderDone
<1>4. CASE CompareHeader(t)
  BY <1>3, <1>4, GoesTypes, StatesType DEF CompareHeader, TypeOK
<1>5. CASE AdoptHeader(t)
  <2>1. task' \in [Tasks -> Task]
    BY <1>3, <1>5, GoesTypes, StatesType DEF AdoptHeader
  <2>2. task[t].remote \in LocalHeader /\ task[t].remote.rev \in Nat
    BY <1>0 DEF Task, LocalHeader
  <2>3. local' \in [Devices -> LocalHeader] /\ floor' \in [Devices -> Nat]
    BY <1>5, <2>2 DEF AdoptHeader, TypeOK, Max
  <2> QED
    BY <1>5, <2>1, <2>3 DEF AdoptHeader, TypeOK
<1>6. CASE SyncFails(t)
  BY <1>6, GoesTypes, StatesType DEF SyncFails, TypeOK
<1> QED
  BY <1>1, <1>2, <1>4, <1>5, <1>6 DEF Syncing

\* The request of a task is a change, and so is every answer.
LEMMA ChangeTypes ==
    ASSUME TypeOK, NEW t \in Tasks
    PROVE  /\ \A by \in Tasks \cup {Nobody}, proof \in {0} \cup Creds :
                 Request(t, by, proof) => change' \in [Tasks -> Change]
           /\ \A st \in {"none", "done", "conflict", "unauthorized", "upgrade"} :
                 Answer(st) \in Change
<1>1. /\ task[t].pake \in BOOLEAN /\ task[t].key \in {0} \cup Creds
      /\ task[t].ticket.rev \in Nat /\ task[t].new \in {0} \cup Creds
  BY DEF TypeOK, Task, LocalHeader
<1>2. ASSUME NEW by \in Tasks \cup {Nobody}, NEW proof \in {0} \cup Creds
      PROVE  [st |-> "sent", by |-> by, pake |-> task[t].pake, proof |-> proof,
              key |-> task[t].key, base |-> task[t].ticket.rev, new |-> task[t].new,
              seen |-> NoColumns] \in Change
  BY <1>1, EmptyTypes DEF Change
<1>3. ASSUME NEW st \in {"none", "done", "conflict", "unauthorized", "upgrade"}
      PROVE  Answer(st) \in Change
  BY Zenon, EmptyTypes DEF Answer, Change
<1>4. ASSUME NEW by \in Tasks \cup {Nobody}, NEW proof \in {0} \cup Creds, Request(t, by, proof)
      PROVE  change' \in [Tasks -> Change]
  BY <1>2, <1>4 DEF Request, TypeOK
<1> QED
  BY <1>3, <1>4

\* A change in flight installs a credential: it does not carry none.
LEMMA RekeyType ==
    ASSUME TypeOK, DerivedBefore, NEW t \in Tasks, Rekey(t)
    PROVE  TypeOK'
<1> USE DEF accountVars, deviceVars, My
<1>0. /\ task[t] \in Task /\ DeviceOf[t] \in Devices /\ change[t] \in Change
      /\ session[DeviceOf[t]] \in Tasks \cup {Nobody} /\ confirmed[DeviceOf[t]] \in BOOLEAN
      /\ local[DeviceOf[t]] \in LocalHeader /\ local[DeviceOf[t]].cred \in {0} \cup Creds
  BY DEF TypeOK, LocalHeader
<1>1. CASE BeginRekey(t)
  <2> DEFINE k == [task[t] EXCEPT !.st = "derive", !.ticket = local[DeviceOf[t]],
                                 !.key = local[DeviceOf[t]].cred, !.new = Fresh,
                                 !.pake = confirmed[DeviceOf[t]], !.stale = FALSE]
  <2>1. made < MaxCreds => Fresh \in {0} \cup Creds
    BY DEF TypeOK, Fresh, Creds
  <2>2. made < MaxCreds => k \in Task
    BY Zenon, <1>0, <2>1, StatesType DEF Task
  <2>3. (made < MaxCreds /\ task' = [task EXCEPT ![t] = k]) \/ Ends(t)
    BY Zenon, <1>1 DEF BeginRekey
  <2>4. task' \in [Tasks -> Task]
    BY <2>2, <2>3, GoesTypes, BecomesType, StatesType
  <2>5. made' \in Creds
    BY <1>1 DEF BeginRekey, TypeOK, Creds
  <2> QED
    BY <1>1, <2>4, <2>5 DEF BeginRekey, TypeOK
<1>2. CASE SendChange(t)
  <2> DEFINE k == [task[t] EXCEPT !.st = "reauth", !.by = session[DeviceOf[t]]]
  <2>1. k \in Task
    BY Zenon, <1>0, StatesType DEF Task
  <2>2. task' = [task EXCEPT ![t] = k] \/ Ends(t) \/ Goes(t, "change")
    BY Zenon, <1>2 DEF SendChange
  <2>3. task' \in [Tasks -> Task]
    BY <2>1, <2>2, GoesTypes, BecomesType, StatesType
  <2>4. change' \in [Tasks -> Change]
    BY <1>0, <1>2, ChangeTypes DEF SendChange, TypeOK
  <2> QED
    BY <1>2, <2>3, <2>4 DEF SendChange, TypeOK
<1>3. CASE Reauth(t)
  <2>1. task[t].by \in Tasks \cup {Nobody} /\ account.record \in {0} \cup Creds
    BY <1>0 DEF Task, TypeOK, Account
  <2>2. change' \in [Tasks -> Change]
    BY <2>1, <1>3, ChangeTypes DEF Reauth, TypeOK
  <2> QED
    BY <1>3, <2>2, GoesTypes, StatesType DEF Reauth, Rejected, TypeOK
<1>4. CASE CheckChange(t)
  <2>1. [change[t] EXCEPT !.st = "checked", !.seen = Stored] \in Change
    BY Zenon, <1>0, ServerTypes DEF Change
  <2>2. \/ change' = [change EXCEPT ![t] = [change[t] EXCEPT !.st = "checked", !.seen = Stored]]
        \/ change' = [change EXCEPT ![t] = Answer("unauthorized")]
        \/ change' = [change EXCEPT ![t] = Answer("upgrade")]
    BY Zenon, <1>4 DEF CheckChange
  <2>3. change' \in [Tasks -> Change]
    BY <2>1, <2>2, ChangeTypes DEF TypeOK
  <2> QED
    BY <1>4, <2>3 DEF CheckChange, TypeOK
<1>5. CASE CommitChange(t)
  <2>1. change' \in [Tasks -> Change]
    BY <1>5, ChangeTypes DEF CommitChange, TypeOK
  <2>2. change[t].new \in Creds
    BY <1>5 DEF CommitChange, DerivedBefore, InFlight, TypeOK, Creds
  <2>3. account' \in Account
    BY <1>5, <2>2 DEF CommitChange, InstallCredential, TypeOK, Account
  <2>4. headers' \in Seq(Creds) /\ headers' # <<>>
    <3>1. headers' = headers \/ headers' = Append(headers, change[t].new)
      BY <1>5 DEF CommitChange, InstallCredential
    <3>2. Append(headers, change[t].new) \in Seq(Creds)
      BY <2>2 DEF TypeOK
    <3>3. Len(Append(headers, change[t].new)) = Len(headers) + 1 /\ Len(headers) \in Nat
      BY <2>2 DEF TypeOK
    <3>4. Append(headers, change[t].new) # <<>>
      <4>1. Len(<<>>) = 0
        OBVIOUS
      <4>2. SUFFICES ASSUME Append(headers, change[t].new) = <<>>
                     PROVE  FALSE
        OBVIOUS
      <4>3. Len(headers) + 1 = 0
        BY <3>3, <4>1, <4>2
      <4> QED
        BY <3>3, <4>3
    <3> QED
      BY <3>1, <3>2, <3>4 DEF TypeOK
  <2>5. token' \in [Tasks -> {0} \cup Creds]
    BY <1>5, <2>2 DEF CommitChange, InstallCredential, TypeOK
  <2> QED
    BY <1>5, <2>1, <2>3, <2>4, <2>5 DEF CommitChange, TypeOK
<1>6. CASE HearChange(t)
  <2>1. change' \in [Tasks -> Change]
    BY <1>6, EmptyTypes DEF HearChange, TypeOK
  <2> QED
    BY <1>6, <2>1, GoesTypes, StatesType DEF HearChange, Rejected, TypeOK
<1>7. CASE GiveUp(t)
  BY <1>7, GoesTypes, StatesType DEF GiveUp, TypeOK
<1>8. CASE ForgetChange(t)
  BY <1>8, EmptyTypes DEF ForgetChange, TypeOK
<1>9. CASE AskOutcome(t)
  BY <1>9, GoesTypes, StatesType DEF AskOutcome, TypeOK
<1>10. CASE CommitRekey(t)
  <2>1. task[t].ticket.rev \in Nat /\ task[t].new \in {0} \cup Creds
    BY <1>0 DEF Task, LocalHeader
  <2>2. [rev |-> task[t].ticket.rev + 1, cred |-> task[t].new] \in LocalHeader
    BY <2>1 DEF LocalHeader
  <2>3. local' \in [Devices -> LocalHeader]
    BY <1>10, <2>2 DEF CommitRekey, TypeOK
  <2>4. floor' \in [Devices -> Nat]
    <3>1. Max(floor[DeviceOf[t]], task[t].ticket.rev + 1) \in Nat
      BY <1>0, <2>1 DEF TypeOK, Max
    <3>2. \/ floor' = floor
          \/ floor' = [floor EXCEPT ![DeviceOf[t]] = Max(floor[DeviceOf[t]], task[t].ticket.rev + 1)]
      BY <1>10 DEF CommitRekey
    <3> QED
      BY <1>0, <3>1, <3>2 DEF TypeOK
  <2> QED
    BY <1>10, <2>3, <2>4, GoesTypes, StatesType DEF CommitRekey, TypeOK
<1> QED
  BY <1>1, <1>2, <1>3, <1>4, <1>5, <1>6, <1>7, <1>8, <1>9, <1>10 DEF Rekey

-----------------------------------------------------------------------------
(* The tasks' part of the invariant                                        *)

TaskInv == DerivedBefore /\ RemoteInstalled /\ OneBase /\ OwnAnswer /\ ChecksHold /\ MovedToPake

\* What a step does to a task when it neither derives a credential, nor sends
\* or carries out a change: it may leave the change it is at, take what the
\* server has, and pass the checks of the server as it is.
SteadyTask(t) ==
    /\ task'[t].st \in Rekeying => /\ task[t].st \in Rekeying
                                   /\ task'[t].new = task[t].new
                                   /\ task'[t].ticket = task[t].ticket
    /\ At(t, "change")' => At(t, "change")
    /\ At(t, "commit")' => At(t, "commit") \/ Takes(t)
    /\ task'[t].st \in {"prepared", "adopt", "take"} => Installed(task'[t].remote)
    /\ At(t, "enrolling")' => /\ task'[t].key # 0
                              /\ task'[t].seen.verifier = task'[t].key
                              /\ task'[t].seen.record = 0
    /\ At(t, "finish")' \/ task'[t].ok => account'.record # 0

\* The same of a request: it is checked, answered or forgotten.
SteadyChange(t) ==
    /\ change'[t].st \in InFlight => /\ change[t].st \in InFlight
                                     /\ change'[t].new = change[t].new
                                     /\ change'[t].base = change[t].base
    /\ change'[t].st = "done" => change[t].st = "done"
    /\ change'[t].st = "checked" /\ ~change'[t].pake => change'[t].seen.record = 0

LEMMA SteadyKeeps ==
    ASSUME TypeOK, TypeOK', TaskInv, UNCHANGED <<headers, made>>,
           account.record # 0 => account'.record # 0,
           \A t \in Tasks : task'[t] = task[t] \/ SteadyTask(t),
           \A t \in Tasks : change'[t] = change[t] \/ SteadyChange(t),
           \A d \in Devices : confirmed'[d] => confirmed[d] \/ account'.record # 0
    PROVE  TaskInv'
<1> USE DEF TaskInv, SteadyTask, SteadyChange, At
<1>1. DerivedBefore'
  BY DEF DerivedBefore, InFlight
<1>2. RemoteInstalled'
  BY DEF RemoteInstalled, Installed
<1>3. \A t \in Tasks : task'[t].st \in Rekeying => /\ task[t].st \in Rekeying
                                                    /\ task'[t].new = task[t].new
                                                    /\ task'[t].ticket = task[t].ticket
  OBVIOUS
<1>4. \A t \in Tasks : change'[t].st \in InFlight => /\ change[t].st \in InFlight
                                                      /\ change'[t].new = change[t].new
                                                      /\ change'[t].base = change[t].base
  OBVIOUS
<1>5. OneBase'
  BY <1>3, <1>4 DEF OneBase
<1>6. ASSUME NEW t \in Tasks
      PROVE  /\ At(t, "change")' => At(t, "change")
             /\ At(t, "commit")' => At(t, "commit") \/ Takes(t)
             /\ change'[t].st = "done" => change[t].st = "done"
  OBVIOUS
<1>7. ASSUME NEW t \in Tasks, task'[t].st \in Rekeying, Takes(t)
      PROVE  Takes(t)'
  BY <1>3, <1>7 DEF Takes, Installed
<1>8. "change" \in Rekeying /\ "commit" \in Rekeying
  BY DEF Rekeying
<1>9. OwnAnswer'
  BY <1>3, <1>4, <1>6, <1>7, <1>8 DEF OwnAnswer
<1>10. ChecksHold'
  BY DEF ChecksHold
<1>11. MovedToPake'
  BY DEF MovedToPake
<1> QED
  BY <1>1, <1>2, <1>5, <1>9, <1>10, <1>11

\* The server's header is one it installed.
LEMMA HeaderInstalled == TypeOK => Installed(Header)
BY DEF TypeOK, Installed, Header

\* One task takes a steady step, and nothing else that matters moves.
LEMMA OneSteady ==
    ASSUME TypeOK, TypeOK', TaskInv, NEW t \in Tasks, SteadyTask(t),
           \A u \in Tasks \ {t} : task'[u] = task[u],
           UNCHANGED <<account, headers, change, made>>,
           \A d \in Devices : confirmed'[d] => confirmed[d] \/ account.record # 0
    PROVE  TaskInv'
<1>1. \A u \in Tasks : task'[u] = task[u] \/ SteadyTask(u)
  OBVIOUS
<1>2. \A u \in Tasks : change'[u] = change[u] \/ SteadyChange(u)
  OBVIOUS
<1> QED
  BY <1>1, <1>2, SteadyKeeps

\* A task that ends or only moves to a state nothing is asked of.
Plain == TaskStates \ (Rekeying \cup {"prepared", "adopt", "take", "enrolling", "finish"})

LEMMA PlainIsSteady ==
    ASSUME TypeOK, TaskInv, NEW t \in Tasks, NEW st \in Plain, Goes(t, st) \/ Ends(t),
           UNCHANGED account
    PROVE  SteadyTask(t) /\ \A u \in Tasks \ {t} : task'[u] = task[u]
<1>1. CASE Goes(t, st)
  <2>1. task'[t].st = st /\ task'[t].ok = task[t].ok
    BY <1>1 DEF Goes, TypeOK, Task
  <2> QED
    BY <1>1, <2>1 DEF SteadyTask, Goes, TypeOK, Plain, Rekeying, At, TaskInv, MovedToPake
<1>2. CASE Ends(t)
  BY <1>2 DEF SteadyTask, Ends, TypeOK, NoTask, Rekeying, At
<1> QED
  BY <1>1, <1>2

LEMMA PlainStates ==
    /\ {"idle", "kdf", "params", "connect", "start"} \subseteq Plain
    /\ {"read", "verify", "issue", "enrol", "signed", "header", "rekey"} \subseteq Plain
BY DEF Plain, TaskStates, Rekeying

LEMMA UnlockSteady ==
    ASSUME TypeOK, TypeOK', TaskInv, NEW t \in Tasks,
           \/ \E password \in 1..made : Unlock(t, password)
           \/ DiscardUnlock(t) \/ FinishUnlock(t)
    PROVE  TaskInv'
<1> USE DEF accountVars, deviceVars
<1>1. ASSUME NEW password \in 1..made, Unlock(t, password)
      PROVE  TaskInv'
  <2>1. task'[t].st = "kdf" /\ task'[t].ok = FALSE
    BY <1>1 DEF Unlock, TypeOK, NoTask
  <2>2. SteadyTask(t)
    BY <2>1 DEF SteadyTask, Rekeying, At
  <2> QED
    BY <1>1, <2>2, OneSteady DEF Unlock, TypeOK
<1>2. CASE DiscardUnlock(t)
  BY <1>2, PlainIsSteady, PlainStates, OneSteady DEF DiscardUnlock
<1>3. CASE FinishUnlock(t)
  BY <1>3, PlainIsSteady, PlainStates, OneSteady DEF FinishUnlock
<1> QED
  BY <1>1, <1>2, <1>3

LEMMA LockSteady ==
    ASSUME TypeOK, TypeOK', TaskInv, NEW d \in Locking, Lock(d) \/ Restart(d)
    PROVE  TaskInv'
<1>1. ASSUME NEW t \in Tasks
      PROVE  task'[t] = task[t] \/ SteadyTask(t)
  <2>1. CASE task'[t] = [task[t] EXCEPT !.stale = TRUE]
    <3>1. /\ task'[t].st = task[t].st /\ task'[t].new = task[t].new /\ task'[t].ticket = task[t].ticket
          /\ task'[t].remote = task[t].remote /\ task'[t].key = task[t].key
          /\ task'[t].seen = task[t].seen /\ task'[t].ok = task[t].ok
      BY <2>1 DEF TypeOK, Task
    <3> QED
      BY <3>1 DEF SteadyTask, TaskInv, RemoteInstalled, ChecksHold, MovedToPake, At, Lock, Restart, accountVars
  <2>2. CASE task'[t] = NoTask
    BY <2>2 DEF SteadyTask, NoTask, Rekeying, At
  <2> QED
    BY <2>1, <2>2 DEF Lock, Restart
<1>2. \A t \in Tasks : change'[t] = change[t]
  BY DEF Lock, Restart
<1> QED
  BY <1>1, <1>2, SteadyKeeps DEF Lock, Restart, accountVars

LEMMA SignInSteady ==
    ASSUME TypeOK, TypeOK', TaskInv, CredentialsAgree, NEW t \in Tasks, SignIn(t)
    PROVE  TaskInv'
<1> USE DEF accountVars, deviceVars
<1>0. task[t] \in Task /\ (task[t].ok => account.record # 0)
  BY DEF TypeOK, TaskInv, MovedToPake
<1>1. CASE Connect(t)
  <2>1. CASE Ends(t)
    BY <1>1, <2>1, PlainIsSteady, PlainStates, OneSteady DEF Connect
  <2>2. CASE ~Ends(t)
    <3>1. task'[t].st = "start" /\ task'[t].ok = task[t].ok
      BY <1>0, <1>1, <2>2 DEF Connect, TypeOK, Task
    <3>2. SteadyTask(t)
      BY <1>0, <1>1, <3>1 DEF SteadyTask, Rekeying, At, Connect
    <3> QED
      BY <1>1, <2>2, <3>2, OneSteady DEF Connect, TypeOK
  <2> QED
    BY <2>1, <2>2
<1>2. CASE AskParams(t)
  <2>1. CASE Ends(t)
    BY <1>2, <2>1, PlainIsSteady, PlainStates, OneSteady DEF AskParams
  <2>2. CASE ~Ends(t)
    <3>1. task'[t].st = "start" /\ task'[t].ok = task[t].ok
      BY <1>0, <1>2, <2>2 DEF AskParams, TypeOK, Task
    <3>2. SteadyTask(t)
      BY <1>0, <1>2, <3>1 DEF SteadyTask, Rekeying, At, AskParams
    <3> QED
      BY <1>2, <2>2, <3>2, OneSteady DEF AskParams, TypeOK
  <2> QED
    BY <2>1, <2>2
<1>3. CASE PakeStart(t)
  <2>1. CASE PakeProves(account.record, task[t].key)
    <3>1. task'[t].st = "finish" /\ account.record # 0
      BY <1>0, <1>3, <2>1 DEF PakeStart, Goes, PakeProves, TypeOK, Task
    <3>2. SteadyTask(t)
      BY <1>3, <3>1 DEF SteadyTask, Rekeying, At, PakeStart
    <3> QED
      BY <1>3, <2>1, <3>2, OneSteady DEF PakeStart, Goes, TypeOK
  <2>2. CASE ~PakeProves(account.record, task[t].key)
    BY <1>3, <2>2, PlainIsSteady, PlainStates, OneSteady DEF PakeStart, PakeRejected, Rejected
  <2> QED
    BY <2>1, <2>2
<1>4. CASE PakeFinish(t)
  <2>1. task'[t].st = "issue" /\ account.record # 0
    BY <1>0, <1>4 DEF PakeFinish, TypeOK, Task, TaskInv, MovedToPake, At
  <2>2. SteadyTask(t)
    BY <1>4, <2>1 DEF SteadyTask, Rekeying, At, PakeFinish
  <2> QED
    BY <1>4, <2>2, OneSteady DEF PakeFinish, TypeOK
<1>5. CASE PakeExpired(t)
  BY <1>5, PlainIsSteady, PlainStates, OneSteady DEF PakeExpired, PakeRejected, Rejected
<1>6. CASE LegacyRead(t)
  <2>1. CASE Ends(t)
    BY <1>6, <2>1, PlainIsSteady, PlainStates, OneSteady DEF LegacyRead
  <2>2. CASE ~Ends(t)
    <3>1. task'[t].st = "verify" /\ task'[t].ok = task[t].ok
      BY <1>0, <1>6, <2>2 DEF LegacyRead, Rejected, TypeOK, Task
    <3>2. SteadyTask(t)
      BY <1>0, <1>6, <3>1 DEF SteadyTask, Rekeying, At, LegacyRead
    <3> QED
      BY <1>6, <2>2, <3>2, OneSteady DEF LegacyRead, Rejected, TypeOK
  <2> QED
    BY <2>1, <2>2
<1>7. CASE LegacyVerify(t)
  <2>1. CASE Ends(t)
    BY <1>7, <2>1, PlainIsSteady, PlainStates, OneSteady DEF LegacyVerify
  <2>2. CASE ~Ends(t)
    <3>1. task'[t].st = "issue" /\ task'[t].ok = task[t].ok
      BY <1>0, <1>7, <2>2 DEF LegacyVerify, Rejected, TypeOK, Task
    <3>2. SteadyTask(t)
      BY <1>0, <1>7, <3>1 DEF SteadyTask, Rekeying, At, LegacyVerify
    <3> QED
      BY <1>7, <2>2, <3>2, OneSteady DEF LegacyVerify, Rejected, TypeOK
  <2> QED
    BY <2>1, <2>2
<1>8. CASE IssueToken(t)
  BY <1>8, PlainIsSteady, PlainStates, OneSteady DEF IssueToken
<1>9. CASE EnrolCheck(t)
  <2>1. CASE Goes(t, "signed")
    BY <1>9, <2>1, PlainIsSteady, PlainStates, OneSteady DEF EnrolCheck
  <2>2. CASE ~Goes(t, "signed")
    <3>1. /\ task'[t].st = "enrolling" /\ task'[t].ok = task[t].ok
          /\ task'[t].key = task[t].key /\ task'[t].seen = Stored
      BY <1>0, <1>9, <2>2 DEF EnrolCheck, TypeOK, Task
    <3>2. task[t].key # 0 /\ Stored.verifier = task[t].key /\ Stored.record = 0
      BY <1>9, <2>2 DEF EnrolCheck, LegacyProves, Stored
    <3>3. SteadyTask(t)
      BY <1>0, <1>9, <3>1, <3>2 DEF SteadyTask, Rekeying, At, EnrolCheck
    <3> QED
      BY <1>9, <2>2, <3>3, OneSteady DEF EnrolCheck, TypeOK
  <2> QED
    BY <2>1, <2>2
<1>10. CASE EnrolCommit(t)
  <2>1. account.record # 0 => account'.record # 0
    BY <1>10 DEF EnrolCommit, TypeOK, Account, TaskInv, ChecksHold
  <2>2. task'[t].st = "signed" /\ (task'[t].ok => account'.record # 0)
    <3>1. CASE SameColumns(task[t].seen)
      <4>1. account'.record = task[t].key
        BY <1>10, <3>1 DEF EnrolCommit, TypeOK, Account
      <4>2. task[t].key # 0
        BY <1>10 DEF EnrolCommit, TaskInv, ChecksHold
      <4>3. task'[t].st = "signed"
        <5>1. PICK heard \in BOOLEAN :
                 task' = [task EXCEPT ![t].st = "signed", ![t].ok = heard, ![t].seen = NoColumns]
          BY <1>10, <3>1 DEF EnrolCommit
        <5> QED
          BY <1>0, <5>1 DEF TypeOK, Task
      <4> QED
        BY <4>1, <4>2, <4>3
    <3>2. CASE ~SameColumns(task[t].seen)
      BY <1>0, <1>10, <3>2 DEF EnrolCommit, TypeOK, Task
    <3> QED
      BY <3>1, <3>2
  <2>3. SteadyTask(t)
    BY <1>10, <2>2 DEF SteadyTask, Rekeying, At
  <2>4. \A u \in Tasks : task'[u] = task[u] \/ SteadyTask(u)
    BY <1>10, <2>3 DEF EnrolCommit, TypeOK
  <2> QED
    BY <1>10, <2>1, <2>4, SteadyKeeps DEF EnrolCommit
<1>11. CASE SignInFails(t)
  BY <1>11, PlainIsSteady, PlainStates, OneSteady DEF SignInFails
<1> QED
  BY <1>1, <1>2, <1>3, <1>4, <1>5, <1>6, <1>7, <1>8, <1>9, <1>10, <1>11 DEF SignIn

LEMMA OnlineSteady ==
    ASSUME TypeOK, TypeOK', TaskInv, NEW t \in Tasks,
           GoOnline(t) \/ FetchHeader(t) \/ AdoptAndUnlock(t)
    PROVE  TaskInv'
<1> USE DEF accountVars, deviceVars
<1>0. task[t] \in Task /\ (task[t].ok => account.record # 0) /\ DeviceOf[t] \in Devices
  BY DEF TypeOK, TaskInv, MovedToPake
<1>1. Confirm(t) => \A d \in Devices : confirmed'[d] => confirmed[d] \/ account.record # 0
  BY <1>0 DEF Confirm, TypeOK, My
<1>2. ASSUME task' = [task EXCEPT ![t] = [NoTask EXCEPT !.st = "header", !.goal = "sync"]]
      PROVE  SteadyTask(t) /\ \A u \in Tasks \ {t} : task'[u] = task[u]
  <2>1. task'[t].st = "header" /\ ~task'[t].ok
    BY <1>2 DEF NoTask, TypeOK
  <2> QED
    BY <1>2, <2>1 DEF SteadyTask, Rekeying, At, TypeOK
<1>3. CASE GoOnline(t)
  <2>1. SteadyTask(t) /\ \A u \in Tasks \ {t} : task'[u] = task[u]
    BY <1>2, <1>3, PlainIsSteady, PlainStates DEF GoOnline
  <2>2. \A d \in Devices : confirmed'[d] => confirmed[d] \/ account.record # 0
    BY <1>1, <1>3 DEF GoOnline
  <2> QED
    BY <1>3, <2>1, <2>2, OneSteady DEF GoOnline
<1>4. CASE FetchHeader(t)
  <2>1. CASE Ends(t)
    BY <1>4, <2>1, PlainIsSteady, PlainStates, OneSteady DEF FetchHeader
  <2>2. CASE ~Ends(t)
    <3>1. task'[t].st = "prepared" /\ task'[t].remote = Header /\ task'[t].ok = task[t].ok
      BY <1>0, <1>4, <2>2 DEF FetchHeader, TypeOK, Task
    <3>2. SteadyTask(t)
      BY <1>0, <1>4, <3>1, HeaderInstalled DEF SteadyTask, Rekeying, At, FetchHeader
    <3> QED
      BY <1>4, <2>2, <3>2, OneSteady DEF FetchHeader, TypeOK
  <2> QED
    BY <2>1, <2>2
<1>5. CASE AdoptAndUnlock(t)
  <2>1. SteadyTask(t) /\ \A u \in Tasks \ {t} : task'[u] = task[u]
    BY <1>2, <1>5, PlainIsSteady, PlainStates DEF AdoptAndUnlock
  <2>2. \A d \in Devices : confirmed'[d] => confirmed[d] \/ account.record # 0
    BY <1>1, <1>5 DEF AdoptAndUnlock
  <2> QED
    BY <1>5, <2>1, <2>2, OneSteady DEF AdoptAndUnlock
<1> QED
  BY <1>3, <1>4, <1>5

LEMMA SyncingSteady ==
    ASSUME TypeOK, TypeOK', TaskInv, NEW t \in Tasks, Syncing(t)
    PROVE  TaskInv'
<1> USE DEF accountVars, deviceVars
<1>0. task[t] \in Task /\ (task[t].ok => account.record # 0)
  BY DEF TypeOK, TaskInv, MovedToPake
<1>1. ASSUME NEW goal \in {"sync", "change"}, NEW st \in {"header", "rekey"}, UNCHANGED account,
             task' = [task EXCEPT ![t] = [NoTask EXCEPT !.st = st, !.goal = goal]]
      PROVE  SteadyTask(t) /\ \A u \in Tasks \ {t} : task'[u] = task[u]
  <2>1. task'[t].st = st /\ ~task'[t].ok
    BY <1>1 DEF NoTask, TypeOK
  <2> QED
    BY <1>1, <2>1 DEF SteadyTask, Rekeying, At, TypeOK
<1>2. HeaderDone(t) /\ UNCHANGED account
         => SteadyTask(t) /\ \A u \in Tasks \ {t} : task'[u] = task[u]
  BY <1>1, PlainIsSteady, PlainStates DEF HeaderDone
<1>3. ASSUME NEW goal \in {"sync", "change"}, StartSync(t, goal)
      PROVE  TaskInv'
  BY <1>1, <1>3, OneSteady DEF StartSync
<1>4. CASE GetHeader(t)
  <2>1. CASE Ends(t)
    BY <1>4, <2>1, PlainIsSteady, PlainStates, OneSteady DEF GetHeader
  <2>2. CASE ~Ends(t)
    <3>1. task'[t].st = "adopt" /\ task'[t].remote = Header /\ task'[t].ok = task[t].ok
      BY <1>0, <1>4, <2>2 DEF GetHeader, TypeOK, Task
    <3>2. SteadyTask(t)
      BY <1>0, <1>4, <3>1, HeaderInstalled DEF SteadyTask, Rekeying, At, GetHeader
    <3> QED
      BY <1>4, <2>2, <3>2, OneSteady DEF GetHeader, TypeOK
  <2> QED
    BY <2>1, <2>2
<1>5. CASE CompareHeader(t)
  <2>1. CASE Goes(t, "take")
    <3>1. task'[t].st = "take" /\ task'[t].remote = task[t].remote /\ task'[t].ok = task[t].ok
      BY <1>0, <2>1 DEF Goes, TypeOK, Task
    <3>2. Installed(task[t].remote)
      BY <1>5 DEF CompareHeader, TaskInv, RemoteInstalled, At
    <3>3. SteadyTask(t)
      BY <1>0, <1>5, <3>1, <3>2 DEF SteadyTask, Rekeying, At, CompareHeader
    <3> QED
      BY <1>5, <2>1, <3>3, OneSteady DEF CompareHeader, TypeOK, Goes
  <2>2. CASE ~Goes(t, "take")
    BY <1>2, <1>5, <2>2, PlainIsSteady, PlainStates, OneSteady DEF CompareHeader
  <2> QED
    BY <2>1, <2>2
<1>6. CASE AdoptHeader(t)
  BY <1>2, <1>6, PlainIsSteady, PlainStates, OneSteady DEF AdoptHeader
<1>7. CASE SyncFails(t)
  BY <1>7, PlainIsSteady, PlainStates, OneSteady DEF SyncFails
<1> QED
  BY <1>3, <1>4, <1>5, <1>6, <1>7 DEF Syncing

\* A fresh credential is one no task, no request and no header has.
LEMMA BeginKeeps ==
    ASSUME TypeOK, TypeOK', TaskInv, NEW t \in Tasks, BeginRekey(t)
    PROVE  TaskInv'
<1> USE DEF accountVars, deviceVars
<1>1. CASE Ends(t)
  <2>1. UNCHANGED made
    BY <1>1 DEF BeginRekey, Ends, TypeOK, Task, NoTask
  <2> QED
    BY <1>1, <2>1, PlainIsSteady, PlainStates, OneSteady DEF BeginRekey
<1>2. CASE ~Ends(t)
  <2>1. /\ task'[t].st = "derive" /\ task'[t].new = made + 1 /\ task'[t].ok = task[t].ok
        /\ \A u \in Tasks \ {t} : task'[u] = task[u]
        /\ UNCHANGED <<account, headers, change, confirmed>>
        /\ made' = made + 1
    BY <1>2 DEF BeginRekey, TypeOK, Task, Fresh
  <2>2. made \in Nat /\ headers \in Seq(Nat) /\ Len(headers) \in Nat
    BY DEF TypeOK, Creds
  <2>3. /\ \A i \in 1..Len(headers) : headers[i] <= made /\ headers[i] \in Nat
        /\ \A u \in Tasks : task[u].st \in Rekeying => task[u].new \in 1..made
        /\ \A u \in Tasks : change[u].st \in InFlight => change[u].new \in 1..made
    BY <2>2 DEF TaskInv, DerivedBefore
  <2>4. DerivedBefore'
    BY <2>1, <2>2, <2>3 DEF DerivedBefore
  <2>5. OneBase'
    <3> SUFFICES ASSUME NEW u \in Tasks, (task[u].st \in Rekeying)'
                 PROVE  (/\ \A i \in 1..Len(headers) : headers[i] = task[u].new => i = task[u].ticket.rev + 2
                         /\ \A v \in Tasks : v # u /\ task[v].st \in Rekeying => task[v].new # task[u].new
                         /\ \A v \in Tasks : change[v].st \in InFlight /\ change[v].new = task[u].new
                                                => change[v].base = task[u].ticket.rev)'
      BY DEF OneBase
    <3>1. CASE u = t
      BY <2>1, <2>2, <2>3, <3>1
    <3>2. CASE u # t
      BY <2>1, <2>2, <2>3, <3>2, SMTT(30) DEF TaskInv, OneBase
    <3> QED
      BY <3>1, <3>2
  <2>6. RemoteInstalled' /\ ChecksHold' /\ MovedToPake'
    BY <2>1 DEF TaskInv, RemoteInstalled, ChecksHold, MovedToPake, Installed, At
  <2>7. OwnAnswer'
    BY <2>1 DEF TaskInv, OwnAnswer, Takes, Installed, At
  <2> QED
    BY <2>4, <2>5, <2>6, <2>7 DEF TaskInv
<1> QED
  BY <1>1, <1>2

\* What a request carries is what its task has.
LEMMA RequestKeeps ==
    ASSUME TypeOK, TypeOK', TaskInv, NEW t \in Tasks, NEW by, NEW proof,
           task[t].st \in {"derive", "reauth"}, Goes(t, "change"), Request(t, by, proof),
           UNCHANGED <<account, headers, confirmed, made>>
    PROVE  TaskInv'
<1>1. /\ task'[t].st = "change" /\ task'[t].new = task[t].new /\ task'[t].ticket = task[t].ticket
      /\ task'[t].ok = task[t].ok
      /\ \A u \in Tasks \ {t} : task'[u] = task[u]
  BY DEF Goes, TypeOK, Task
<1>2. /\ change'[t].st = "sent" /\ change'[t].new = task[t].new /\ change'[t].base = task[t].ticket.rev
      /\ \A u \in Tasks \ {t} : change'[u] = change[u]
  BY DEF Request, TypeOK
<1>3. task[t].st \in Rekeying /\ task'[t].st \in Rekeying
  BY <1>1 DEF Rekeying
<1>4. DerivedBefore'
  BY <1>1, <1>2, <1>3 DEF TaskInv, DerivedBefore
<1>5. OneBase'
  <2>1. \A u \in Tasks : task'[u].st \in Rekeying => /\ task[u].st \in Rekeying
                                                      /\ task'[u].new = task[u].new
                                                      /\ task'[u].ticket = task[u].ticket
    BY <1>1, <1>3
  <2>2. ASSUME NEW u \in Tasks, NEW v \in Tasks, (task[u].st \in Rekeying)',
               (change[v].st \in InFlight)', (change[v].new = task[u].new)'
        PROVE  (change[v].base = task[u].ticket.rev)'
    <3>1. CASE v = t
      BY <1>2, <1>3, <2>1, <2>2, <3>1 DEF TaskInv, OneBase
    <3>2. CASE v # t
      BY <1>2, <2>1, <2>2, <3>2 DEF TaskInv, OneBase
    <3> QED
      BY <3>1, <3>2
  <2> QED
    BY <2>1, <2>2 DEF TaskInv, OneBase
<1>6. RemoteInstalled' /\ ChecksHold' /\ MovedToPake'
  BY <1>1, <1>2 DEF TaskInv, RemoteInstalled, ChecksHold, MovedToPake, Installed, At
<1>7. OwnAnswer'
  BY <1>1, <1>2 DEF TaskInv, OwnAnswer, Takes, Installed, At
<1> QED
  BY <1>4, <1>5, <1>6, <1>7 DEF TaskInv

\* The transaction installs a credential on top of the revision it was
\* derived for, so whoever derived it finds it there.
LEMMA CommitKeeps ==
    ASSUME TypeOK, TypeOK', TaskInv, NEW t \in Tasks, CommitChange(t)
    PROVE  TaskInv'
<1> USE DEF accountVars, deviceVars
<1>1. CASE change' = [change EXCEPT ![t] = Answer("conflict")] /\ UNCHANGED <<account, headers>>
  <2>1. change'[t].st = "conflict"
    BY <1>1 DEF TypeOK, Answer, NoChange
  <2>2. \A u \in Tasks : change'[u] = change[u] \/ SteadyChange(u)
    BY <1>1, <2>1 DEF SteadyChange, InFlight, TypeOK
  <2>3. \A u \in Tasks : task'[u] = task[u]
    BY DEF CommitChange
  <2> QED
    BY <1>1, <2>2, <2>3, SteadyKeeps DEF CommitChange
<1>2. CASE ~(change' = [change EXCEPT ![t] = Answer("conflict")] /\ UNCHANGED <<account, headers>>)
  <2> DEFINE c == change[t]
  <2>1. /\ c.st = "checked" /\ SameColumns(c.seen) /\ AtRevision(c.base)
        /\ InstallCredential(c.by, c.new, c.pake)
        /\ change' = [change EXCEPT ![t] = Answer("done")]
        /\ UNCHANGED <<task, confirmed, made>>
    BY <1>2 DEF CommitChange
  <2>2. /\ change'[t].st = "done"
        /\ \A u \in Tasks \ {t} : change'[u] = change[u]
    BY <2>1 DEF TypeOK, Answer, NoChange
  <2>3. Len(headers) = c.base + 2 - 1 /\ Len(headers) \in Nat
    BY <2>1 DEF AtRevision, Header, TypeOK, Change
  <2>4. c.new \in 1..made
    BY <2>1 DEF TaskInv, DerivedBefore, InFlight
  <2>5. /\ Len(headers') = Len(headers) + 1
        /\ headers'[Len(headers) + 1] = c.new
        /\ \A i \in 1..Len(headers) : headers'[i] = headers[i]
    BY <2>1, <2>3 DEF InstallCredential, TypeOK
  <2>6. DerivedBefore'
    <3>1. ASSUME NEW i \in 1..Len(headers')
          PROVE  headers'[i] <= made
      <4>1. i \in 1..Len(headers) \/ i = Len(headers) + 1
        BY <2>3, <2>5
      <4> QED
        BY <2>4, <2>5, <4>1 DEF TaskInv, DerivedBefore
    <3>2. \A u \in Tasks : change'[u].st \in InFlight => change[u].st \in InFlight /\ change'[u].new = change[u].new
      BY <2>2 DEF InFlight
    <3> QED
      BY <2>1, <3>1, <3>2 DEF TaskInv, DerivedBefore
  <2>7. ASSUME NEW h \in LocalHeader, Installed(h)
        PROVE  Installed(h)'
    BY <2>3, <2>5, <2>7 DEF Installed, LocalHeader
  <2>8. RemoteInstalled'
    BY <2>1, <2>7 DEF TaskInv, RemoteInstalled, TypeOK, Task
  <2>9. account'.record # 0 \/ account.record = 0
    <3>1. c.pake => account'.record # 0
      BY <2>1, <2>4 DEF InstallCredential, TypeOK, Creds
    <3>2. ~c.pake => account.record = 0
      BY <2>1 DEF TaskInv, ChecksHold, SameColumns, Stored
    <3> QED
      BY <3>1, <3>2
  <2>10. ChecksHold' /\ MovedToPake'
    BY <2>1, <2>2, <2>9 DEF TaskInv, ChecksHold, MovedToPake, At
  <2>11. OneBase'
    <3> SUFFICES ASSUME NEW u \in Tasks, task[u].st \in Rekeying
                 PROVE  (/\ \A i \in 1..Len(headers) : headers[i] = task[u].new => i = task[u].ticket.rev + 2
                         /\ \A v \in Tasks : change[v].st \in InFlight /\ change[v].new = task[u].new
                                                => change[v].base = task[u].ticket.rev)'
      BY <2>1 DEF TaskInv, OneBase
    <3>1. c.new = task[u].new => c.base = task[u].ticket.rev
      BY <2>1 DEF TaskInv, OneBase, InFlight
    <3>2. (\A i \in 1..Len(headers) : headers[i] = task[u].new => i = task[u].ticket.rev + 2)'
      <4>1. ASSUME NEW i \in 1..Len(headers'), headers'[i] = task[u].new
            PROVE  i = task[u].ticket.rev + 2
        <5>1. i \in 1..Len(headers) \/ i = Len(headers) + 1
          BY <2>3, <2>5
        <5>2. CASE i \in 1..Len(headers)
          BY <2>5, <4>1, <5>2 DEF TaskInv, OneBase
        <5>3. CASE i = Len(headers) + 1
          BY <2>3, <2>5, <3>1, <4>1, <5>3 DEF TypeOK, Change
        <5> QED
          BY <5>1, <5>2, <5>3
      <4> QED
        BY <2>1, <4>1
    <3>3. (\A v \in Tasks : change[v].st \in InFlight /\ change[v].new = task[u].new
                                => change[v].base = task[u].ticket.rev)'
      BY <2>1, <2>2 DEF TaskInv, OneBase, InFlight
    <3> QED
      BY <3>2, <3>3
  <2>12. OwnAnswer'
    <3>1. ASSUME NEW u \in Tasks, Takes(u)
          PROVE  Takes(u)'
      <4>1. [rev |-> task[u].ticket.rev + 1, cred |-> task[u].new] \in LocalHeader
        BY SMTT(30) DEF TypeOK, Task, LocalHeader
      <4> QED
        BY <2>1, <2>7, <3>1, <4>1 DEF Takes
    <3>2. At(t, "change") => Takes(t)'
      BY <2>1, <2>3, <2>5, SMTT(30) DEF TaskInv, OwnAnswer, InFlight, Takes, Installed, TypeOK, Task, LocalHeader
    <3> QED
      BY <2>1, <2>2, <3>1, <3>2 DEF TaskInv, OwnAnswer, InFlight, At
  <2> QED
    BY <2>6, <2>8, <2>10, <2>11, <2>12 DEF TaskInv
<1> QED
  BY <1>1, <1>2

LEMMA RekeyKeeps ==
    ASSUME TypeOK, TypeOK', TaskInv, CredentialsAgree, NEW t \in Tasks, Rekey(t)
    PROVE  TaskInv'
<1> USE DEF accountVars, deviceVars
<1>0. task[t] \in Task /\ (task[t].ok => account.record # 0) /\ Len(headers) \in Nat \ {0}
  BY DEF TypeOK, TaskInv, MovedToPake
\* A task that goes on with its change, on an account that stays.
<1>1. ASSUME NEW st \in {"reauth", "ask", "commit"}, task[t].st \in Rekeying,
             st = "commit" => Takes(t), UNCHANGED account,
             task'[t].st = st, task'[t].new = task[t].new, task'[t].ticket = task[t].ticket,
             task'[t].ok = task[t].ok
      PROVE  SteadyTask(t)
  BY <1>0, <1>1 DEF SteadyTask, At
<1>2. ASSUME NEW st, Goes(t, st)
      PROVE  /\ task'[t].st = st /\ task'[t].new = task[t].new /\ task'[t].ticket = task[t].ticket
             /\ task'[t].ok = task[t].ok /\ \A u \in Tasks \ {t} : task'[u] = task[u]
  BY <1>0, <1>2 DEF Goes, TypeOK, Task
<1>3. ASSUME NEW k \in Change, k.st \in {"none", "unauthorized", "upgrade"}, change' = [change EXCEPT ![t] = k]
      PROVE  \A u \in Tasks : change'[u] = change[u] \/ SteadyChange(u)
  BY <1>3 DEF TypeOK, SteadyChange, InFlight
<1>4. /\ NoChange \in Change /\ NoChange.st \in {"none", "unauthorized", "upgrade"}
      /\ \A st \in {"unauthorized", "upgrade"} :
            Answer(st) \in Change /\ Answer(st).st \in {"none", "unauthorized", "upgrade"}
  <2>1. \A st \in {"unauthorized", "upgrade"} : Answer(st) \in Change
    BY ChangeTypes
  <2>2. NoChange.st = "none" /\ \A st \in {"unauthorized", "upgrade"} : Answer(st).st = st
    BY DEF NoChange, Answer
  <2> QED
    BY <2>1, <2>2, EmptyTypes
<1>5. CASE SendChange(t)
  <2>1. CASE Ends(t)
    <3>1. UNCHANGED change
      BY <1>0, <1>5, <2>1 DEF SendChange, Ends, Goes, TypeOK, Task, NoTask
    <3> QED
      BY <1>5, <2>1, <3>1, PlainIsSteady, PlainStates, OneSteady DEF SendChange
  <2>2. CASE ~Ends(t) /\ task[t].pake
    <3>1. /\ task'[t].st = "reauth" /\ task'[t].new = task[t].new /\ task'[t].ticket = task[t].ticket
          /\ task'[t].ok = task[t].ok /\ \A u \in Tasks \ {t} : task'[u] = task[u]
      BY <1>0, <1>5, <2>2 DEF SendChange, TypeOK, Task
    <3>2. SteadyTask(t)
      BY <1>1, <1>5, <3>1 DEF SendChange, At, Rekeying
    <3> QED
      BY <1>5, <2>2, <3>1, <3>2, OneSteady DEF SendChange
  <2>3. CASE ~Ends(t) /\ ~task[t].pake
    BY <1>5, <2>3, RequestKeeps DEF SendChange, At
  <2> QED
    BY <2>1, <2>2, <2>3
<1>6. CASE Reauth(t)
  <2>1. CASE Goes(t, "change") /\ Request(t, task[t].by, account.record)
    BY <1>6, <2>1, RequestKeeps DEF Reauth, At
  <2>2. CASE Rejected(t) /\ UNCHANGED change
    BY <1>6, <2>2, PlainIsSteady, PlainStates, OneSteady DEF Reauth, Rejected
  <2> QED
    BY <1>6, <2>1, <2>2 DEF Reauth
<1>7. CASE CheckChange(t)
  <2>1. \A u \in Tasks : change'[u] = change[u] \/ SteadyChange(u)
    <3>1. CASE \E st \in {"unauthorized", "upgrade"} : change' = [change EXCEPT ![t] = Answer(st)]
      BY <1>3, <1>4, <3>1
    <3>2. CASE ~\E st \in {"unauthorized", "upgrade"} : change' = [change EXCEPT ![t] = Answer(st)]
      <4>1. /\ change' = [change EXCEPT ![t] = [change[t] EXCEPT !.st = "checked", !.seen = Stored]]
            /\ change[t].st = "sent"
            /\ ~change[t].pake => ~LegacyRefused(Stored) /\ LegacyProves(Stored, change[t].key)
        BY <1>7, <3>2 DEF CheckChange
      <4>2. /\ change'[t].new = change[t].new /\ change'[t].base = change[t].base
            /\ change'[t].pake = change[t].pake /\ change'[t].seen = Stored /\ change'[t].st = "checked"
        BY <4>1 DEF TypeOK, Change
      <4>3. ~change[t].pake => Stored.record = 0
        BY <4>1 DEF LegacyRefused, LegacyProves
      <4> QED
        BY <4>1, <4>2, <4>3 DEF TypeOK, SteadyChange, InFlight
    <3> QED
      BY <3>1, <3>2
  <2>2. \A u \in Tasks : task'[u] = task[u]
    BY <1>7 DEF CheckChange
  <2> QED
    BY <1>7, <2>1, <2>2, SteadyKeeps DEF CheckChange
<1>8. CASE HearChange(t)
  <2>1. \A u \in Tasks : change'[u] = change[u] \/ SteadyChange(u)
    BY <1>3, <1>4, <1>8 DEF HearChange
  <2>2. SteadyTask(t) /\ \A u \in Tasks \ {t} : task'[u] = task[u]
    <3>1. CASE change[t].st = "done"
      <4>1. Takes(t) /\ task[t].st \in Rekeying /\ Goes(t, "commit")
        BY <1>8, <3>1 DEF HearChange, TaskInv, OwnAnswer, At, Rekeying
      <4> QED
        BY <1>1, <1>2, <1>8, <4>1 DEF HearChange
    <3>2. CASE change[t].st # "done"
      BY <1>8, <3>2, PlainIsSteady, PlainStates DEF HearChange, Rejected
    <3> QED
      BY <3>1, <3>2
  <2>3. \A u \in Tasks : task'[u] = task[u] \/ SteadyTask(u)
    BY <2>2
  <2> QED
    BY <1>8, <2>1, <2>3, SteadyKeeps DEF HearChange
<1>9. CASE GiveUp(t)
  <2>1. task[t].st \in Rekeying
    BY <1>9 DEF GiveUp, Rekeying
  <2> QED
    BY <1>1, <1>2, <1>9, <2>1, OneSteady DEF GiveUp
<1>10. CASE ForgetChange(t)
  <2>1. \A u \in Tasks : change'[u] = change[u] \/ SteadyChange(u)
    BY <1>3, <1>4, <1>10 DEF ForgetChange
  <2>2. \A u \in Tasks : task'[u] = task[u]
    BY <1>10 DEF ForgetChange
  <2> QED
    BY <1>10, <2>1, <2>2, SteadyKeeps DEF ForgetChange
<1>11. CASE AskOutcome(t)
  <2>1. task[t].st \in Rekeying /\ task[t].ticket.rev \in Nat
    BY <1>0, <1>11 DEF AskOutcome, At, Rekeying, Task, LocalHeader
  <2>2. CASE Ends(t)
    BY <1>11, <2>2, PlainIsSteady, PlainStates, OneSteady DEF AskOutcome
  <2>3. CASE ~Ends(t)
    <3>1. headers[Len(headers)] = task[t].new
      BY <1>11, <2>3 DEF AskOutcome, CredentialsAgree, Header
    <3>2. Len(headers) = task[t].ticket.rev + 2
      BY <1>0, <2>1, <3>1 DEF TaskInv, OneBase
    <3>3. Takes(t)
      BY <1>0, <2>1, <3>1, <3>2 DEF Takes, Installed
    <3> QED
      BY <1>1, <1>2, <1>11, <2>1, <2>3, <3>3, OneSteady DEF AskOutcome
  <2> QED
    BY <2>2, <2>3
<1>12. CASE CommitRekey(t)
  BY <1>12, PlainIsSteady, PlainStates, OneSteady DEF CommitRekey
<1> QED
  BY <1>5, <1>6, <1>7, <1>8, <1>9, <1>10, <1>11, <1>12, BeginKeeps, CommitKeeps DEF Rekey

-----------------------------------------------------------------------------
(* The account, and what the devices hold of it                            *)

DeviceInv == HeadersAreTheServers /\ LockWins /\ FloorsFit

\* What HeadersAreTheServers and FloorsFit say of one device.
HoldsServers(d) == Installed(local[d]) /\ floor[d] <= local[d].rev

LEMMA DevicesHoldServers == TypeOK => (HeadersAreTheServers /\ FloorsFit <=> \A d \in Devices : HoldsServers(d))
<1> SUFFICES ASSUME TypeOK
             PROVE  HeadersAreTheServers /\ FloorsFit <=> \A d \in Devices : HoldsServers(d)
  OBVIOUS
<1>1. Len(headers) \in Nat \ {0} /\ Header.rev = Len(headers) - 1
  BY DEF TypeOK, Header
<1>2. \A d \in Devices : local[d].rev \in Nat /\ floor[d] \in Nat
  BY DEF TypeOK, LocalHeader
<1> QED
  BY <1>1, <1>2 DEF HeadersAreTheServers, FloorsFit, HoldsServers, Installed

\* The headers only grow: what was installed stays so.
LEMMA InstalledStays ==
    ASSUME TypeOK, NEW h \in LocalHeader, Installed(h), NEW c \in Creds,
           headers' = headers \/ headers' = Append(headers, c)
    PROVE  Installed(h)'
<1>1. h.rev \in Nat /\ Len(headers) \in Nat
  BY DEF TypeOK, LocalHeader
<1>2. CASE headers' = Append(headers, c)
  <2>1. Len(headers') = Len(headers) + 1 /\ headers'[h.rev + 1] = headers[h.rev + 1]
    BY <1>1, <1>2 DEF TypeOK, Installed
  <2> QED
    BY <1>1, <2>1 DEF Installed
<1> QED
  BY <1>2 DEF Installed

\* Who writes what: the account and its headers, the header a device holds,
\* and the state of its vault.
Unwritten == UNCHANGED <<account, headers>>
Unadopted == UNCHANGED <<local, floor>>
Unopened == UNCHANGED vault /\ \A d \in Devices : session'[d] \in {session[d], Nobody}

LEMMA SignInWrites ==
    ASSUME TypeOK, NEW t \in Tasks, SignIn(t)
    PROVE  (Unwritten \/ EnrolCommit(t)) /\ Unadopted /\ Unopened
<1> USE DEF Unwritten, Unadopted, Unopened, accountVars, deviceVars, TypeOK, Rejected, PakeRejected, My
<1>1. CASE Connect(t) \/ AskParams(t) \/ IssueToken(t) \/ EnrolCheck(t)
  BY <1>1 DEF Connect, AskParams, IssueToken, EnrolCheck
<1>2. CASE PakeStart(t) \/ PakeFinish(t) \/ PakeExpired(t)
  BY <1>2 DEF PakeStart, PakeFinish, PakeExpired
<1>3. CASE LegacyRead(t) \/ LegacyVerify(t)
  BY <1>3 DEF LegacyRead, LegacyVerify
<1>4. CASE EnrolCommit(t) \/ SignInFails(t)
  BY <1>4 DEF EnrolCommit, SignInFails
<1> QED
  BY <1>1, <1>2, <1>3, <1>4 DEF SignIn

LEMMA RekeyWrites ==
    ASSUME TypeOK, NEW t \in Tasks, Rekey(t)
    PROVE  /\ Unwritten \/ CommitChange(t)
           /\ Unadopted \/ CommitRekey(t)
           /\ Unopened
<1> USE DEF Unwritten, Unadopted, Unopened, accountVars, deviceVars, TypeOK, Rejected, My
<1>1. CASE BeginRekey(t) \/ SendChange(t) \/ Reauth(t)
  BY <1>1 DEF BeginRekey, SendChange, Reauth
<1>2. CASE CheckChange(t) \/ CommitChange(t)
  BY <1>2 DEF CheckChange, CommitChange
<1>3. CASE HearChange(t) \/ GiveUp(t) \/ ForgetChange(t)
  BY <1>3 DEF HearChange, GiveUp, ForgetChange
<1>4. CASE AskOutcome(t) \/ CommitRekey(t)
  BY <1>4 DEF AskOutcome, CommitRekey
<1> QED
  BY <1>1, <1>2, <1>3, <1>4 DEF Rekey

LEMMA SyncingWrites ==
    ASSUME TypeOK, NEW t \in Tasks, Syncing(t)
    PROVE  Unwritten /\ (Unadopted \/ AdoptHeader(t)) /\ Unopened
BY DEF Unwritten, Unadopted, Unopened, accountVars, deviceVars, TypeOK, My, Syncing,
       StartSync, GetHeader, CompareHeader, AdoptHeader, SyncFails

LEMMA OnlineWrites ==
    ASSUME TypeOK, NEW t \in Tasks, GoOnline(t) \/ FetchHeader(t) \/ AdoptAndUnlock(t)
    PROVE  /\ Unwritten
           /\ Unadopted \/ AdoptAndUnlock(t)
           /\ Unopened \/ GoOnline(t) \/ AdoptAndUnlock(t)
BY DEF Unwritten, Unadopted, Unopened, accountVars, deviceVars, TypeOK,
       GoOnline, FetchHeader, AdoptAndUnlock

Unlocking(t) == \/ \E password \in 1..made : Unlock(t, password)
                \/ DiscardUnlock(t) \/ FinishUnlock(t)

LEMMA UnlockWrites ==
    ASSUME TypeOK, NEW t \in Tasks, Unlocking(t)
    PROVE  Unwritten /\ Unadopted
BY DEF Unwritten, Unadopted, accountVars, deviceVars, Unlocking, Unlock, DiscardUnlock, FinishUnlock

LEMMA OtherWrites ==
    ASSUME TypeOK, ServerSteps \/ (\E d \in Locking : Lock(d) \/ Restart(d)) \/ UNCHANGED vars
    PROVE  /\ Unwritten /\ Unadopted
           /\ Unopened \/ \E d \in Locking : Lock(d) \/ Restart(d)
BY DEF Unwritten, Unadopted, Unopened, accountVars, deviceVars, vars, TypeOK, ServerSteps,
       EndLegacy, SessionEnds, Lock, Restart

\* Every step, in the groups the proofs take.
LEMMA NextGroups ==
    ASSUME [Next]_vars
    PROVE  \/ ServerSteps \/ (\E d \in Locking : Lock(d) \/ Restart(d)) \/ UNCHANGED vars
           \/ \E t \in Tasks : \/ Unlocking(t) \/ SignIn(t)
                               \/ GoOnline(t) \/ FetchHeader(t) \/ AdoptAndUnlock(t)
                               \/ Syncing(t) \/ Rekey(t)
BY DEF Next, Unlocking, Syncing

LEMMA AgreeStep ==
    ASSUME TypeOK, TypeOK', TaskInv, CredentialsAgree, [Next]_vars
    PROVE  CredentialsAgree'
<1> USE DEF Unwritten
<1>1. ASSUME NEW t \in Tasks, EnrolCommit(t)
      PROVE  CredentialsAgree'
  <2>1. CASE SameColumns(task[t].seen)
    <3>1. account' = [account EXCEPT !.record = task[t].key] /\ headers' = headers
      BY <1>1, <2>1 DEF EnrolCommit
    <3>2. task[t].key # 0 /\ task[t].seen.verifier = task[t].key
      BY <1>1 DEF EnrolCommit, TaskInv, ChecksHold
    <3>3. account.verifier = task[t].key
      BY <2>1, <3>2 DEF SameColumns, Stored
    <3>4. account'.record = task[t].key /\ account'.kdf = account.kdf /\ account'.verifier = account.verifier
      BY <3>1 DEF TypeOK, Account
    <3> QED
      BY <3>1, <3>2, <3>3, <3>4 DEF CredentialsAgree, Header
  <2>2. CASE ~SameColumns(task[t].seen)
    BY <1>1, <2>2 DEF EnrolCommit, CredentialsAgree, Header
  <2> QED
    BY <2>1, <2>2
<1>2. ASSUME NEW t \in Tasks, CommitChange(t)
      PROVE  CredentialsAgree'
  <2>1. CASE UNCHANGED <<account, headers>>
    BY <2>1 DEF CredentialsAgree, Header
  <2>2. CASE InstallCredential(change[t].by, change[t].new, change[t].pake)
    <3>1. change[t].new \in Creds /\ change[t].new # 0
      BY <1>2 DEF CommitChange, TaskInv, DerivedBefore, InFlight, TypeOK, Creds
    <3>2. headers'[Len(headers')] = change[t].new
      BY <2>2, <3>1 DEF InstallCredential, TypeOK
    <3>3. /\ account'.kdf = change[t].new
          /\ account'.verifier \in {0, change[t].new} /\ account'.record \in {0, change[t].new}
          /\ account'.verifier # 0 \/ account'.record # 0
      BY <2>2, <3>1 DEF InstallCredential
    <3> QED
      BY <3>2, <3>3 DEF CredentialsAgree, Header
  <2> QED
    BY <1>2, <2>1, <2>2 DEF CommitChange
<1>3. CASE UNCHANGED <<account, headers>>
  BY <1>3 DEF CredentialsAgree, Header
<1>4. Unwritten \/ \E t \in Tasks : EnrolCommit(t) \/ CommitChange(t)
  BY NextGroups, SignInWrites, RekeyWrites, SyncingWrites, OnlineWrites, UnlockWrites, OtherWrites
<1> QED
  BY <1>1, <1>2, <1>3, <1>4

\* A device takes a header it was given by the server, and a newer one.
LEMMA AdoptStep ==
    ASSUME TypeOK, TypeOK', TaskInv, \A d \in Devices : HoldsServers(d), [Next]_vars
    PROVE  /\ \A d \in Devices : HoldsServers(d)'
           /\ \A d \in Devices : local'[d].rev >= local[d].rev /\ floor'[d] >= floor[d]
<1>0. \A d \in Devices : /\ local[d] \in LocalHeader /\ local[d].rev \in Nat /\ floor[d] \in Nat
                         /\ local'[d] \in LocalHeader /\ local'[d].rev \in Nat /\ floor'[d] \in Nat
  BY DEF TypeOK, LocalHeader
\* A newer header that was installed takes the place of one device's.
<1>1. ASSUME NEW e \in Devices, NEW h \in LocalHeader, Installed(h), h.rev > local[e].rev,
             local' = [local EXCEPT ![e] = h], UNCHANGED headers,
             floor' = [floor EXCEPT ![e] = Max(floor[e], h.rev)]
      PROVE  /\ \A d \in Devices : HoldsServers(d)'
             /\ \A d \in Devices : local'[d].rev >= local[d].rev /\ floor'[d] >= floor[d]
  <2>1. h.rev \in Nat
    BY DEF LocalHeader
  <2>2. /\ floor[e] <= local[e].rev
        /\ local'[e] = h
        /\ floor'[e] = Max(floor[e], h.rev)
        /\ \A d \in Devices \ {e} : local'[d] = local[d] /\ floor'[d] = floor[d]
    BY <1>1 DEF HoldsServers, TypeOK
  <2>3. floor'[e] <= h.rev /\ floor'[e] >= floor[e]
    <3>1. floor[e] \in Nat /\ local[e].rev \in Nat
      BY <1>0
    <3>2. CASE floor[e] > h.rev
      BY <1>1, <2>1, <2>2, <3>1, <3>2 DEF Max
    <3>3. CASE ~(floor[e] > h.rev)
      BY <1>1, <2>1, <2>2, <3>1, <3>3 DEF Max
    <3> QED
      BY <3>2, <3>3
  <2>4. HoldsServers(e)'
    BY <1>1, <2>2, <2>3 DEF HoldsServers, Installed
  <2>5. ASSUME NEW d \in Devices \ {e}
        PROVE  HoldsServers(d)'
    BY <1>1, <2>2 DEF HoldsServers, Installed
  <2>6. local'[e].rev >= local[e].rev
    BY <1>0, <1>1, <2>1, <2>2
  <2>7. \A d \in Devices : local'[d].rev >= local[d].rev /\ floor'[d] >= floor[d]
    BY <1>0, <2>2, <2>3, <2>6
  <2> QED
    BY <2>4, <2>5, <2>7
<1>2. ASSUME Unadopted
      PROVE  /\ \A d \in Devices : HoldsServers(d)'
             /\ \A d \in Devices : local'[d].rev >= local[d].rev /\ floor'[d] >= floor[d]
  <2>1. headers' = headers \/ \E c \in Creds : headers' = Append(headers, c)
    <3>1. ASSUME NEW t \in Tasks, CommitChange(t)
          PROVE  headers' = headers \/ \E c \in Creds : headers' = Append(headers, c)
      <4>1. change[t].new \in Creds
        BY <3>1 DEF CommitChange, TaskInv, DerivedBefore, InFlight, TypeOK, Creds
      <4> QED
        BY <3>1, <4>1 DEF CommitChange, InstallCredential
    <3>2. \A t \in Tasks : EnrolCommit(t) => headers' = headers
      BY DEF EnrolCommit
    <3>3. Unwritten \/ \E t \in Tasks : EnrolCommit(t) \/ CommitChange(t)
      BY NextGroups, SignInWrites, RekeyWrites, SyncingWrites, OnlineWrites, UnlockWrites, OtherWrites
    <3> QED
      BY <3>1, <3>2, <3>3 DEF Unwritten
  <2>2. 1 \in Creds
    BY DEF Creds
  <2>3. ASSUME NEW d \in Devices
        PROVE  HoldsServers(d)'
    <3>1. Installed(local[d])'
      <4>1. Installed(local[d])
        BY DEF HoldsServers
      <4>2. PICK h \in LocalHeader : h = local[d]
        BY <1>0
      <4>3. Installed(h)'
        BY <2>1, <2>2, <4>1, <4>2, InstalledStays
      <4> QED
        BY <1>2, <4>2, <4>3 DEF Unadopted
    <3> QED
      BY <1>2, <3>1 DEF HoldsServers, Unadopted
  <2> QED
    BY <1>0, <1>2, <2>3 DEF Unadopted
<1>3. ASSUME NEW t \in Tasks, AdoptAndUnlock(t)
      PROVE  /\ \A d \in Devices : HoldsServers(d)'
             /\ \A d \in Devices : local'[d].rev >= local[d].rev /\ floor'[d] >= floor[d]
  <2>1. CASE Unadopted
    BY <1>2, <2>1
  <2>2. CASE ~Unadopted
    <3>1. My(t) \in Devices /\ task[t].remote \in LocalHeader /\ task[t].remote.rev \in Nat
      BY DEF My, TypeOK, Task, LocalHeader
    <3>2. /\ local' = [local EXCEPT ![My(t)] = task[t].remote] /\ UNCHANGED headers
          /\ floor' = [floor EXCEPT ![My(t)] = Max(floor[My(t)], task[t].remote.rev)]
          /\ NewerThanSeen(My(t), task[t].remote.rev)
      BY <1>3, <2>2 DEF AdoptAndUnlock, deviceVars, accountVars, Unadopted
    <3>3. Installed(task[t].remote)
      BY <1>3 DEF AdoptAndUnlock, TaskInv, RemoteInstalled, At
    <3>4. task[t].remote.rev > local[My(t)].rev
      <4>1. floor[My(t)] \in Nat /\ local[My(t)].rev \in Nat
        BY <1>0, <3>1
      <4> QED
        BY <3>1, <3>2, <4>1 DEF NewerThanSeen, Max
    <3> QED
      BY <1>1, <3>1, <3>2, <3>3, <3>4
  <2> QED
    BY <2>1, <2>2
<1>4. ASSUME NEW t \in Tasks, AdoptHeader(t)
      PROVE  /\ \A d \in Devices : HoldsServers(d)'
             /\ \A d \in Devices : local'[d].rev >= local[d].rev /\ floor'[d] >= floor[d]
  <2>1. CASE Unadopted
    BY <1>2, <2>1
  <2>2. CASE ~Unadopted
    <3>1. My(t) \in Devices /\ task[t].remote \in LocalHeader /\ task[t].remote.rev \in Nat
      BY DEF My, TypeOK, Task, LocalHeader
    <3>2. /\ local' = [local EXCEPT ![My(t)] = task[t].remote] /\ UNCHANGED headers
          /\ floor' = [floor EXCEPT ![My(t)] = Max(floor[My(t)], task[t].remote.rev)]
          /\ NewerThanSeen(My(t), task[t].remote.rev)
      BY <1>4, <2>2 DEF AdoptHeader, accountVars, Unadopted
    <3>3. Installed(task[t].remote)
      BY <1>4 DEF AdoptHeader, TaskInv, RemoteInstalled, At
    <3>4. task[t].remote.rev > local[My(t)].rev
      <4>1. floor[My(t)] \in Nat /\ local[My(t)].rev \in Nat
        BY <1>0, <3>1
      <4> QED
        BY <3>1, <3>2, <4>1 DEF NewerThanSeen, Max
    <3> QED
      BY <1>1, <3>1, <3>2, <3>3, <3>4
  <2> QED
    BY <2>1, <2>2
<1>5. ASSUME NEW t \in Tasks, CommitRekey(t)
      PROVE  /\ \A d \in Devices : HoldsServers(d)'
             /\ \A d \in Devices : local'[d].rev >= local[d].rev /\ floor'[d] >= floor[d]
  <2>1. CASE Unadopted
    BY <1>2, <2>1
  <2>2. CASE ~Unadopted
    <3> DEFINE h == [rev |-> task[t].ticket.rev + 1, cred |-> task[t].new]
    <3>1. My(t) \in Devices /\ task[t].ticket.rev \in Nat /\ task[t].new \in {0} \cup Creds
      BY DEF My, TypeOK, Task, LocalHeader
    <3>2. /\ local' = [local EXCEPT ![My(t)] = h] /\ UNCHANGED headers
          /\ floor' = [floor EXCEPT ![My(t)] = Max(floor[My(t)], task[t].ticket.rev + 1)]
          /\ local[My(t)] = task[t].ticket
      BY <1>5, <2>2 DEF CommitRekey, accountVars, Unadopted
    <3>3. Installed(h)
      BY <1>5 DEF CommitRekey, TaskInv, OwnAnswer, Takes
    <3>4. h \in LocalHeader /\ h.rev = task[t].ticket.rev + 1
      BY <3>1 DEF LocalHeader
    <3>5. h.rev > local[My(t)].rev
      BY <3>1, <3>2, <3>4
    <3> HIDE DEF h
    <3> QED
      BY <1>1, <3>1, <3>2, <3>3, <3>4, <3>5
  <2> QED
    BY <2>1, <2>2
<1>6. Unadopted \/ \E t \in Tasks : AdoptAndUnlock(t) \/ AdoptHeader(t) \/ CommitRekey(t)
  BY NextGroups, SignInWrites, RekeyWrites, SyncingWrites, OnlineWrites, UnlockWrites, OtherWrites
<1> QED
  BY <1>2, <1>3, <1>4, <1>5, <1>6

\* Only a vault that is open, or opens, takes a session.
LEMMA LockWinsStep ==
    ASSUME TypeOK, TypeOK', LockWins, [Next]_vars
    PROVE  LockWins'
<1>1. CASE Unopened
  BY <1>1 DEF LockWins, Unopened
<1>2. ASSUME NEW d \in Locking, Lock(d) \/ Restart(d)
      PROVE  LockWins'
  BY <1>2 DEF LockWins, Lock, Restart, TypeOK
<1>3. ASSUME NEW t \in Tasks, Unlocking(t)
      PROVE  LockWins'
  BY <1>3 DEF LockWins, Unlocking, Unlock, DiscardUnlock, FinishUnlock, deviceVars, TypeOK
<1>4. ASSUME NEW t \in Tasks, GoOnline(t) \/ AdoptAndUnlock(t)
      PROVE  LockWins'
  BY <1>4 DEF LockWins, GoOnline, AdoptAndUnlock, OpenSince, deviceVars, My, TypeOK
<1> QED
  BY <1>1, <1>2, <1>3, <1>4, NextGroups, SignInWrites, RekeyWrites, SyncingWrites,
     OnlineWrites, OtherWrites

-----------------------------------------------------------------------------
(* The theorems                                                            *)

LEMMA InvInit == Init => CredentialInv
<1> SUFFICES ASSUME Init
             PROVE  CredentialInv
  OBVIOUS
<1>1. TypeOK
  BY InitType
<1>2. headers = <<1>> /\ Len(headers) = 1 /\ headers[1] = 1 /\ made = 1
  BY DEF Init, AccountInit
<1>3. CredentialsAgree
  BY <1>2 DEF Init, AccountInit, CredentialsAgree, Header
<1>4. \A t \in Tasks : task[t].st = "idle" /\ ~task[t].ok /\ change[t].st = "none"
  BY DEF Init, NoTask, NoChange
<1>5. DerivedBefore /\ RemoteInstalled /\ OneBase /\ OwnAnswer /\ ChecksHold
  BY <1>2, <1>4 DEF DerivedBefore, RemoteInstalled, OneBase, OwnAnswer, ChecksHold, Rekeying, InFlight, At
<1>6. MovedToPake /\ LockWins
  BY <1>4 DEF MovedToPake, LockWins, At, Init
<1>7. HeadersAreTheServers /\ FloorsFit
  BY <1>2 DEF HeadersAreTheServers, FloorsFit, Header, Init
<1> QED
  BY <1>1, <1>3, <1>5, <1>6, <1>7 DEF CredentialInv

LEMMA TypeStep == TypeOK /\ DerivedBefore /\ [Next]_vars => TypeOK'
<1> SUFFICES ASSUME TypeOK, DerivedBefore, [Next]_vars
             PROVE  TypeOK'
  OBVIOUS
<1>1. CASE ServerSteps \/ UNCHANGED vars
  BY <1>1 DEF ServerSteps, EndLegacy, SessionEnds, vars, accountVars, deviceVars, TypeOK
<1> QED
  BY <1>1, NextGroups, LockType, UnlockType, SignInType, OnlineType, SyncingType, RekeyType DEF Unlocking

LEMMA TaskInvStep ==
    ASSUME TypeOK, TypeOK', TaskInv, CredentialsAgree, [Next]_vars
    PROVE  TaskInv'
<1>1. CASE ServerSteps \/ UNCHANGED vars
  <2>1. UNCHANGED <<account, headers, task, change, confirmed, made>>
    BY <1>1 DEF ServerSteps, EndLegacy, SessionEnds, vars, accountVars, deviceVars
  <2> QED
    BY <2>1, SteadyKeeps
<1> QED
  BY <1>1, NextGroups, LockSteady, UnlockSteady, SignInSteady, OnlineSteady, SyncingSteady,
     RekeyKeeps DEF Unlocking

LEMMA InvStep == CredentialInv /\ [Next]_vars => CredentialInv'
<1> SUFFICES ASSUME CredentialInv, [Next]_vars
             PROVE  CredentialInv'
  OBVIOUS
<1>1. TypeOK /\ TaskInv /\ CredentialsAgree /\ LockWins /\ \A d \in Devices : HoldsServers(d)
  BY DevicesHoldServers DEF CredentialInv, TaskInv
<1>2. TypeOK'
  BY <1>1, TypeStep DEF TaskInv
<1>3. TaskInv' /\ CredentialsAgree' /\ LockWins'
  BY <1>1, <1>2, TaskInvStep, AgreeStep, LockWinsStep
<1>4. \A d \in Devices : HoldsServers(d)'
  BY <1>1, <1>2, AdoptStep
<1>5. (TypeOK => (HeadersAreTheServers /\ FloorsFit <=> \A d \in Devices : HoldsServers(d)))'
  BY DevicesHoldServers, PTL
<1> QED
  BY <1>2, <1>3, <1>4, <1>5 DEF CredentialInv, TaskInv

LEMMA CredentialInvariance == Spec => []CredentialInv
<1>1. Init => CredentialInv
  BY InvInit
<1>2. CredentialInv /\ [Next]_vars => CredentialInv'
  BY InvStep
<1> QED
  BY <1>1, <1>2, PTL DEF Spec

\* Every variable has its type, whatever requests, answers and locks cross.
THEOREM CredentialTypeCorrect == Spec => []TypeOK
<1>1. CredentialInv => TypeOK
  BY DEF CredentialInv
<1> QED
  BY <1>1, CredentialInvariance, PTL

\* The KDF parameters, the header and the keys that sign in always belong to
\* one password (change_credentials and pake_enroll move them together).
THEOREM CredentialsAgreeHolds == Spec => []CredentialsAgree
<1>1. CredentialInv => CredentialsAgree
  BY DEF CredentialInv
<1> QED
  BY <1>1, CredentialInvariance, PTL

\* A device only holds headers the server installed, at their revisions
\* (commit_rekey after change_outcome, adopt_account_header, adopt_and_unlock).
THEOREM HeadersAreTheServersHolds == Spec => []HeadersAreTheServers
<1>1. CredentialInv => HeadersAreTheServers
  BY DEF CredentialInv
<1> QED
  BY <1>1, CredentialInvariance, PTL

\* A vault that is not open holds no session: a lock wins over every sign-in
\* and every unlock in flight (connect, go_online_after_sign_in).
THEOREM LockWinsHolds == Spec => []LockWins
<1>1. CredentialInv => LockWins
  BY DEF CredentialInv
<1> QED
  BY <1>1, CredentialInvariance, PTL

\* The account's present password opens every device: its local header takes
\* it, or the server's is new enough to be adopted, and a device that insists
\* on OPAQUE finds a record (unlock_from_server, sign_in_with_key).
THEOREM NeverLockedOutHolds == Spec => []NeverLockedOut
<1>1. CredentialInv => NeverLockedOut
  <2> SUFFICES ASSUME CredentialInv, NEW d \in Devices
               PROVE  /\ local[d].cred = account.kdf \/ Header.rev > Max(floor[d], local[d].rev)
                      /\ confirmed[d] => account.record = account.kdf
    BY DEF NeverLockedOut
  <2>1. /\ local[d].rev \in Nat /\ floor[d] \in Nat /\ Len(headers) \in Nat \ {0}
        /\ Header.rev = Len(headers) - 1 /\ Header.cred = headers[Len(headers)]
    BY DEF CredentialInv, TypeOK, LocalHeader, Header
  <2>2. /\ local[d].rev <= Header.rev /\ local[d].cred = headers[local[d].rev + 1]
        /\ floor[d] <= local[d].rev /\ account.kdf = Header.cred
    BY DEF CredentialInv, HeadersAreTheServers, FloorsFit, CredentialsAgree
  <2>3. ASSUME local[d].rev = Header.rev
        PROVE  local[d].cred = account.kdf
    <3>1. local[d].rev + 1 = Len(headers)
      BY <2>1, <2>3
    <3> QED
      BY <2>1, <2>2, <3>1
  <2>4. ASSUME local[d].rev < Header.rev
        PROVE  Header.rev > Max(floor[d], local[d].rev)
    <3>1. Max(floor[d], local[d].rev) = local[d].rev
      BY <2>1, <2>2 DEF Max
    <3> QED
      BY <2>4, <3>1
  <2>5. confirmed[d] => account.record = account.kdf
    BY DEF CredentialInv, MovedToPake, CredentialsAgree
  <2> QED
    BY <2>1, <2>2, <2>3, <2>4, <2>5
<1> QED
  BY <1>1, CredentialInvariance, PTL

\* No step takes back the header in use, the rollback floor or OPAQUE
\* (adopt_account_header, raise_max_header_rev, check_proof).
THEOREM NoRollbackHolds == Spec => NoRollback
<1> DEFINE Forward == /\ \A d \in Devices : local'[d].rev >= local[d].rev /\ floor'[d] >= floor[d]
                      /\ account.record # 0 => account'.record # 0
<1>1. CredentialInv /\ CredentialInv' /\ [Next]_vars => [Forward]_vars
  <2> SUFFICES ASSUME CredentialInv, CredentialInv', [Next]_vars
               PROVE  Forward
    OBVIOUS
  <2>1. TypeOK /\ TypeOK' /\ TaskInv /\ \A d \in Devices : HoldsServers(d)
    BY DevicesHoldServers DEF CredentialInv, TaskInv
  <2>2. \A d \in Devices : local'[d].rev >= local[d].rev /\ floor'[d] >= floor[d]
    BY <2>1, AdoptStep
  <2>3. account.record # 0 => account'.record # 0
    <3>1. ASSUME NEW t \in Tasks, EnrolCommit(t), account.record # 0
          PROVE  account'.record # 0
      BY <2>1, <3>1 DEF EnrolCommit, TaskInv, ChecksHold, TypeOK, Account
    <3>2. ASSUME NEW t \in Tasks, CommitChange(t), account.record # 0
          PROVE  account'.record # 0
      <4>1. change[t].new # 0
        BY <2>1, <3>2 DEF CommitChange, TaskInv, DerivedBefore, InFlight, TypeOK, Creds
      <4>2. SameColumns(change[t].seen) => change[t].pake
        BY <2>1, <3>2 DEF CommitChange, TaskInv, ChecksHold, SameColumns, Stored
      <4> QED
        BY <3>2, <4>1, <4>2 DEF CommitChange, InstallCredential
    <3>3. Unwritten \/ \E t \in Tasks : EnrolCommit(t) \/ CommitChange(t)
      BY <2>1, NextGroups, SignInWrites, RekeyWrites, SyncingWrites, OnlineWrites, UnlockWrites, OtherWrites
    <3> QED
      BY <3>1, <3>2, <3>3 DEF Unwritten
  <2> QED
    BY <2>2, <2>3
<1>2. Spec => [][CredentialInv /\ CredentialInv' /\ [Next]_vars]_vars
  BY CredentialInvariance, PTL DEF Spec
<1> QED
  BY <1>1, <1>2, PTL DEF NoRollback
=============================================================================
