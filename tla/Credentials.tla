---------------------------- MODULE Credentials ----------------------------
(***************************************************************************)
(* Devices that unlock, sign in, change the master password and follow     *)
(* changes made on other devices (havenkeys-client account.rs, sync.rs,    *)
(* pake.rs; havenkeys-core vault.rs, sync.rs), with the server of          *)
(* AccountServer.                                                          *)
(*                                                                         *)
(* A task takes the vault mutex for each local operation and never holds   *)
(* it across a request or an Argon2id run, so tasks of one device          *)
(* interleave between any two steps below.  The server's handlers are cut  *)
(* where they give up their database connection or run Argon2id, and       *)
(* between the two requests of an OPAQUE exchange.  Answers get lost, the  *)
(* vault locks and the app restarts at any point.                          *)
(***************************************************************************)
EXTENDS AccountServer

CONSTANTS Nobody,       \* the task of a device that holds no session
          Locking       \* bound: the devices whose vault locks or whose app restarts

ASSUME CredentialsAssumption == /\ Nobody \notin Tasks
                                /\ Locking \subseteq Devices

VARIABLES vault,        \* VaultState, per device
          local,        \* the key header in a device's store
          floor,        \* max_header_rev: the highest revision it has seen
          confirmed,    \* pake_confirmed: has OPAQUE worked here?
          session,      \* the task whose session the device holds
          task,         \* the local variables of the tasks
          change,       \* per task: its POST /account/credentials, on the server
          made          \* how many credentials were derived so far

deviceVars == <<vault, local, floor, confirmed, session>>
vars == <<accountVars, deviceVars, task, change, made>>

Columns == [verifier : {0} \cup Creds, record : {0} \cup Creds]
NoColumns == [verifier |-> 0, record |-> 0]

LocalHeader == [rev : Nat, cred : {0} \cup Creds]
NoHeader == [rev |-> 0, cred |-> 0]

\* Where a task is.  Unlocking: kdf.  The fallback of a failed unlock: params,
\* then a sign-in, prepared.  Connecting: connect, then a sign-in.  A
\* sign-in: start and finish of the OPAQUE exchange; read and verify of a
\* legacy login; issue; enrol and enrolling; signed.  A sync: header, adopt, take.
\* A password change: a sync, then rekey, derive, reauth, change, ask, commit.
TaskStates == {"idle", "kdf", "params", "prepared", "connect",
               "start", "finish", "read", "verify", "issue", "enrol", "enrolling", "signed",
               "header", "adopt", "take", "rekey", "derive", "reauth", "change", "ask", "commit"}

\* The states of a task that holds an epoch it will compare.
Holding == TaskStates \ {"idle", "connect", "header", "adopt", "take", "rekey"}

Task == [st : TaskStates,
         goal : {"none", "connect", "fallback", "sync", "change"},
         key : {0} \cup Creds,      \* the password typed, or the key derived from it
         seen : Columns,            \* what a handler read before its Argon2id run
         ticket : LocalHeader,      \* the header an unlock or a rekey started from
         remote : LocalHeader,      \* the header the server answered with
         new : {0} \cup Creds,      \* the credential a change is to install
         by : Tasks \cup {Nobody},   \* the session a change goes out with
         pake : BOOLEAN,            \* the device was confirmed when this began
         ok : BOOLEAN,              \* OPAQUE now works for this account
         stale : BOOLEAN]           \* the vault locked since the epoch was read

NoTask == [st |-> "idle", goal |-> "none", key |-> 0, seen |-> NoColumns,
           ticket |-> NoHeader, remote |-> NoHeader, new |-> 0, by |-> Nobody,
           pake |-> FALSE, ok |-> FALSE, stale |-> FALSE]

\* A credential change on the server: sent; checked, its proof accepted; and
\* then its answer.
Change == [st : {"none", "sent", "checked", "done", "conflict", "unauthorized", "upgrade"},
           by : Tasks \cup {Nobody}, \* the session it came with
           pake : BOOLEAN,
           proof : {0} \cup Creds,   \* the record its reauth exchange started from
           key : {0} \cup Creds,
           base : Nat,
           new : {0} \cup Creds,
           seen : Columns]

NoChange == [st |-> "none", by |-> Nobody, pake |-> FALSE, proof |-> 0, key |-> 0,
             base |-> 0, new |-> 0, seen |-> NoColumns]

Answer(st) == [NoChange EXCEPT !.st = st]

Init == /\ AccountInit
        /\ vault = [d \in Devices |-> "locked"]
        /\ local = [d \in Devices |-> [rev |-> 0, cred |-> 1]]
        /\ floor = [d \in Devices |-> 0]
        /\ confirmed = [d \in Devices |-> FALSE]
        /\ session = [d \in Devices |-> Nobody]
        /\ task = [t \in Tasks |-> NoTask]
        /\ change = [t \in Tasks |-> NoChange]
        /\ made = 1

At(t, st) == task[t].st = st
My(t) == DeviceOf[t]

Goes(t, st) == task' = [task EXCEPT ![t].st = st]
Ends(t) == task' = [task EXCEPT ![t] = NoTask]

Max(a, b) == IF a > b THEN a ELSE b

\* Mutant of OpenSince: no comparison of epochs.
OpenWhenever(t) == TRUE

\* Is the vault in the same unlock as when t read the epoch?
OpenSince(t) == vault[My(t)] = "unlocked" /\ ~task[t].stale

\* Is a header newer than everything this device has seen?
NewerThanSeen(d, rev) == rev > Max(floor[d], local[d].rev)

\* Mutant of Confirm: after any sign-in.
ConfirmAny(t) == confirmed' = [confirmed EXCEPT ![My(t)] = TRUE]

\* set_pake_confirmed, once a sign-in has shown that OPAQUE works.
Confirm(t) == confirmed' = [confirmed EXCEPT ![My(t)] = @ \/ task[t].ok]

\* Mutant of Fresh: no parameters at all.
Unset == 0

\* KdfParams::generate: parameters nobody has used.
Fresh == made + 1

-----------------------------------------------------------------------------
(* Unlocking with the local header                                         *)

\* begin_unlock, with any password the account ever had.
Unlock(t, password) ==
    /\ At(t, "idle")
    /\ vault[My(t)] = "locked"
    /\ vault' = [vault EXCEPT ![My(t)] = "unlocking"]
    /\ task' = [task EXCEPT ![t] = [NoTask EXCEPT !.st = "kdf", !.key = password,
                                                  !.ticket = local[My(t)]]]
    /\ UNCHANGED <<accountVars, local, floor, confirmed, session, change, made>>

\* finish_unlock after a lock: the result is discarded.
DiscardUnlock(t) ==
    /\ At(t, "kdf")
    /\ vault[My(t)] # "unlocking" \/ task[t].stale
    /\ Ends(t)
    /\ UNCHANGED <<accountVars, deviceVars, change, made>>

\* finish_unlock: the vault opens, or it is locked again and the server asked.
FinishUnlock(t) ==
    /\ At(t, "kdf")
    /\ vault[My(t)] = "unlocking"
    /\ ~task[t].stale
    /\ LET opens == task[t].key = local[My(t)].cred /\ local[My(t)] = task[t].ticket
       IN  /\ vault' = [vault EXCEPT ![My(t)] = IF opens THEN "unlocked" ELSE "locked"]
           /\ Goes(t, IF opens THEN "connect" ELSE "params")
    /\ UNCHANGED <<accountVars, local, floor, confirmed, session, change, made>>

\* HavenClient::lock: from the user, the auto-lock, the screen lock, and on a
\* locked vault too, where it still moves the epoch on.
Lock(d) ==
    /\ vault' = [vault EXCEPT ![d] = "locked"]
    /\ session' = [session EXCEPT ![d] = Nobody]
    /\ task' = [t \in Tasks |-> IF DeviceOf[t] = d /\ task[t].st \in Holding
                                THEN [task[t] EXCEPT !.stale = TRUE] ELSE task[t]]
    /\ UNCHANGED <<accountVars, local, floor, confirmed, change, made>>

\* The process ends and starts again: only the store is left.
Restart(d) ==
    /\ vault[d] # "locked" \/ \E t \in Tasks : DeviceOf[t] = d /\ ~At(t, "idle")
    /\ vault' = [vault EXCEPT ![d] = "locked"]
    /\ session' = [session EXCEPT ![d] = Nobody]
    /\ task' = [t \in Tasks |-> IF DeviceOf[t] = d THEN NoTask ELSE task[t]]
    /\ UNCHANGED <<accountVars, local, floor, confirmed, change, made>>

-----------------------------------------------------------------------------
(* Signing in: sign_in_with_key, on the way to connect or in the fallback  *)

\* connect reads the epoch and pake_confirmed, and stops on a locked vault.
Connect(t) ==
    /\ At(t, "connect")
    /\ IF vault[My(t)] = "unlocked"
       THEN task' = [task EXCEPT ![t].st = "start", ![t].goal = "connect",
                                 ![t].pake = confirmed[My(t)], ![t].stale = FALSE]
       ELSE Ends(t)
    /\ UNCHANGED <<accountVars, deviceVars, change, made>>

\* unlock_from_server: the KDF parameters the server serves; the same as the
\* local ones mean a wrong password.  Only the password of those parameters
\* gives a key that proves anything.
AskParams(t) ==
    /\ At(t, "params")
    /\ IF account.kdf = local[My(t)].cred
       THEN Ends(t)
       ELSE task' = [task EXCEPT ![t].st = "start", ![t].goal = "fallback",
                                 ![t].key = IF account.kdf = @ THEN @ ELSE 0,
                                 ![t].pake = confirmed[My(t)]]
    /\ UNCHANGED <<accountVars, deviceVars, change, made>>

\* A sign-in the server refused.  connect drops whatever session is held.
Rejected(t) ==
    /\ Ends(t)
    /\ session' = IF task[t].goal = "fallback" THEN session
                  ELSE [session EXCEPT ![My(t)] = Nobody]

\* OPAQUE did not work: a confirmed device stops, another tries the legacy login.
PakeRejected(t) == IF task[t].pake THEN Rejected(t)
                   ELSE Goes(t, "read") /\ UNCHANGED session

\* pake_start, and the device's check of its answer.
PakeStart(t) ==
    /\ At(t, "start")
    /\ IF PakeProves(account.record, task[t].key)
       THEN Goes(t, "finish") /\ UNCHANGED session
       ELSE PakeRejected(t)
    /\ UNCHANGED <<accountVars, vault, local, floor, confirmed, change, made>>

\* pake_finish: the pending row still proves what the record was at the start.
PakeFinish(t) ==
    /\ At(t, "finish")
    /\ DropSessions(My(t))
    /\ task' = [task EXCEPT ![t].st = "issue", ![t].ok = TRUE]
    /\ UNCHANGED <<account, headers, legacy, deviceVars, change, made>>

\* pake_finish after the pending row expired.
PakeExpired(t) ==
    /\ At(t, "finish")
    /\ PakeRejected(t)
    /\ UNCHANGED <<accountVars, vault, local, floor, confirmed, change, made>>

\* login: reads the verifier, and gives the connection back for the Argon2id run.
LegacyRead(t) ==
    /\ At(t, "read")
    /\ IF legacy
       THEN task' = [task EXCEPT ![t].st = "verify", ![t].seen = Stored] /\ UNCHANGED session
       ELSE Rejected(t)
    /\ UNCHANGED <<accountVars, vault, local, floor, confirmed, change, made>>

LegacyVerify(t) ==
    /\ At(t, "verify")
    /\ IF LegacyProves(task[t].seen, task[t].key)
       THEN /\ task' = [task EXCEPT ![t].st = "issue", ![t].seen = NoColumns]
            /\ DropSessions(My(t))
            /\ UNCHANGED session
       ELSE Rejected(t) /\ UNCHANGED token
    /\ UNCHANGED <<account, headers, legacy, vault, local, floor, confirmed, change, made>>

\* issue_token.  A legacy sign-in enrols the account next.
IssueToken(t) ==
    /\ At(t, "issue")
    /\ token' = [token EXCEPT ![t] = task[t].key]
    /\ Goes(t, IF task[t].ok THEN "signed" ELSE "enrol")
    /\ UNCHANGED <<account, headers, legacy, deviceVars, change, made>>

\* pake_enroll: session, no record yet, and the legacy key once more.
EnrolCheck(t) ==
    /\ At(t, "enrol")
    /\ IF /\ token[t] # 0
          /\ account.record = 0
          /\ ~LegacyRefused(Stored)
          /\ LegacyProves(Stored, task[t].key)
       THEN task' = [task EXCEPT ![t].st = "enrolling", ![t].seen = Stored]
       ELSE Goes(t, "signed")
    /\ UNCHANGED <<accountVars, deviceVars, change, made>>

\* The comparison under the row lock, and the write.
EnrolCommit(t) ==
    /\ At(t, "enrolling")
    /\ IF SameColumns(task[t].seen)
       THEN /\ account' = [account EXCEPT !.record = task[t].key]
            /\ \E heard \in BOOLEAN :
                 task' = [task EXCEPT ![t].st = "signed", ![t].ok = heard,
                                      ![t].seen = NoColumns]
       ELSE /\ task' = [task EXCEPT ![t].st = "signed", ![t].seen = NoColumns]
            /\ UNCHANGED account
    /\ UNCHANGED <<headers, token, legacy, deviceVars, change, made>>

\* No answer: connect and the fallback end, an enrolment is let go.
SignInFails(t) ==
    /\ \/ /\ \/ task[t].st \in {"params", "start", "finish", "read", "verify", "issue"}
             \/ At(t, "signed") /\ task[t].goal = "fallback"
          /\ Ends(t)
       \/ /\ task[t].st \in {"enrol", "enrolling"}
          /\ Goes(t, "signed")
    /\ UNCHANGED <<accountVars, deviceVars, change, made>>

\* connect: a lock while signing in wins.
GoOnline(t) ==
    /\ At(t, "signed")
    /\ task[t].goal = "connect"
    /\ IF OpenSince(t)
       THEN /\ session' = [session EXCEPT ![My(t)] = t]
            /\ Confirm(t)
            /\ task' = [task EXCEPT ![t] = [NoTask EXCEPT !.st = "header", !.goal = "sync"]]
       ELSE Ends(t) /\ UNCHANGED <<session, confirmed>>
    /\ UNCHANGED <<accountVars, vault, local, floor, change, made>>

\* unlock_from_server: the header, which must open with the password typed.
FetchHeader(t) ==
    /\ At(t, "signed")
    /\ task[t].goal = "fallback"
    /\ IF token[t] # 0 /\ Header.cred = task[t].key
       THEN task' = [task EXCEPT ![t].st = "prepared", ![t].remote = Header]
       ELSE Ends(t)
    /\ UNCHANGED <<accountVars, deviceVars, change, made>>

\* adopt_and_unlock: still locked, no lock since, and newer than all seen.
AdoptAndUnlock(t) ==
    LET d == My(t)
    IN  /\ At(t, "prepared")
        /\ IF /\ vault[d] = "locked"
              /\ ~task[t].stale
              /\ NewerThanSeen(d, task[t].remote.rev)
           THEN /\ local' = [local EXCEPT ![d] = task[t].remote]
                /\ floor' = [floor EXCEPT ![d] = Max(@, task[t].remote.rev)]
                /\ vault' = [vault EXCEPT ![d] = "unlocked"]
                /\ Confirm(t)
                /\ session' = [session EXCEPT ![d] = t]
                /\ task' = [task EXCEPT ![t] = [NoTask EXCEPT !.st = "header", !.goal = "sync"]]
           ELSE Ends(t) /\ UNCHANGED deviceVars
        /\ UNCHANGED <<accountVars, change, made>>

-----------------------------------------------------------------------------
(* Following a change made elsewhere: the header part of sync_now          *)

\* The periodic pull, the user's Sync, or the start of a password change.
StartSync(t, goal) ==
    /\ At(t, "idle")
    /\ session[My(t)] # Nobody
    /\ goal \in {"sync", "change"}
    /\ goal = "change" => made < MaxCreds /\ change[t].st = "none"
    /\ task' = [task EXCEPT ![t] = [NoTask EXCEPT !.st = "header", !.goal = goal]]
    /\ UNCHANGED <<accountVars, deviceVars, change, made>>

\* GET /vault/header with the session held; a dead one is dropped.
GetHeader(t) ==
    /\ At(t, "header")
    /\ LET s == session[My(t)]
       IN  IF s # Nobody /\ token[s] # 0
           THEN /\ task' = [task EXCEPT ![t].st = "adopt", ![t].remote = Header]
                /\ UNCHANGED session
           ELSE /\ Ends(t)
                /\ session' = [session EXCEPT ![My(t)] = Nobody]
    /\ UNCHANGED <<accountVars, vault, local, floor, confirmed, change, made>>

\* After the header: a password change goes on.
HeaderDone(t) ==
    IF task[t].goal = "change"
    THEN task' = [task EXCEPT ![t] = [NoTask EXCEPT !.st = "rekey", !.goal = "change"]]
    ELSE Ends(t)

\* The comparison with the local header: a newer one is to be adopted, an
\* older one is an error.
CompareHeader(t) ==
    LET mine == local[My(t)].rev
        theirs == task[t].remote.rev
    IN  /\ At(t, "adopt")
        /\ IF theirs > mine THEN Goes(t, "take")
           ELSE IF theirs < mine THEN Ends(t)
           ELSE HeaderDone(t)
        /\ UNCHANGED <<accountVars, deviceVars, change, made>>

\* adopt_account_header, under the mutex again: the unlocked vault checks the
\* attestation, and the revision must still be newer than all seen.
AdoptHeader(t) ==
    LET d == My(t)
        rev == task[t].remote.rev
    IN  /\ At(t, "take")
        /\ IF vault[d] = "unlocked" THEN HeaderDone(t) ELSE Ends(t)
        /\ IF vault[d] = "unlocked" /\ NewerThanSeen(d, rev)
           THEN /\ local' = [local EXCEPT ![d] = task[t].remote]
                /\ floor' = [floor EXCEPT ![d] = Max(@, rev)]
           ELSE UNCHANGED <<local, floor>>
        /\ UNCHANGED <<accountVars, vault, confirmed, session, change, made>>

SyncFails(t) ==
    /\ At(t, "header")
    /\ Ends(t)
    /\ UNCHANGED <<accountVars, deviceVars, change, made>>

-----------------------------------------------------------------------------
(* Changing the master password                                            *)

\* begin_rekey: the ticket, a fresh credential, and which proof to give.
BeginRekey(t) ==
    /\ At(t, "rekey")
    /\ IF vault[My(t)] = "unlocked" /\ made < MaxCreds
       THEN /\ made' = made + 1
            /\ task' = [task EXCEPT ![t].st = "derive", ![t].ticket = local[My(t)],
                                    ![t].key = local[My(t)].cred, ![t].new = Fresh,
                                    ![t].pake = confirmed[My(t)], ![t].stale = FALSE]
       ELSE Ends(t) /\ UNCHANGED made
    /\ UNCHANGED <<accountVars, deviceVars, change>>

\* The request: the session, the ticket and the proof t could give.
Request(t, by, proof) ==
    change' = [change EXCEPT ![t] =
        [st |-> "sent", by |-> by, pake |-> task[t].pake, proof |-> proof,
         key |-> task[t].key, base |-> task[t].ticket.rev, new |-> task[t].new,
         seen |-> NoColumns]]

\* encode_rekeyed_header needs the same unlock; then the request is sent, or
\* the OPAQUE proof for it started.
SendChange(t) ==
    /\ At(t, "derive")
    /\ IF OpenSince(t) /\ session[My(t)] # Nobody
       THEN IF task[t].pake
            THEN /\ task' = [task EXCEPT ![t].st = "reauth", ![t].by = session[My(t)]]
                 /\ UNCHANGED change
            ELSE Goes(t, "change") /\ Request(t, session[My(t)], 0)
       ELSE Ends(t) /\ UNCHANGED change
    /\ UNCHANGED <<accountVars, deviceVars, made>>

\* pake_reauth, the device's check of its answer, and the request.
Reauth(t) ==
    /\ At(t, "reauth")
    /\ IF token[task[t].by] # 0 /\ PakeProves(account.record, task[t].key)
       THEN /\ Goes(t, "change")
            /\ Request(t, task[t].by, account.record)
            /\ UNCHANGED session
       ELSE Rejected(t) /\ UNCHANGED change
    /\ UNCHANGED <<accountVars, vault, local, floor, confirmed, made>>

\* change_credentials up to its transaction: the session, the stored columns
\* and the proof, whoever still waits for the answer.
CheckChange(t) ==
    LET c == change[t]
        upgrade == ~c.pake /\ LegacyRefused(Stored)
        proved == IF c.pake THEN PakeProves(c.proof, c.key) ELSE LegacyProves(Stored, c.key)
    IN  /\ c.st = "sent"
        /\ change' = [change EXCEPT ![t] =
                         IF token[c.by] = 0 THEN Answer("unauthorized")
                         ELSE IF upgrade THEN Answer("upgrade")
                         ELSE IF proved THEN [c EXCEPT !.st = "checked", !.seen = Stored]
                         ELSE Answer("unauthorized")]
        /\ UNCHANGED <<accountVars, deviceVars, task, made>>

\* The transaction: nothing the handler read may have changed since.
CommitChange(t) ==
    LET c == change[t]
    IN  /\ c.st = "checked"
        /\ IF SameColumns(c.seen) /\ AtRevision(c.base)
           THEN /\ InstallCredential(c.by, c.new, c.pake)
                /\ change' = [change EXCEPT ![t] = Answer("done")]
           ELSE /\ change' = [change EXCEPT ![t] = Answer("conflict")]
                /\ UNCHANGED <<account, headers, token>>
        /\ UNCHANGED <<legacy, deviceVars, task, made>>

\* The answer arrives.
HearChange(t) ==
    LET st == change[t].st
    IN  /\ At(t, "change")
        /\ st \in {"done", "conflict", "unauthorized", "upgrade"}
        /\ IF st = "done" THEN Goes(t, "commit") /\ UNCHANGED session
           ELSE IF st = "unauthorized" THEN Rejected(t)
           ELSE Ends(t) /\ UNCHANGED session
        /\ change' = [change EXCEPT ![t] = NoChange]
        /\ UNCHANGED <<accountVars, vault, local, floor, confirmed, made>>

\* Mutant of GiveUp: no answer taken for a success.
GiveUpHopeful(t) ==
    /\ task[t].st \in {"reauth", "change"}
    /\ Goes(t, "commit")
    /\ UNCHANGED <<accountVars, deviceVars, change, made>>

\* The device stops waiting for the reauth or for the change: the server may
\* still be at it.
GiveUp(t) ==
    /\ task[t].st \in {"reauth", "change"}
    /\ Goes(t, "ask")
    /\ UNCHANGED <<accountVars, deviceVars, change, made>>

\* A change nobody waits for: its answer is lost, or it never arrives.
ForgetChange(t) ==
    /\ change[t].st \notin {"none", "checked"}
    /\ ~At(t, "change")
    /\ change' = [change EXCEPT ![t] = NoChange]
    /\ UNCHANGED <<accountVars, deviceVars, task, made>>

\* change_outcome: which KDF parameters does the server serve now?  With the
\* old ones the user is told that nothing changed, and without an answer, or
\* with other ones, that nobody knows.
AskOutcome(t) ==
    /\ At(t, "ask")
    /\ \/ account.kdf = task[t].new /\ Goes(t, "commit")
       \/ Ends(t)
    /\ UNCHANGED <<accountVars, deviceVars, change, made>>

\* commit_rekey: the same unlock, and the header the ticket was taken from.
\* Otherwise the change is on the server only, for a later unlock or sync.
CommitRekey(t) ==
    LET d == My(t)
        ticket == task[t].ticket
    IN  /\ At(t, "commit")
        /\ IF OpenSince(t) /\ local[d] = ticket
           THEN /\ local' = [local EXCEPT ![d] = [rev |-> ticket.rev + 1,
                                                  cred |-> task[t].new]]
                /\ floor' = [floor EXCEPT ![d] = Max(@, ticket.rev + 1)]
           ELSE UNCHANGED <<local, floor>>
        /\ Ends(t)
        /\ UNCHANGED <<accountVars, vault, confirmed, session, change, made>>

-----------------------------------------------------------------------------

ServerSteps == \/ EndLegacy /\ UNCHANGED <<deviceVars, task, change, made>>
               \/ \E t \in Tasks : /\ SessionEnds(t)
                                   /\ UNCHANGED <<deviceVars, task, change, made>>

SignIn(t) == \/ Connect(t) \/ AskParams(t) \/ PakeStart(t) \/ PakeFinish(t)
             \/ PakeExpired(t) \/ LegacyRead(t) \/ LegacyVerify(t) \/ IssueToken(t)
             \/ EnrolCheck(t) \/ EnrolCommit(t) \/ SignInFails(t)

Rekey(t) == \/ BeginRekey(t) \/ SendChange(t) \/ Reauth(t) \/ CheckChange(t)
            \/ CommitChange(t) \/ HearChange(t) \/ GiveUp(t) \/ ForgetChange(t)
            \/ AskOutcome(t) \/ CommitRekey(t)

Next == \/ ServerSteps
        \/ \E d \in Locking : Lock(d) \/ Restart(d)
        \/ \E t \in Tasks :
              \/ \E password \in 1..made : Unlock(t, password)
              \/ DiscardUnlock(t) \/ FinishUnlock(t)
              \/ SignIn(t)
              \/ GoOnline(t) \/ FetchHeader(t) \/ AdoptAndUnlock(t)
              \/ \E goal \in {"sync", "change"} : StartSync(t, goal)
              \/ GetHeader(t) \/ CompareHeader(t) \/ AdoptHeader(t) \/ SyncFails(t)
              \/ Rekey(t)

Spec == Init /\ [][Next]_vars

-----------------------------------------------------------------------------
(* What changing, following and proving a password promises                *)

\* Every variable has its type, in the shapes the code's types give it.
TypeOK == /\ account \in Account
          /\ headers \in Seq(Creds)
          /\ headers # <<>>
          /\ token \in [Tasks -> {0} \cup Creds]
          /\ legacy \in BOOLEAN
          /\ vault \in [Devices -> {"locked", "unlocking", "unlocked"}]
          /\ local \in [Devices -> LocalHeader]
          /\ floor \in [Devices -> Nat]
          /\ confirmed \in [Devices -> BOOLEAN]
          /\ session \in [Devices -> Tasks \cup {Nobody}]
          /\ task \in [Tasks -> Task]
          /\ change \in [Tasks -> Change]
          /\ made \in Creds

\* The KDF parameters, the key header and every key that signs in belong to
\* one password, and one key signs in, whatever enrolments and changes cross.
\* (routes/account.rs: "All three have to move together".)
CredentialsAgree ==
    /\ account.kdf = Header.cred
    /\ account.verifier \in {0, account.kdf}
    /\ account.record \in {0, account.kdf}
    /\ account.verifier # 0 \/ account.record # 0

\* A device only ever holds a key header the server once installed at that
\* revision: lost answers, locks and other devices' changes in between
\* included.  (change_master_password: "The other order would leave this
\* device holding a header, and a password, the server has never heard of".)
HeadersAreTheServers ==
    \A d \in Devices : /\ local[d].rev <= Header.rev
                       /\ local[d].cred = headers[local[d].rev + 1]
                       /\ floor[d] <= Header.rev

\* Who knows the account's present password can open every device with it:
\* the local header takes it, or the server's is new enough to be adopted, and
\* the one kind of sign-in the device will try is the one the server accepts.
\* (unlock_from_server, adopt_and_unlock, sign_in_with_key.)
NeverLockedOut ==
    \A d \in Devices :
        /\ \/ local[d].cred = account.kdf
           \/ Header.rev > Max(floor[d], local[d].rev)
        /\ confirmed[d] => account.record = account.kdf

\* A lock wins over everything in flight: a vault that is not open holds no
\* session.  (client.rs lock; connect and go_online_after_sign_in, DT1.)
LockWins == \A d \in Devices : session[d] # Nobody => vault[d] = "unlocked"

\* Neither the header in use nor the rollback floor ever goes back, and an
\* account that moved to OPAQUE never leaves it.  (adopt_account_header: "the
\* revision must not go backwards"; raise_max_header_rev; check_proof.)
NoRollback ==
    [][/\ \A d \in Devices : local'[d].rev >= local[d].rev /\ floor'[d] >= floor[d]
       /\ account.record # 0 => account'.record # 0]_vars

=============================================================================
