------------------------------ MODULE Devices ------------------------------
(***************************************************************************)
(* The device and session tables of the server for one account, under the  *)
(* statements of overlapping requests: sign-ins (complete_login is no      *)
(* transaction), revocations, sign-outs, password changes and the erasure  *)
(* of the account, whose transaction holds the account row.                *)
(*                                                                         *)
(* A sign-in is a process of Attempts, made by one device.  A session      *)
(* is a token number, handed out in order.                                 *)
(***************************************************************************)
EXTENDS Naturals, FiniteSets

CONSTANTS DeviceIds,      \* the installations that may sign in
          Attempts,       \* sign-ins that may overlap
          MaxDevices,     \* MAX_DEVICES_PER_ACCOUNT
          MaxTokens       \* bound: tokens ever issued

ASSUME DevicesAssumption ==
  /\ MaxDevices \in Nat \ {0} /\ MaxTokens \in Nat
  /\ IsFiniteSet(DeviceIds) /\ IsFiniteSet(Attempts)

VARIABLES
  status,      \* "active", or "erased" once the account row is gone
  devices,     \* device -> "none", "known" or "revoked": the devices table
  sessions,    \* device -> its stored tokens
  issued,      \* the number of tokens handed out
  newest,      \* device -> its last issued token, 0 when it was withdrawn
  attempt,     \* attempt -> the statement it is about to run
  signing,     \* attempt -> the device that makes it
  knownAt,     \* attempt -> what register_device read of its device
  accountFrozen, \* the subscription has ended: a frozen account
  erasing,     \* the erasure's progress and what its statements have read
  goneTokens,  \* deleted_sessions
  goneDevices  \* deleted_devices

deviceVars == <<status, devices, sessions, issued, newest, attempt,
                signing, knownAt, accountFrozen, erasing, goneTokens, goneDevices>>

NotErasing == [at |-> "idle", tokens |-> {}, devices |-> {}]

DeviceInit ==
  /\ status = "active" /\ accountFrozen \in BOOLEAN
  /\ devices = [d \in DeviceIds |-> "none"]
  /\ sessions = [d \in DeviceIds |-> {}]
  /\ issued = 0 /\ newest = [d \in DeviceIds |-> 0]
  /\ attempt = [q \in Attempts |-> "start"]
  /\ knownAt = [q \in Attempts |-> FALSE] /\ signing \in [Attempts -> DeviceIds]
  /\ erasing = NotErasing /\ goneTokens = {} /\ goneDevices = {}

Active == {d \in DeviceIds : devices[d] = "known"}

\* Mutant of AccountFree: the erasure does not take the account row first, so a
\* write that refers to the account does not wait for it.
NeverLocked == status = "active"

\* A row that refers to the account can be written: the account exists and no
\* transaction holds its row FOR UPDATE (a foreign key check waits for that).
AccountFree == status = "active" /\ erasing.at = "idle"

Goto(q, at) == attempt' = [attempt EXCEPT ![q] = at]

(***************************** complete_login *******************************)

\* The key is verified and the vault row found; a device the account does not
\* know is refused while the account is frozen.
LoginAccepted(q) ==
  /\ attempt[q] = "start" /\ status = "active"
  /\ accountFrozen => devices[signing[q]] = "known"
  /\ Goto(q, "read")
  /\ UNCHANGED <<signing, status, devices, sessions, issued, newest, knownAt, accountFrozen,
                 erasing, goneTokens, goneDevices>>

\* register_device reads the device's row: a revoked device is refused.
RegisterRead(q) ==
  /\ attempt[q] = "read"
  /\ knownAt' = [knownAt EXCEPT ![q] = devices[signing[q]] = "known"]
  /\ Goto(q, CASE devices[signing[q]] = "revoked" -> "refused"
               [] devices[signing[q]] = "known"   -> "write"
               [] OTHER                             -> "count")
  /\ UNCHANGED <<signing, status, devices, sessions, issued, newest, accountFrozen, erasing,
                 goneTokens, goneDevices>>

\* The account holds fewer than MAX_DEVICES_PER_ACCOUNT devices.
HasRoom == Cardinality(Active) < MaxDevices

\* A device that is new is counted against the limit.
RegisterCount(q) ==
  /\ attempt[q] = "count"
  /\ Goto(q, IF HasRoom THEN "write" ELSE "refused")
  /\ UNCHANGED <<signing, status, devices, sessions, issued, newest, knownAt, accountFrozen,
                 erasing, goneTokens, goneDevices>>

\* ... and its row is written: an update of a row that may be gone or revoked by
\* now, or an insert that fails when another sign-in made it or the account went.
RegisterWrite(q) ==
  LET d == signing[q] IN
  /\ attempt[q] = "write"
  /\ \/ knownAt[q] /\ Goto(q, "drop") /\ UNCHANGED devices
     \/ /\ ~knownAt[q] /\ AccountFree /\ devices[d] = "none"
        /\ devices' = [devices EXCEPT ![d] = "known"] /\ Goto(q, "drop")
     \/ /\ ~knownAt[q] /\ (status = "erased" \/ devices[d] # "none")
        /\ Goto(q, "refused") /\ UNCHANGED devices
  /\ UNCHANGED <<signing, status, sessions, issued, newest, knownAt, accountFrozen, erasing,
                 goneTokens, goneDevices>>

\* The device's other sessions go,
DropSessions(q) ==
  /\ attempt[q] = "drop"
  /\ sessions' = [sessions EXCEPT ![signing[q]] = {}]
  /\ Goto(q, "issue")
  /\ UNCHANGED <<signing, status, devices, issued, newest, knownAt, accountFrozen, erasing,
                 goneTokens, goneDevices>>

\* The tokens a device holds once t is inserted.
StoreToken(d, t) == sessions[d] \cup {t}

\* ... and a new token is stored and answered, in a statement of its own.
IssueToken(q) ==
  LET d == signing[q] IN
  /\ attempt[q] = "issue" /\ issued < MaxTokens
  /\ \/ /\ AccountFree /\ devices[d] # "none"
        /\ issued' = issued + 1
        /\ sessions' = [sessions EXCEPT ![d] = StoreToken(d, issued')]
        /\ newest' = [newest EXCEPT ![d] = issued']
        /\ Goto(q, "done")
     \/ /\ status = "erased" /\ Goto(q, "refused")
        /\ UNCHANGED <<issued, sessions, newest>>
  /\ UNCHANGED <<signing, status, devices, knownAt, accountFrozen, erasing, goneTokens, goneDevices>>

\* The process is free for another sign-in, of any device.
Again(q) ==
  /\ attempt[q] \in {"done", "refused"} /\ status = "active"
  /\ issued < MaxTokens
  /\ Goto(q, "start") /\ \E d \in DeviceIds : signing' = [signing EXCEPT ![q] = d]
  /\ UNCHANGED <<status, devices, sessions, issued, newest, knownAt, accountFrozen,
                 erasing, goneTokens, goneDevices>>

(********************* requests of a signed-in device **********************)

\* The Session extractor: the token is stored, the account active and the
\* device not revoked.
Authenticates(d, t) == t \in sessions[d] /\ status = "active" /\ devices[d] = "known"

Withdraw(ds) == newest' = [d \in DeviceIds |-> IF d \in ds THEN 0 ELSE newest[d]]

\* One transaction marks the device and drops its sessions.
Revoke(d) ==
  /\ devices[d] = "known" /\ status = "active"
  /\ \E o \in DeviceIds, t \in 1..MaxTokens : Authenticates(o, t)
  /\ devices' = [devices EXCEPT ![d] = "revoked"]
  /\ sessions' = [sessions EXCEPT ![d] = {}]
  /\ Withdraw({d})
  /\ UNCHANGED <<status, issued, attempt, signing, knownAt, accountFrozen, erasing, goneTokens, goneDevices>>

Logout(d, t) ==
  /\ Authenticates(d, t)
  /\ sessions' = [sessions EXCEPT ![d] = @ \ {t}]
  /\ IF t = newest[d] THEN Withdraw({d}) ELSE UNCHANGED newest
  /\ UNCHANGED <<status, devices, issued, attempt, signing, knownAt, accountFrozen, erasing, goneTokens, goneDevices>>

\* A password change keeps the token it was made with and no other.
DropOtherSessions(d, t) ==
  /\ Authenticates(d, t) /\ AccountFree
  /\ sessions' = [o \in DeviceIds |-> sessions[o] \cap {t}]
  /\ Withdraw({o \in DeviceIds : newest[o] # t})
  /\ UNCHANGED <<status, devices, issued, attempt, signing, knownAt, accountFrozen, erasing, goneTokens, goneDevices>>

(****************************** erase_account *******************************)

\* delete_account, or the administrator's command, locks the account row,
EraseLock ==
  /\ AccountFree
  /\ erasing' = [NotErasing EXCEPT !.at = "sessions"]
  /\ UNCHANGED <<status, devices, sessions, issued, newest, attempt, signing, knownAt, accountFrozen,
                 goneTokens, goneDevices>>

\* reads the sessions it will leave tombstones for,
EraseSessions ==
  /\ erasing.at = "sessions"
  /\ erasing' = [erasing EXCEPT !.at = "devices", !.tokens = UNION {sessions[d] : d \in DeviceIds}]
  /\ UNCHANGED <<status, devices, sessions, issued, newest, attempt, signing, knownAt, accountFrozen,
                 goneTokens, goneDevices>>

\* then the devices,
EraseDevices ==
  /\ erasing.at = "devices"
  /\ erasing' = [erasing EXCEPT !.at = "commit",
                                !.devices = {d \in DeviceIds : devices[d] # "none"}]
  /\ UNCHANGED <<status, devices, sessions, issued, newest, attempt, signing, knownAt, accountFrozen,
                 goneTokens, goneDevices>>

\* and deletes the account: every table that refers to it cascades.
EraseCommit ==
  /\ erasing.at = "commit"
  /\ status' = "erased" /\ erasing' = NotErasing
  /\ goneTokens' = erasing.tokens /\ goneDevices' = erasing.devices
  /\ devices' = [d \in DeviceIds |-> "none"] /\ sessions' = [d \in DeviceIds |-> {}]
  /\ UNCHANGED <<issued, newest, attempt, signing, knownAt, accountFrozen>>

\* The transaction may also fail and leave everything as it was.
EraseFails ==
  /\ erasing.at # "idle" /\ erasing' = NotErasing
  /\ UNCHANGED <<status, devices, sessions, issued, newest, attempt, signing, knownAt, accountFrozen,
                 goneTokens, goneDevices>>

DeviceNext ==
  \/ \E q \in Attempts :
       \/ LoginAccepted(q) \/ RegisterRead(q) \/ RegisterCount(q) \/ RegisterWrite(q)
       \/ DropSessions(q) \/ IssueToken(q) \/ Again(q)
  \/ \E d \in DeviceIds : Revoke(d)
  \/ \E d \in DeviceIds, t \in 1..MaxTokens : Logout(d, t) \/ DropOtherSessions(d, t)
  \/ EraseLock \/ EraseSessions \/ EraseDevices \/ EraseCommit \/ EraseFails

DeviceSpec == DeviceInit /\ [][DeviceNext]_deviceVars

-----------------------------------------------------------------------------

\* Every variable has its type; an erased account has no row left.
DeviceTypeOK ==
  /\ status \in {"active", "erased"} /\ accountFrozen \in BOOLEAN
  /\ devices \in [DeviceIds -> {"none", "known", "revoked"}]
  /\ sessions \in [DeviceIds -> SUBSET (1..MaxTokens)]
  /\ issued \in 0..MaxTokens /\ newest \in [DeviceIds -> 0..MaxTokens]
  /\ attempt \in [Attempts -> {"start", "read", "count", "write", "drop", "issue", "done", "refused"}]
  /\ knownAt \in [Attempts -> BOOLEAN] /\ signing \in [Attempts -> DeviceIds]
  /\ status = "erased" => \A d \in DeviceIds : devices[d] = "none" /\ sessions[d] = {}

\* register_device counts and inserts in two statements, so overlapping sign-ins
\* can pass the limit; they pass it by fewer devices than there are sign-ins.
DevicesBounded == Cardinality(Active) < MaxDevices + Cardinality(Attempts)

\* Once an account is erased, every device whose last sign-in still stood is told
\* so by its device id, and by its token unless an overlapping sign-in had dropped
\* it, however the sign-in overlapped the erasure: nothing slips in after the
\* tombstones were read.
DeletedIsTold ==
  status = "erased" =>
    \A d \in DeviceIds :
      newest[d] # 0 =>
        /\ d \in goneDevices
        /\ \/ newest[d] \in goneTokens
           \/ \E q \in Attempts : signing[q] = d /\ attempt[q] \in {"issue", "refused"}

\* A device that signed in keeps its newest token until the token is withdrawn
\* (sign-out, revocation, password change, erasure) or a later sign-in of the
\* same device has dropped it and is about to store its own.
NewestTokenStands ==
  \A d \in DeviceIds :
    status = "active" /\ newest[d] # 0 =>
      \/ newest[d] \in sessions[d]
      \/ \E q \in Attempts : signing[q] = d /\ attempt[q] = "issue"

\* Overlapping sign-ins, revocations and an erasure leave the devices table, the
\* sessions and the tombstones in step (routes/auth.rs, routes/account.rs).
DevicesInStep == DevicesBounded /\ DeletedIsTold /\ NewestTokenStands
=============================================================================
