--------------------------- MODULE AccountServer ---------------------------
(***************************************************************************)
(* What the server keeps of one account's credentials, and what its        *)
(* handlers do with it (havenkeys-server routes/auth.rs, routes/account.rs,*)
(* auth/mod.rs).                                                           *)
(*                                                                         *)
(* A credential is one derivation of the user's keys: a password with a    *)
(* fresh random salt.  Its number stands for the KDF parameters, for the   *)
(* auth key, for the verifier or the OPAQUE record made from that key and  *)
(* for the vault key wrapped under it: two of them fit together exactly    *)
(* when they carry the same number.  0 stands for "there is none", and for *)
(* a key derived from a password and a salt that do not belong together.   *)
(***************************************************************************)
EXTENDS Naturals, Sequences

CONSTANTS Devices,      \* the devices of the account
          Tasks,        \* their asynchronous tasks
          DeviceOf,     \* the device a task runs on
          MaxCreds      \* bound: how many credentials are ever derived

ASSUME AccountServerAssumption == /\ DeviceOf \in [Tasks -> Devices]
                                  /\ MaxCreds \in Nat \ {0}

VARIABLES account,      \* the accounts row: KDF, legacy verifier, OPAQUE record
          headers,      \* every key header so far; the vaults row holds the last
          token,        \* per task: the credential behind its session, 0 once deleted
          legacy        \* before the operator's cutoff of legacy sign-ins?

accountVars == <<account, headers, token, legacy>>

Creds == 1..MaxCreds

Account == [kdf : Creds, verifier : {0} \cup Creds, record : {0} \cup Creds]

\* The vaults row: header, and header_revision, which activation sets to 0.
Header == [rev |-> Len(headers) - 1, cred |-> headers[Len(headers)]]

\* The columns an optimistic lock compares.
Stored == [verifier |-> account.verifier, record |-> account.record]

\* An account from before OPAQUE, or one activated with it.
AccountInit == /\ account \in {[kdf |-> 1, verifier |-> 1, record |-> 0],
                               [kdf |-> 1, verifier |-> 0, record |-> 1]}
               /\ headers = <<1>>
               /\ token = [t \in Tasks |-> 0]
               /\ legacy \in BOOLEAN

\* Does the OPAQUE exchange started against record prove key?
PakeProves(record, key) == key # 0 /\ record = key

\* Is the legacy key behind the verifier?
LegacyProves(stored, key) == key # 0 /\ stored.verifier = key

\* Mutant of LegacyRefused: a record does not rule the legacy key out.
RefusedLate(stored) == ~legacy

\* "Upgrade required": after the cutoff, or once the account has a record too.
LegacyRefused(stored) == ~legacy \/ (stored.verifier # 0 /\ stored.record # 0)

\* Mutant of SameColumns: the verifier is not compared.
SameRecord(stored) == account.record = stored.record

\* The optimistic lock of a transaction: what was read before is still there.
SameColumns(stored) == Stored = stored
AtRevision(base) == Header.rev = base

\* complete_login deletes the device's sessions before it issues a new one.
DropSessions(d) == token' = [t \in Tasks |-> IF DeviceOf[t] = d THEN 0 ELSE token[t]]

\* The one transaction of change_credentials: the columns, the header and the
\* sessions move together.  The session that asked stays, and now stands for
\* the new credential.
InstallCredential(by, new, pake) ==
    /\ account' = [kdf |-> new, verifier |-> IF pake THEN 0 ELSE new,
                   record |-> IF pake THEN new ELSE 0]
    /\ headers' = Append(headers, new)
    /\ token' = [t \in Tasks |-> IF t = by /\ token[t] # 0 THEN new ELSE 0]

\* A session reaches the end of its day, or its device is revoked.
SessionEnds(t) == /\ token[t] # 0
                  /\ token' = [token EXCEPT ![t] = 0]
                  /\ UNCHANGED <<account, headers, legacy>>

\* The operator's cutoff passes.
EndLegacy == /\ legacy
             /\ legacy' = FALSE
             /\ UNCHANGED <<account, headers, token>>

=============================================================================
