----------------------------- MODULE LocalVault -----------------------------
(***************************************************************************)
(* What one device keeps of an account and how it is put there and taken   *)
(* away: the vault file, the Secret Key in the keychain or in device.json, *)
(* and the marker of an unfinished wipe.  Activation, sign-in, "remove     *)
(* this device", account deletion and the wipe that follows it run next to *)
(* keychain calls that time out and finish later, a server whose answers   *)
(* are lost, and an application that ends between any two steps.           *)
(*                                                                         *)
(* A Secret Key is a number, fresh for every activation that is tried; 0   *)
(* is no key.  The owner works on one dialog at a time; a sync may be in   *)
(* flight next to it.                                                      *)
(***************************************************************************)
EXTENDS Naturals

CONSTANTS Owned,       \* the accounts this device may meet
          MaxKeys,     \* bound: Secret Keys that are made
          MaxCrashes,  \* bound: times the application ends
          NoAcct

ASSUME LocalAssumption ==
    /\ MaxKeys \in Nat /\ MaxCrashes \in Nat
    /\ NoAcct \notin Owned

VARIABLES serverKey,  \* the key an account was activated with
          gone,       \* accounts the server has erased
          vaultFile,  \* whose vault the file holds
          marker,     \* the wipe a marker file remembers
          keychain,   \* the keychain's entry of each account
          fileKey,    \* the key device.json holds
          proc,       \* the running process: its device.json, its cache, whether it may save
          late,       \* a keychain call that timed out and is still running
          task,       \* the owner's dialog
          wipe,       \* the thread that erases the local copy
          inflight,   \* the account a sync is asking about
          keys, crashes,
          sheets,     \* accounts whose owner could print the Recovery Sheet
          cleared,    \* accounts whose keychain entry was reported gone
          mistaken    \* history: accounts wiped on an answer about another account

serverVars == <<serverKey, gone>>
diskVars == <<vaultFile, marker>>
keyVars == <<keychain, fileKey, proc, late, cleared>>
localVars == <<serverVars, diskVars, keyVars, task, wipe, inflight, keys, crashes, sheets, mistaken>>

Key == 0..MaxKeys
NoTask == [pc |-> "idle", acct |-> NoAcct, key |-> 0]
NoWipe == [pc |-> "none", acct |-> NoAcct, gone |-> FALSE]
NoCall == [op |-> "none", acct |-> NoAcct, key |-> 0]
NoCached == [acct |-> NoAcct, key |-> 0]
Down == [up |-> FALSE, key |-> 0, cached |-> NoCached, readFailed |-> FALSE]

LocalInit ==
    /\ serverKey = [a \in Owned |-> 0] /\ gone = {}
    /\ vaultFile = NoAcct /\ marker = NoAcct
    /\ keychain = [a \in Owned |-> 0] /\ fileKey = 0
    /\ proc = [Down EXCEPT !.up = TRUE] /\ late = NoCall
    /\ task = NoTask /\ wipe = NoWipe /\ inflight = NoAcct
    /\ keys = 0 /\ crashes = 0 /\ sheets = {} /\ cleared = {} /\ mistaken = {}

-----------------------------------------------------------------------------
(* The key store.                                                          *)

\* What a call that is still running does to the keychain when it finishes.
Effect(call, chain) ==
    CASE call.op = "set"    -> [chain EXCEPT ![call.acct] = call.key]
      [] call.op = "delete" -> [chain EXCEPT ![call.acct] = 0]
      [] OTHER              -> chain

\* One call at a time: while one that timed out runs, every other is refused.
Free == late = NoCall

\* A call started now is carried out, refused, or times out and goes on.
Called(op, a, k, outcome) ==
    /\ outcome = "done" => Free
    /\ outcome = "late" => Free /\ late = NoCall
    /\ keychain' = IF outcome = "done"
                     THEN Effect([op |-> op, acct |-> a, key |-> k], keychain) ELSE keychain
    /\ late' = IF outcome = "late" THEN [op |-> op, acct |-> a, key |-> k] ELSE late

\* The keychain took the key and gives the same value back.
InKeychain(set, read) == set = "done" /\ read = "same"

\* The key goes to the keychain, or else to device.json; a save that fails
\* leaves both the file and the copy in memory as they were.  A keychain may
\* also take a key and not keep it ("lie").
SetSecretKey(a, k, set, read, saves) ==
    /\ Called("set", a, k, IF set = "lie" THEN "refused" ELSE set)
    /\ set \in {"done", "lie"} => Free
    /\ LET kept == IF InKeychain(set, read) THEN 0 ELSE k
       IN  IF saves /\ ~proc.readFailed
             THEN /\ fileKey' = kept
                  /\ proc' = [proc EXCEPT !.key = kept, !.cached = [acct |-> a, key |-> k]]
             ELSE /\ proc' = [proc EXCEPT !.cached = NoCached]
                  /\ UNCHANGED fileKey
    /\ cleared' = cleared \ {a}

Sets == {"done", "lie", "refused", "late"}
Reads == {"same", "failed"}

\* The file and the device id are always reset; the keychain is asked twice,
\* the second time after waiting for a call that is still running.
ForgetKeys(a, outcome, waited, saves) ==
    LET chain == IF waited THEN Effect(late, keychain) ELSE keychain
    IN  /\ waited => late # NoCall
        /\ outcome # "refused" => waited \/ Free
        /\ keychain' = IF outcome = "done" THEN [chain EXCEPT ![a] = 0] ELSE chain
        /\ late' = IF outcome = "late" THEN [op |-> "delete", acct |-> a, key |-> 0]
                   ELSE IF waited THEN NoCall ELSE late
        /\ fileKey' = IF saves /\ ~proc.readFailed THEN 0 ELSE fileKey
        /\ proc' = [proc EXCEPT !.key = 0, !.cached = NoCached]
        /\ cleared' = IF outcome = "done" THEN cleared \cup {a} ELSE cleared

Forgets == {"done", "refused", "late"}

\* The cached answer, else the keychain, else the file; only a definite
\* answer is cached.
Lookup(a, answers) ==
    IF proc.cached.acct = a THEN [key |-> proc.cached.key, definite |-> TRUE]
    ELSE IF answers /\ keychain[a] # 0 THEN [key |-> keychain[a], definite |-> TRUE]
    ELSE [key |-> proc.key, definite |-> answers \/ proc.key # 0]

LateCallEnds ==
    /\ late # NoCall
    /\ keychain' = Effect(late, keychain) /\ late' = NoCall
    /\ UNCHANGED <<serverVars, diskVars, fileKey, proc, cleared, task, wipe, inflight, keys, crashes, sheets, mistaken>>

-----------------------------------------------------------------------------
(* The owner's dialogs.                                                    *)

CanAct == proc.up /\ task = NoTask /\ wipe = NoWipe

\* A device that has a vault refuses a second one.
CanSetUp == CanAct /\ vaultFile = NoAcct

\* Accounts the server has activated and whose owner has not seen it.
Unfinished == {a \in Owned \ (gone \cup sheets) : serverKey[a] # 0}

\* The key is stored before the server is asked.
ActivateStart(a) ==
    /\ CanSetUp /\ keys < MaxKeys
    /\ a \notin gone
    /\ keys' = keys + 1
    /\ \E set \in Sets, read \in Reads, saves \in BOOLEAN :
         /\ SetSecretKey(a, keys + 1, set, read, saves)
         /\ task' = IF saves /\ ~proc.readFailed
                      THEN [pc |-> "activating", acct |-> a, key |-> keys + 1] ELSE NoTask
    /\ UNCHANGED <<serverVars, diskVars, wipe, inflight, crashes, sheets, mistaken>>

\* The server takes an invite once; the request or its answer may be lost.
Activated(arrives, answered) ==
    LET a == task.acct
        accepts == arrives /\ serverKey[a] = 0 /\ a \notin gone
    IN  /\ task.pc = "activating"
        /\ serverKey' = IF accepts THEN [serverKey EXCEPT ![a] = task.key] ELSE serverKey
        /\ task' = IF accepts /\ answered THEN [task EXCEPT !.pc = "create"] ELSE NoTask
        /\ UNCHANGED <<gone, diskVars, keyVars, wipe, inflight, keys, crashes, sheets, mistaken>>

CreateVault ==
    /\ task.pc = "create" /\ wipe = NoWipe
    /\ vaultFile' = IF vaultFile = NoAcct THEN task.acct ELSE vaultFile
    /\ task' = NoTask
    /\ sheets' = IF vaultFile = NoAcct THEN sheets \cup {task.acct} ELSE sheets
    /\ UNCHANGED <<serverVars, marker, keyVars, wipe, inflight, keys, crashes, mistaken>>

\* Sign-in needs the account's own key, typed or found here; the vault is
\* created first and the key stored after it.
SignIn(a, typed, answers) ==
    /\ CanSetUp
    /\ serverKey[a] # 0 /\ a \notin gone
    /\ typed => a \in sheets
    /\ ~typed => Lookup(a, answers).key = serverKey[a]
    /\ vaultFile' = a
    /\ task' = [pc |-> "store", acct |-> a, key |-> serverKey[a]]
    /\ sheets' = sheets \cup {a}
    /\ UNCHANGED <<serverVars, marker, keyVars, wipe, inflight, keys, crashes, mistaken>>

StoreKey ==
    /\ task.pc = "store"
    /\ \E set \in Sets, read \in Reads, saves \in BOOLEAN :
         SetSecretKey(task.acct, task.key, set, read, saves)
    /\ task' = NoTask
    /\ UNCHANGED <<serverVars, diskVars, wipe, inflight, keys, crashes, sheets, mistaken>>

\* A key typed at unlock is remembered, when the lookup said for certain
\* that there is none.
UnlockTyped(a, answers) ==
    /\ CanAct /\ vaultFile = a /\ a \in sheets
    /\ Lookup(a, answers) = [key |-> 0, definite |-> TRUE]
    /\ task' = [pc |-> "store", acct |-> a, key |-> serverKey[a]]
    /\ UNCHANGED <<serverVars, diskVars, keyVars, wipe, inflight, keys, crashes, sheets, mistaken>>

\* At start-up a key left in device.json moves to the keychain.
Migrate(a) ==
    /\ CanAct /\ vaultFile = a /\ proc.key # 0
    /\ task' = [pc |-> "store", acct |-> a, key |-> proc.key]
    /\ UNCHANGED <<serverVars, diskVars, keyVars, wipe, inflight, keys, crashes, sheets, mistaken>>

\* The file is set aside, or stays; the rest follows only when it moved.
RemoveDevice(a, moves) ==
    /\ CanAct /\ vaultFile = a
    /\ vaultFile' = IF moves THEN NoAcct ELSE vaultFile
    /\ task' = IF moves THEN [pc |-> "forget", acct |-> a, key |-> 0] ELSE NoTask
    /\ UNCHANGED <<serverVars, marker, keyVars, wipe, inflight, keys, crashes, sheets, mistaken>>

ForgetRemoved ==
    /\ task.pc = "forget"
    /\ \E outcome \in Forgets, waited, saves \in BOOLEAN : ForgetKeys(task.acct, outcome, waited, saves)
    /\ task' = NoTask
    /\ UNCHANGED <<serverVars, diskVars, wipe, inflight, keys, crashes, sheets, mistaken>>

-----------------------------------------------------------------------------
(* Deletion.                                                               *)

StartWipe(a) == wipe' = [pc |-> "mark", acct |-> a, gone |-> FALSE]

\* The owner deletes the account from this device, or from another one.
DeleteAccount(a, arrives, answered) ==
    /\ CanAct /\ vaultFile = a
    /\ gone' = IF arrives THEN gone \cup {a} ELSE gone
    /\ IF arrives /\ answered THEN StartWipe(a) ELSE UNCHANGED wipe
    /\ UNCHANGED <<serverKey, diskVars, keyVars, task, inflight, keys, crashes, sheets, mistaken>>

DeletedElsewhere(a) ==
    /\ serverKey[a] # 0 /\ a \notin gone
    /\ gone' = gone \cup {a}
    /\ UNCHANGED <<serverKey, diskVars, keyVars, task, wipe, inflight, keys, crashes, sheets, mistaken>>

SyncStarts(a) ==
    /\ proc.up /\ wipe = NoWipe /\ vaultFile = a /\ inflight = NoAcct
    /\ inflight' = a
    /\ UNCHANGED <<serverVars, diskVars, keyVars, task, wipe, keys, crashes, sheets, mistaken>>

\* "The account is deleted": the account the vault holds now is wiped, and
\* nobody asks whether it is the one the sync was about.
SyncAnswered ==
    LET deleted == inflight \in gone /\ vaultFile # NoAcct
    IN  /\ inflight # NoAcct /\ wipe = NoWipe
        /\ inflight' = NoAcct
        /\ IF deleted THEN StartWipe(vaultFile) ELSE UNCHANGED wipe
        /\ mistaken' = IF deleted /\ vaultFile # inflight
                         THEN mistaken \cup {vaultFile} ELSE mistaken
        /\ UNCHANGED <<serverVars, diskVars, keyVars, task, keys, crashes, sheets>>

WipeMarks(written) ==
    /\ wipe.pc = "mark"
    /\ marker' = IF written THEN wipe.acct ELSE marker
    /\ wipe' = [wipe EXCEPT !.pc = "remove"]
    /\ UNCHANGED <<serverVars, vaultFile, keyVars, task, inflight, keys, crashes, sheets, mistaken>>

WipeRemovesFile(removed) ==
    /\ wipe.pc = "remove"
    /\ vaultFile = NoAcct => removed
    /\ vaultFile' = IF removed THEN NoAcct ELSE vaultFile
    /\ wipe' = [wipe EXCEPT !.pc = "forget", !.gone = removed]
    /\ UNCHANGED <<serverVars, marker, keyVars, task, inflight, keys, crashes, sheets, mistaken>>

WipeForgets ==
    /\ wipe.pc = "forget"
    /\ \E outcome \in Forgets, waited, saves \in BOOLEAN : ForgetKeys(wipe.acct, outcome, waited, saves)
    /\ wipe' = [wipe EXCEPT !.pc = "end"]
    /\ UNCHANGED <<serverVars, diskVars, task, inflight, keys, crashes, sheets, mistaken>>

\* Mutant of MarkerAfter: the marker goes with the wipe that ends.
NoMarker == NoAcct

\* The marker is removed only once the file is gone.
MarkerAfter == IF wipe.gone THEN NoAcct ELSE marker

WipeEnds(unmarks) ==
    /\ wipe.pc = "end"
    /\ marker' = IF unmarks THEN MarkerAfter ELSE marker
    /\ wipe' = NoWipe
    /\ UNCHANGED <<serverVars, vaultFile, keyVars, task, inflight, keys, crashes, sheets, mistaken>>

-----------------------------------------------------------------------------
\* The application ends; a keychain call that is running ends with it,
\* carried out or not.
Crash(carried) ==
    /\ proc.up /\ crashes < MaxCrashes
    /\ crashes' = crashes + 1
    /\ proc' = Down /\ late' = NoCall
    /\ keychain' = IF carried THEN Effect(late, keychain) ELSE keychain
    /\ task' = NoTask /\ wipe' = NoWipe /\ inflight' = NoAcct
    /\ UNCHANGED <<serverVars, diskVars, fileKey, cleared, keys, sheets, mistaken>>

\* A marker is acted on when it names the vault that is here, or there is none.
Finishes == marker # NoAcct /\ vaultFile \in {NoAcct, marker}

\* device.json is read, or this run never writes it; then a wipe that a
\* previous run started is finished, and a marker of another account dropped.
Start(readable) ==
    /\ ~proc.up
    /\ proc' = [up |-> TRUE, key |-> IF readable THEN fileKey ELSE 0,
                cached |-> NoCached, readFailed |-> ~readable]
    /\ IF Finishes THEN StartWipe(marker) /\ UNCHANGED marker
                   ELSE marker' = NoAcct /\ UNCHANGED wipe
    /\ UNCHANGED <<serverVars, vaultFile, keychain, fileKey, late, cleared, task, inflight,
                   keys, crashes, sheets, mistaken>>

Dialogs(a) ==
    \/ ActivateStart(a)
    \/ \E typed, answers \in BOOLEAN : SignIn(a, typed, answers)
    \/ \E answers \in BOOLEAN : UnlockTyped(a, answers)
    \/ Migrate(a)
    \/ \E moves \in BOOLEAN : RemoveDevice(a, moves)
    \/ \E arrives, answered \in BOOLEAN : DeleteAccount(a, arrives, answered)

LocalNext ==
    \/ \E a \in Owned : Dialogs(a) \/ DeletedElsewhere(a) \/ SyncStarts(a)
    \/ \E arrives, answered \in BOOLEAN : Activated(arrives, answered)
    \/ CreateVault \/ StoreKey \/ ForgetRemoved \/ SyncAnswered \/ WipeForgets \/ LateCallEnds
    \/ \E b \in BOOLEAN : WipeMarks(b) \/ WipeRemovesFile(b) \/ WipeEnds(b) \/ Crash(b) \/ Start(b)

LocalSpec == LocalInit /\ [][LocalNext]_localVars

-----------------------------------------------------------------------------
Accts == Owned \cup {NoAcct}

\* Files, keychain and tasks have their types.
LocalTypeOK ==
    /\ serverKey \in [Owned -> Key] /\ gone \subseteq Owned
    /\ vaultFile \in Accts /\ marker \in Accts /\ inflight \in Accts
    /\ keychain \in [Owned -> Key] /\ fileKey \in Key
    /\ proc \in [up : BOOLEAN, key : Key, cached : [acct : Accts, key : Key], readFailed : BOOLEAN]
    /\ late \in [op : {"none", "set", "delete"}, acct : Accts, key : Key]
    /\ task \in [pc : {"idle", "activating", "create", "store", "forget"}, acct : Accts, key : Key]
    /\ wipe \in [pc : {"none", "mark", "remove", "forget", "end"}, acct : Accts, gone : BOOLEAN]
    /\ keys \in Key /\ crashes \in 0..MaxCrashes /\ sheets \subseteq Owned /\ cleared \subseteq Owned
    /\ mistaken \subseteq Owned

\* A wipe erases only the vault it was begun for, and that is the vault of an
\* account the server has erased, whatever crash, marker or sign-in came in
\* between.  One case is excepted, in which the code does erase a vault the
\* server still has: the answer to a sync of an account that was removed from
\* the device comes after the next vault was set up (client/sync.rs, failed).
OnlyDeletedIsWiped ==
    [][vaultFile' # vaultFile /\ wipe.pc = "remove"
         => vaultFile = wipe.acct /\ vaultFile \in gone \cup mistaken]_localVars

\* A wipe that stopped before the file was gone is not forgotten: as long as
\* the marker was written, the next start finds it with the vault it names.
WipeIsRemembered ==
    [][\A a \in Owned : marker = a /\ vaultFile = a => (marker' = a \/ vaultFile' # a)]_localVars

\* When the owner was told that the keychain entry is gone, no keychain call
\* that finishes late brings it back (device.rs, forget).
ClearedIsGone == \A a \in cleared : keychain[a] = 0

\* Once the server has accepted an activation, the Secret Key it was made
\* with is on this device until the device is removed or the account erased,
\* whatever fails in between: there is no other copy before the Recovery
\* Sheet can be printed (account.rs, activate).
KeyKept ==
    \A a \in Unfinished : serverKey[a] \in {keychain[a], fileKey, Effect(late, keychain)[a]}
=============================================================================
