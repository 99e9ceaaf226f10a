---------------------------- MODULE LocalProofs -----------------------------
(***************************************************************************)
(* Proofs about what one device keeps and gives out: the vault's file, the *)
(* keychain and the marker of a wipe; the statements of the database file; *)
(* the shortcut that opens Quick Access; and what a page or an app gets of *)
(* the vault.  They hold for any accounts, number of crashes and restarts, *)
(* any hosts and items, and any order of the steps.                        *)
(***************************************************************************)
EXTENDS MCServerBrowser, WellFoundedInduction, FiniteSetTheorems, TLAPS

-----------------------------------------------------------------------------
(* The local copy: the inductive invariant                                  *)

USE LocalAssumption

\* A keychain call that still runs, a dialog and a wipe are about an account.
LateOK == late = NoCall \/ late \in [op : {"set", "delete"}, acct : Owned, key : Key]
TaskOK == task = NoTask \/ task \in [pc : {"activating", "create", "store", "forget"},
                                     acct : Owned, key : Key]
WipeOK == wipe = NoWipe \/ wipe \in [pc : {"mark", "remove", "forget", "end"},
                                     acct : Owned, gone : BOOLEAN]

\* The call that still runs sets no entry that was reported gone.
LateNotCleared == late.op = "set" => late.acct \notin cleared

\* The keychain and the calls on it.
ChainInv ==
    /\ keychain \in [Owned -> Key] /\ cleared \subseteq Owned
    /\ LateOK /\ LateNotCleared /\ ClearedIsGone

\* The files, and the dialog and the wipe that work on them.
FilesTyped ==
    /\ serverKey \in [Owned -> Key] /\ gone \subseteq Owned
    /\ vaultFile \in Accts /\ marker \in Accts /\ inflight \in Accts
    /\ TaskOK /\ WipeOK /\ mistaken \subseteq Owned

\* While a wipe runs the file is the one of its account or gone.
WipeHolds == wipe # NoWipe => /\ vaultFile \in {NoAcct, wipe.acct}
                              /\ wipe.gone => vaultFile = NoAcct

\* Only erased accounts are wiped, now or after a restart, and those an answer
\* about another account was taken for.
OnlyErased ==
    /\ wipe # NoWipe => wipe.acct \in gone \cup mistaken
    /\ marker # NoAcct => marker \in gone \cup mistaken

\* The process, and what is counted.
ProcTyped ==
    /\ proc \in [up : BOOLEAN, key : Key, cached : [acct : Accts, key : Key], readFailed : BOOLEAN]
    /\ fileKey \in Key /\ keys \in Key /\ crashes \in 0..MaxCrashes /\ sheets \subseteq Owned

LocalInv == ChainInv /\ FilesTyped /\ WipeHolds /\ OnlyErased /\ ProcTyped

-----------------------------------------------------------------------------
(* The keychain                                                            *)

LEMMA KeyZero == 0 \in Key
BY DEF Key

\* A call that finishes, whenever it does, brings back no entry reported gone.
LEMMA EffectChain ==
    ASSUME ChainInv, late # NoCall
    PROVE  /\ Effect(late, keychain) \in [Owned -> Key]
           /\ \A a \in cleared : Effect(late, keychain)[a] = 0
<1>1. late \in [op : {"set", "delete"}, acct : Owned, key : Key]
  BY DEF ChainInv, LateOK
<1>2. CASE late.op = "set"
  BY <1>1, <1>2 DEF ChainInv, LateNotCleared, ClearedIsGone, Effect
<1>3. CASE late.op = "delete"
  BY <1>1, <1>3, KeyZero DEF ChainInv, ClearedIsGone, Effect
<1> QED
  BY <1>1, <1>2, <1>3

LEMMA SetChain ==
    ASSUME ChainInv, NEW a \in Owned, NEW k \in Key, NEW set \in Sets, NEW read, NEW written,
           SetSecretKey(a, k, set, read, written)
    PROVE  ChainInv'
<1> DEFINE call == [op |-> "set", acct |-> a, key |-> k]
<1>1. call \in [op : {"set", "delete"}, acct : Owned, key : Key] /\ call.op = "set" /\ call.acct = a
  OBVIOUS
<1>2. Effect(call, keychain) = [keychain EXCEPT ![a] = k]
  BY DEF Effect
<1>3. cleared' = cleared \ {a}
  BY DEF SetSecretKey
<1>4. CASE set = "done"
  <2>1. keychain' = [keychain EXCEPT ![a] = k] /\ late' = late
    BY <1>2, <1>4 DEF SetSecretKey, Called
  <2> QED
    BY <1>3, <2>1 DEF ChainInv, LateOK, LateNotCleared, ClearedIsGone
<1>5. CASE set = "late"
  <2>1. keychain' = keychain /\ late' = call
    BY <1>5 DEF SetSecretKey, Called
  <2>2. LateOK' /\ LateNotCleared'
    BY <1>1, <1>3, <2>1 DEF LateOK, LateNotCleared
  <2> QED
    BY <1>3, <2>1, <2>2 DEF ChainInv, ClearedIsGone
<1>6. CASE set \in {"lie", "refused"}
  <2>1. keychain' = keychain /\ late' = late
    BY <1>6 DEF SetSecretKey, Called
  <2> QED
    BY <1>3, <2>1 DEF ChainInv, LateOK, LateNotCleared, ClearedIsGone
<1> QED
  BY <1>4, <1>5, <1>6 DEF Sets

LEMMA ForgetChain ==
    ASSUME ChainInv, NEW a \in Owned, NEW outcome \in Forgets, NEW waited \in BOOLEAN,
           NEW written, ForgetKeys(a, outcome, waited, written)
    PROVE  ChainInv'
<1> DEFINE chain == IF waited THEN Effect(late, keychain) ELSE keychain
           call == [op |-> "delete", acct |-> a, key |-> 0]
<1>1. chain \in [Owned -> Key] /\ \A b \in cleared : chain[b] = 0
  <2>1. CASE waited
    BY <2>1, EffectChain DEF ForgetKeys
  <2>2. CASE ~waited
    BY <2>2 DEF ChainInv, ClearedIsGone
  <2> QED
    BY <2>1, <2>2
<1>2. /\ keychain' = IF outcome = "done" THEN [chain EXCEPT ![a] = 0] ELSE chain
      /\ late' = IF outcome = "late" THEN call ELSE IF waited THEN NoCall ELSE late
      /\ cleared' = IF outcome = "done" THEN cleared \cup {a} ELSE cleared
      /\ outcome # "refused" => waited \/ late = NoCall
  BY DEF ForgetKeys, Free
<1>3. call \in [op : {"set", "delete"}, acct : Owned, key : Key] /\ call.op = "delete"
  BY KeyZero
<1>4. NoCall.op = "none"
  BY DEF NoCall
<1>5. cleared \subseteq Owned /\ LateOK /\ LateNotCleared
  BY DEF ChainInv
<1> HIDE DEF chain, call
<1>6. CASE outcome = "done"
  <2>1. keychain' \in [Owned -> Key] /\ \A b \in cleared' : keychain'[b] = 0
    BY <1>1, <1>2, <1>5, <1>6, KeyZero
  <2>2. late' = NoCall
    BY <1>2, <1>6
  <2> QED
    BY <1>2, <1>4, <1>5, <1>6, <2>1, <2>2 DEF ChainInv, LateOK, LateNotCleared, ClearedIsGone
<1>7. CASE outcome = "late"
  BY <1>1, <1>2, <1>3, <1>5, <1>7 DEF ChainInv, LateOK, LateNotCleared, ClearedIsGone
<1>8. CASE outcome = "refused"
  BY <1>1, <1>2, <1>4, <1>5, <1>8 DEF ChainInv, LateOK, LateNotCleared, ClearedIsGone
<1> QED
  BY <1>6, <1>7, <1>8 DEF Forgets

LEMMA ChainNext == ASSUME LocalInv, [LocalNext]_localVars PROVE ChainInv'
<1> USE DEF LocalInv
<1>1. CASE UNCHANGED <<keychain, late, cleared>>
  BY <1>1 DEF ChainInv, LateOK, LateNotCleared, ClearedIsGone
<1>2. ASSUME NEW a \in Owned, ActivateStart(a)
      PROVE  ChainInv'
  <2>1. keys + 1 \in Key
    BY <1>2 DEF ActivateStart, ProcTyped, Key
  <2> QED
    BY <1>2, <2>1, SetChain DEF ActivateStart
<1>3. CASE StoreKey
  <2>1. task.acct \in Owned /\ task.key \in Key
    BY <1>3 DEF StoreKey, FilesTyped, TaskOK, NoTask
  <2> QED
    BY <1>3, <2>1, SetChain DEF StoreKey
<1>4. CASE ForgetRemoved
  <2>1. task.acct \in Owned
    BY <1>4 DEF ForgetRemoved, FilesTyped, TaskOK, NoTask
  <2> QED
    BY <1>4, <2>1, ForgetChain DEF ForgetRemoved
<1>5. CASE WipeForgets
  <2>1. wipe.acct \in Owned
    BY <1>5 DEF WipeForgets, FilesTyped, WipeOK, NoWipe
  <2> QED
    BY <1>5, <2>1, ForgetChain DEF WipeForgets
<1>6. CASE LateCallEnds
  <2>1. keychain' = Effect(late, keychain) /\ late' = NoCall /\ cleared' = cleared /\ late # NoCall
    BY <1>6 DEF LateCallEnds
  <2> QED
    BY <2>1, EffectChain DEF ChainInv, LateOK, LateNotCleared, ClearedIsGone, NoCall
<1>7. ASSUME NEW b \in BOOLEAN, Crash(b)
      PROVE  ChainInv'
  <2>1. late' = NoCall /\ cleared' = cleared /\ keychain' = IF b THEN Effect(late, keychain) ELSE keychain
    BY <1>7 DEF Crash
  <2>2. late = NoCall => Effect(late, keychain) = keychain
    BY DEF Effect, NoCall
  <2>3. keychain' \in [Owned -> Key] /\ \A a \in cleared : keychain'[a] = 0
    BY <2>1, <2>2, EffectChain DEF ChainInv, ClearedIsGone
  <2> QED
    BY <2>1, <2>3 DEF ChainInv, LateOK, LateNotCleared, ClearedIsGone, NoCall
<1> QED
  BY <1>1, <1>2, <1>3, <1>4, <1>5, <1>6, <1>7
  DEF LocalNext, Dialogs, localVars, keyVars, diskVars, serverVars, SignIn, UnlockTyped, Migrate, RemoveDevice,
      DeleteAccount, DeletedElsewhere, SyncStarts, Activated, CreateVault, SyncAnswered,
      WipeMarks, WipeRemovesFile, WipeEnds, Start

-----------------------------------------------------------------------------
(* The files, the dialog and the wipe                                      *)

\* What starts a wipe starts it for the vault that is here, or for none.
LEMMA WipeStarts ==
    ASSUME NEW a \in Owned, StartWipe(a)
    PROVE  WipeOK' /\ wipe' # NoWipe /\ wipe'.acct = a /\ wipe'.gone = FALSE
<1>1. wipe' = [pc |-> "mark", acct |-> a, gone |-> FALSE]
  BY DEF StartWipe
<1>2. wipe' \in [pc : {"mark", "remove", "forget", "end"}, acct : Owned, gone : BOOLEAN]
  BY <1>1
<1>3. wipe'.pc # NoWipe.pc
  BY <1>1 DEF NoWipe
<1> QED
  BY <1>1, <1>2, <1>3 DEF WipeOK

LEMMA NewTask ==
    ASSUME NEW a \in Owned, NEW k \in Key, NEW pc \in {"activating", "create", "store", "forget"},
           task' = [pc |-> pc, acct |-> a, key |-> k]
    PROVE  TaskOK' /\ task'.pc = pc
BY DEF TaskOK

LEMMA TaskHolds ==
    ASSUME TaskOK, task.pc \in {"activating", "create", "store", "forget"}
    PROVE  task.acct \in Owned /\ task.key \in Key
BY DEF TaskOK, NoTask

LEMMA WipeRuns ==
    ASSUME WipeOK, wipe.pc \in {"mark", "remove", "forget", "end"}
    PROVE  /\ wipe # NoWipe
           /\ wipe \in [pc : {"mark", "remove", "forget", "end"}, acct : Owned, gone : BOOLEAN]
BY DEF WipeOK, NoWipe

\* What a step of the local copy leaves: its types, the wipe's hold on the
\* file, the marker of a vault that is still here, and the wipe of erased and
\* mistaken accounts only.
FilesKept ==
    /\ FilesTyped' /\ WipeHolds'
    /\ \A a \in Owned : marker = a /\ vaultFile = a => (marker' = a \/ vaultFile' # a)
    /\ OnlyErased'
    /\ vaultFile' # vaultFile /\ wipe.pc = "remove"
         => vaultFile = wipe.acct /\ vaultFile \in gone \cup mistaken

LEMMA DialogFiles ==
    ASSUME LocalInv, NEW a \in Owned, Dialogs(a)
    PROVE  FilesKept
<1> USE DEF LocalInv, FilesTyped
<1>1. a # NoAcct /\ a \in Accts /\ NoAcct \in Accts
  BY DEF Accts
<1>2. NoTask.pc = "idle" /\ TaskOK /\ NoWipe.pc = "none"
  BY DEF NoTask, NoWipe
<1>3. CASE ActivateStart(a)
  <2>1. keys + 1 \in Key
    BY <1>3 DEF ActivateStart, ProcTyped, Key
  <2>2. /\ task' = NoTask \/ task' = [pc |-> "activating", acct |-> a, key |-> keys + 1]
        /\ wipe = NoWipe /\ wipe' = wipe /\ vaultFile = NoAcct /\ vaultFile' = vaultFile
        /\ UNCHANGED <<serverKey, gone, marker, inflight, mistaken>>
    BY <1>3 DEF ActivateStart, CanSetUp, CanAct, serverVars, diskVars
  <2>3. TaskOK'
    BY <1>1, <1>2, <2>1, <2>2, NewTask DEF TaskOK
  <2> QED
    BY <1>1, <1>2, <2>2, <2>3 DEF FilesKept, WipeOK, WipeHolds, OnlyErased
<1>4. ASSUME NEW typed, NEW answers, SignIn(a, typed, answers)
      PROVE  FilesKept
  <2>1. serverKey[a] \in Key
    OBVIOUS
  <2>2. /\ task' = [pc |-> "store", acct |-> a, key |-> serverKey[a]]
        /\ wipe = NoWipe /\ wipe' = wipe /\ vaultFile = NoAcct /\ vaultFile' = a
        /\ UNCHANGED <<serverKey, gone, marker, inflight, mistaken>>
    BY <1>4 DEF SignIn, CanSetUp, CanAct, serverVars
  <2>3. TaskOK' /\ task'.pc = "store"
    BY <2>1, <2>2, NewTask
  <2> QED
    BY <1>1, <1>2, <2>2, <2>3 DEF FilesKept, WipeOK, WipeHolds, OnlyErased
<1>5. ASSUME NEW k \in Key, CanAct, task' = [pc |-> "store", acct |-> a, key |-> k],
             UNCHANGED <<serverVars, diskVars, wipe, inflight, mistaken>>
      PROVE  FilesKept
  <2>1. TaskOK' /\ task'.pc = "store"
    BY <1>5, NewTask
  <2> QED
    BY <1>1, <1>2, <1>5, <2>1 DEF FilesKept, CanAct, serverVars, diskVars, WipeOK, WipeHolds, OnlyErased
<1>6. ASSUME NEW answers, UnlockTyped(a, answers)
      PROVE  FilesKept
  <2>1. serverKey[a] \in Key
    OBVIOUS
  <2> QED
    BY <1>5, <1>6, <2>1 DEF UnlockTyped
<1>7. CASE Migrate(a)
  <2>1. proc.key \in Key
    BY DEF ProcTyped
  <2> QED
    BY <1>5, <1>7, <2>1 DEF Migrate
<1>8. ASSUME NEW moves, RemoveDevice(a, moves)
      PROVE  FilesKept
  <2>1. /\ \/ task' = NoTask /\ vaultFile' = vaultFile
           \/ task' = [pc |-> "forget", acct |-> a, key |-> 0] /\ vaultFile' = NoAcct
        /\ wipe = NoWipe /\ wipe' = wipe
        /\ UNCHANGED <<serverKey, gone, marker, inflight, mistaken>>
    BY <1>8 DEF RemoveDevice, CanAct, serverVars
  <2>2. TaskOK' /\ task'.pc \in {"idle", "forget"}
    BY <1>2, <2>1, NewTask, KeyZero DEF TaskOK
  <2> QED
    BY <1>1, <1>2, <2>1, <2>2 DEF FilesKept, WipeOK, WipeHolds, OnlyErased
<1>9. ASSUME NEW arrives, NEW told, DeleteAccount(a, arrives, told)
      PROVE  FilesKept
  <2>1. /\ gone' = IF arrives THEN gone \cup {a} ELSE gone
        /\ IF arrives /\ told THEN StartWipe(a) ELSE UNCHANGED wipe
        /\ wipe = NoWipe /\ vaultFile = a /\ task = NoTask
        /\ UNCHANGED <<serverKey, vaultFile, marker, task, inflight, mistaken>>
    BY <1>9 DEF DeleteAccount, CanAct, diskVars
  <2>2. CASE arrives /\ told
    <3>1. WipeOK' /\ wipe'.acct = a /\ wipe'.gone = FALSE
      BY <2>1, <2>2, WipeStarts
    <3> QED
      BY <1>1, <1>2, <2>1, <2>2, <3>1 DEF FilesKept, TaskOK, WipeHolds, OnlyErased
  <2>3. CASE ~(arrives /\ told)
    BY <1>1, <1>2, <2>1, <2>3 DEF FilesKept, TaskOK, WipeOK, WipeHolds, OnlyErased
  <2> QED
    BY <2>2, <2>3
<1> QED
  BY <1>3, <1>4, <1>6, <1>7, <1>8, <1>9 DEF Dialogs

LEMMA SetUpFiles ==
    ASSUME LocalInv, CreateVault \/ StoreKey \/ ForgetRemoved
                     \/ \E arrives, told \in BOOLEAN : Activated(arrives, told)
    PROVE  FilesKept
<1> USE DEF LocalInv, FilesTyped
<1>1. NoTask.pc = "idle" /\ NoAcct \in Accts /\ Owned \subseteq Accts /\ TaskOK
  BY DEF NoTask, Accts
<1>2. CASE CreateVault
  <2>1. task.acct \in Owned
    BY <1>1, <1>2, TaskHolds DEF CreateVault
  <2>2. /\ task.pc = "create" /\ wipe = NoWipe /\ task' = NoTask
        /\ vaultFile' = IF vaultFile = NoAcct THEN task.acct ELSE vaultFile
        /\ UNCHANGED <<serverKey, gone, marker, wipe, inflight, mistaken>>
    BY <1>2 DEF CreateVault, serverVars
  <2> QED
    BY <1>1, <2>1, <2>2 DEF FilesKept, TaskOK, WipeOK, WipeHolds, OnlyErased, NoWipe
<1>3. CASE StoreKey \/ ForgetRemoved
  <2>1. task' = NoTask /\ UNCHANGED <<serverVars, diskVars, wipe, inflight, mistaken>>
    BY <1>3 DEF StoreKey, ForgetRemoved
  <2> QED
    BY <1>1, <2>1 DEF FilesKept, TaskOK, WipeOK, WipeHolds, OnlyErased, serverVars, diskVars
<1>4. ASSUME NEW arrives \in BOOLEAN, NEW told \in BOOLEAN, Activated(arrives, told)
      PROVE  FilesKept
  <2>1. task.acct \in Owned /\ task.key \in Key /\ task.pc = "activating"
    BY <1>1, <1>4, TaskHolds DEF Activated
  <2>2. serverKey' \in [Owned -> Key]
    BY <1>4, <2>1 DEF Activated
  <2>3. TaskOK' /\ task'.pc \in {"idle", "create"}
    BY <1>1, <1>4, <2>1 DEF Activated, TaskOK, NoTask
  <2>4. UNCHANGED <<gone, vaultFile, marker, wipe, inflight, mistaken>>
    BY <1>4 DEF Activated, diskVars
  <2> QED
    BY <1>1, <2>1, <2>2, <2>3, <2>4 DEF FilesKept, WipeOK, WipeHolds, OnlyErased
<1> QED
  BY <1>2, <1>3, <1>4

LEMMA SyncFiles ==
    ASSUME LocalInv, SyncAnswered \/ LateCallEnds
                     \/ \E a \in Owned : DeletedElsewhere(a) \/ SyncStarts(a)
    PROVE  FilesKept
<1> USE DEF LocalInv, FilesTyped
<1>1. NoAcct \in Accts /\ Owned \subseteq Accts /\ NoWipe.pc = "none"
  BY DEF Accts, NoWipe
<1>2. CASE SyncAnswered
  <2>1. /\ inflight # NoAcct /\ wipe = NoWipe /\ inflight' = NoAcct
        /\ UNCHANGED <<serverKey, gone, vaultFile, marker, task>>
    BY <1>2 DEF SyncAnswered, serverVars, diskVars
  <2>2. mistaken' = IF inflight \in gone /\ vaultFile # NoAcct /\ vaultFile # inflight
                      THEN mistaken \cup {vaultFile} ELSE mistaken
    BY <1>2 DEF SyncAnswered
  <2>3. CASE inflight \in gone /\ vaultFile # NoAcct
    <3>1. StartWipe(vaultFile) /\ vaultFile \in Owned
      BY <1>2, <2>3 DEF SyncAnswered, Accts
    <3>2. WipeOK' /\ wipe'.acct = vaultFile /\ wipe'.gone = FALSE
      BY <3>1, WipeStarts
    <3> QED
      BY <1>1, <2>1, <2>3, <2>2, <3>1, <3>2 DEF FilesKept, TaskOK, WipeHolds, OnlyErased
  <2>4. CASE ~(inflight \in gone /\ vaultFile # NoAcct)
    <3>1. wipe' = wipe
      BY <1>2, <2>4 DEF SyncAnswered
    <3> QED
      BY <1>1, <2>1, <2>4, <2>2, <3>1 DEF FilesKept, TaskOK, WipeOK, WipeHolds, OnlyErased
  <2> QED
    BY <2>3, <2>4
<1>3. CASE LateCallEnds
  BY <1>1, <1>3 DEF LateCallEnds, FilesKept, TaskOK, WipeOK, WipeHolds, OnlyErased, serverVars, diskVars
<1>4. ASSUME NEW a \in Owned, DeletedElsewhere(a)
      PROVE  FilesKept
  BY <1>1, <1>4 DEF DeletedElsewhere, FilesKept, TaskOK, WipeOK, WipeHolds, OnlyErased, diskVars
<1>5. ASSUME NEW a \in Owned, SyncStarts(a)
      PROVE  FilesKept
  BY <1>1, <1>5 DEF SyncStarts, FilesKept, TaskOK, WipeOK, WipeHolds, OnlyErased, serverVars, diskVars
<1> QED
  BY <1>2, <1>3, <1>4, <1>5

LEMMA WipeFiles ==
    ASSUME LocalInv, WipeForgets \/ \E b \in BOOLEAN : WipeMarks(b) \/ WipeRemovesFile(b) \/ WipeEnds(b)
    PROVE  FilesKept
<1> USE DEF LocalInv, FilesTyped
<1> DEFINE Wipes == [pc : {"mark", "remove", "forget", "end"}, acct : Owned, gone : BOOLEAN]
<1>1. NoAcct \in Accts /\ Owned \subseteq Accts /\ WipeOK
  BY DEF Accts
<1>2. ASSUME NEW b \in BOOLEAN, WipeMarks(b)
      PROVE  FilesKept
  <2>1. wipe # NoWipe /\ wipe \in Wipes
    BY <1>1, <1>2, WipeRuns DEF WipeMarks
  <2>2. /\ marker' = IF b THEN wipe.acct ELSE marker
        /\ wipe' = [wipe EXCEPT !.pc = "remove"] /\ wipe.pc = "mark"
        /\ UNCHANGED <<serverKey, gone, vaultFile, task, inflight, mistaken>>
    BY <1>2 DEF WipeMarks, serverVars
  <2>3. wipe' \in Wipes /\ wipe'.acct = wipe.acct /\ wipe'.gone = wipe.gone
    BY <2>1, <2>2
  <2> QED
    BY <1>1, <2>1, <2>2, <2>3 DEF FilesKept, TaskOK, WipeOK, WipeHolds, OnlyErased
<1>3. ASSUME NEW b \in BOOLEAN, WipeRemovesFile(b)
      PROVE  FilesKept
  <2>1. wipe # NoWipe /\ wipe \in Wipes
    BY <1>1, <1>3, WipeRuns DEF WipeRemovesFile
  <2>2. /\ vaultFile' = IF b THEN NoAcct ELSE vaultFile
        /\ wipe' = [wipe EXCEPT !.pc = "forget", !.gone = b]
        /\ UNCHANGED <<serverKey, gone, marker, task, inflight, mistaken>>
    BY <1>3 DEF WipeRemovesFile, serverVars
  <2>3. wipe' \in Wipes /\ wipe'.acct = wipe.acct /\ wipe'.gone = b
    BY <2>1, <2>2
  <2> QED
    BY <1>1, <2>1, <2>2, <2>3 DEF FilesKept, TaskOK, WipeOK, WipeHolds, OnlyErased
<1>4. CASE WipeForgets
  <2>1. wipe # NoWipe /\ wipe \in Wipes
    BY <1>1, <1>4, WipeRuns DEF WipeForgets
  <2>2. /\ wipe' = [wipe EXCEPT !.pc = "end"] /\ wipe.pc = "forget"
        /\ UNCHANGED <<serverKey, gone, vaultFile, marker, task, inflight, mistaken>>
    BY <1>4 DEF WipeForgets, serverVars, diskVars
  <2>3. wipe' \in Wipes /\ wipe'.acct = wipe.acct /\ wipe'.gone = wipe.gone
    BY <2>1, <2>2
  <2> QED
    BY <1>1, <2>1, <2>2, <2>3 DEF FilesKept, TaskOK, WipeOK, WipeHolds, OnlyErased
<1>5. ASSUME NEW b \in BOOLEAN, WipeEnds(b)
      PROVE  FilesKept
  <2>1. wipe # NoWipe /\ wipe \in Wipes
    BY <1>1, <1>5, WipeRuns DEF WipeEnds
  <2>2. /\ wipe' = NoWipe /\ wipe.pc = "end"
        /\ marker' # marker => marker' = NoAcct /\ wipe.gone
        /\ UNCHANGED <<serverKey, gone, vaultFile, task, inflight, mistaken>>
    BY <1>5 DEF WipeEnds, MarkerAfter, serverVars
  <2> QED
    BY <1>1, <2>1, <2>2 DEF FilesKept, TaskOK, WipeOK, WipeHolds, OnlyErased
<1> QED
  BY <1>2, <1>3, <1>4, <1>5

LEMMA RestartFiles ==
    ASSUME LocalInv, \E b \in BOOLEAN : Crash(b) \/ Start(b)
    PROVE  FilesKept
<1> USE DEF LocalInv, FilesTyped
<1>1. NoAcct \in Accts /\ Owned \subseteq Accts /\ NoTask.pc = "idle"
  BY DEF Accts, NoTask
<1>2. ASSUME NEW b \in BOOLEAN, Crash(b)
      PROVE  FilesKept
  BY <1>1, <1>2 DEF Crash, FilesKept, TaskOK, WipeOK, WipeHolds, OnlyErased, serverVars, diskVars
<1>3. ASSUME NEW b \in BOOLEAN, Start(b)
      PROVE  FilesKept
  <2>1. UNCHANGED <<serverKey, gone, vaultFile, task, inflight, mistaken>>
    BY <1>3 DEF Start, serverVars
  <2>2. CASE Finishes
    <3>1. /\ StartWipe(marker) /\ marker' = marker /\ marker \in Owned
          /\ vaultFile \in {NoAcct, marker} /\ marker # NoAcct
      BY <1>3, <2>2 DEF Start, Finishes, Accts
    <3>2. WipeOK' /\ wipe'.acct = marker /\ wipe'.gone = FALSE
      BY <3>1, WipeStarts
    <3> QED
      BY <1>1, <2>1, <3>1, <3>2 DEF FilesKept, TaskOK, WipeHolds, OnlyErased
  <2>3. CASE ~Finishes
    <3>1. marker' = NoAcct /\ wipe' = wipe
      BY <1>3, <2>3 DEF Start
    <3> QED
      BY <1>1, <2>1, <2>3, <3>1 DEF FilesKept, TaskOK, WipeOK, WipeHolds, OnlyErased, Finishes
  <2> QED
    BY <2>2, <2>3
<1> QED
  BY <1>2, <1>3

LEMMA FilesNext == ASSUME LocalInv, [LocalNext]_localVars PROVE FilesKept
<1>1. CASE LocalNext
  BY <1>1, DialogFiles, SetUpFiles, SyncFiles, WipeFiles, RestartFiles DEF LocalNext
<1>2. CASE UNCHANGED localVars
  BY <1>2 DEF localVars, serverVars, diskVars, LocalInv, FilesTyped, FilesKept, TaskOK, WipeOK,
              WipeHolds, OnlyErased
<1> QED
  BY <1>1, <1>2

-----------------------------------------------------------------------------
(* The process, and the theorems about the local copy                      *)

Procs == [up : BOOLEAN, key : Key, cached : [acct : Accts, key : Key], readFailed : BOOLEAN]

LEMMA NoCachedType == NoCached \in [acct : Accts, key : Key]
BY KeyZero DEF NoCached, Accts

LEMMA SetProc ==
    ASSUME proc \in Procs, fileKey \in Key, NEW a \in Owned, NEW k \in Key, NEW set, NEW read,
           NEW written, SetSecretKey(a, k, set, read, written)
    PROVE  proc' \in Procs /\ fileKey' \in Key
<1>1. \A c \in [acct : Accts, key : Key], n \in Key :
         /\ [proc EXCEPT !.key = n, !.cached = c] \in Procs
         /\ [proc EXCEPT !.cached = c] \in Procs
  BY DEF Procs
<1>2. [acct |-> a, key |-> k] \in [acct : Accts, key : Key]
  BY DEF Accts
<1> DEFINE kept == IF InKeychain(set, read) THEN 0 ELSE k
<1>3. kept \in Key
  BY KeyZero
<1>4. \/ fileKey' = kept /\ proc' = [proc EXCEPT !.key = kept, !.cached = [acct |-> a, key |-> k]]
      \/ fileKey' = fileKey /\ proc' = [proc EXCEPT !.cached = NoCached]
  BY DEF SetSecretKey
<1> HIDE DEF kept
<1> QED
  BY <1>1, <1>2, <1>3, <1>4, NoCachedType

LEMMA ForgetProc ==
    ASSUME proc \in Procs, fileKey \in Key, NEW a, NEW outcome, NEW waited, NEW written,
           ForgetKeys(a, outcome, waited, written)
    PROVE  proc' \in Procs /\ fileKey' \in Key
<1>1. \A c \in [acct : Accts, key : Key], n \in Key :
         [proc EXCEPT !.key = n, !.cached = c] \in Procs
  BY DEF Procs
<1>2. proc' = [proc EXCEPT !.key = 0, !.cached = NoCached] /\ fileKey' \in {0, fileKey}
  BY DEF ForgetKeys
<1> QED
  BY <1>1, <1>2, NoCachedType, KeyZero

LEMMA ProcNext == ASSUME LocalInv, [LocalNext]_localVars PROVE ProcTyped'
<1> USE DEF LocalInv
<1>0. proc \in Procs /\ fileKey \in Key /\ keys \in Key /\ crashes \in 0..MaxCrashes /\ sheets \subseteq Owned
  BY DEF ProcTyped, Procs
<1>1. SUFFICES proc' \in Procs /\ fileKey' \in Key /\ keys' \in Key /\ crashes' \in 0..MaxCrashes
               /\ sheets' \subseteq Owned
  BY DEF ProcTyped, Procs
<1>2. CASE UNCHANGED <<proc, fileKey, keys, crashes, sheets>>
  BY <1>0, <1>2
<1>3. ASSUME NEW a \in Owned, ActivateStart(a)
      PROVE  /\ proc' \in Procs /\ fileKey' \in Key /\ keys' \in Key
             /\ crashes' \in 0..MaxCrashes /\ sheets' \subseteq Owned
  <2>1. keys + 1 \in Key
    BY <1>0, <1>3 DEF ActivateStart, Key
  <2>2. keys' = keys + 1 /\ crashes' = crashes /\ sheets' = sheets
    BY <1>3 DEF ActivateStart
  <2>3. \E set \in Sets, read \in Reads, written \in BOOLEAN : SetSecretKey(a, keys + 1, set, read, written)
    BY <1>3 DEF ActivateStart
  <2> QED
    BY <1>0, <2>1, <2>2, <2>3, SetProc
<1>4. CASE StoreKey
  <2>1. task.acct \in Owned /\ task.key \in Key
    BY <1>4, TaskHolds DEF StoreKey, FilesTyped
  <2>2. keys' = keys /\ crashes' = crashes /\ sheets' = sheets
    BY <1>4 DEF StoreKey
  <2> QED
    BY <1>0, <1>4, <2>1, <2>2, SetProc DEF StoreKey
<1>5. CASE ForgetRemoved \/ WipeForgets
  <2>1. keys' = keys /\ crashes' = crashes /\ sheets' = sheets
    BY <1>5 DEF ForgetRemoved, WipeForgets
  <2>2. \E a, outcome, waited, written : ForgetKeys(a, outcome, waited, written)
    BY <1>5 DEF ForgetRemoved, WipeForgets
  <2> QED
    BY <1>0, <2>1, <2>2, ForgetProc
<1>6. CASE CreateVault
  <2>1. task.acct \in Owned
    BY <1>6, TaskHolds DEF CreateVault, FilesTyped
  <2> QED
    BY <1>0, <1>6, <2>1 DEF CreateVault, keyVars
<1>7. ASSUME NEW a \in Owned, NEW typed, NEW answers, SignIn(a, typed, answers)
      PROVE  /\ proc' \in Procs /\ fileKey' \in Key /\ keys' \in Key
             /\ crashes' \in 0..MaxCrashes /\ sheets' \subseteq Owned
  BY <1>0, <1>7 DEF SignIn, keyVars
<1>8. ASSUME NEW b \in BOOLEAN, Crash(b)
      PROVE  /\ proc' \in Procs /\ fileKey' \in Key /\ keys' \in Key
             /\ crashes' \in 0..MaxCrashes /\ sheets' \subseteq Owned
  <2>1. Down \in Procs
    BY KeyZero, NoCachedType DEF Procs, Down
  <2>2. crashes' \in 0..MaxCrashes
    BY <1>0, <1>8 DEF Crash
  <2> QED
    BY <1>0, <1>8, <2>1, <2>2 DEF Crash
<1>9. ASSUME NEW b \in BOOLEAN, Start(b)
      PROVE  /\ proc' \in Procs /\ fileKey' \in Key /\ keys' \in Key
             /\ crashes' \in 0..MaxCrashes /\ sheets' \subseteq Owned
  <2>1. \A k \in Key, f \in BOOLEAN : [up |-> TRUE, key |-> k, cached |-> NoCached, readFailed |-> f] \in Procs
    BY NoCachedType DEF Procs
  <2>2. (IF b THEN fileKey ELSE 0) \in Key
    BY <1>0, KeyZero
  <2>5. (~b) \in BOOLEAN
    OBVIOUS
  <2>3. proc' = [up |-> TRUE, key |-> IF b THEN fileKey ELSE 0, cached |-> NoCached, readFailed |-> ~b]
    BY <1>9 DEF Start
  <2>4. proc' \in Procs
    BY <2>1, <2>2, <2>3, <2>5, Zenon
  <2> QED
    BY <1>0, <1>9, <2>4 DEF Start
<1> QED
  BY <1>2, <1>3, <1>4, <1>5, <1>6, <1>7, <1>8, <1>9
  DEF LocalNext, Dialogs, localVars, keyVars, UnlockTyped, Migrate, RemoveDevice, DeleteAccount,
      DeletedElsewhere, SyncStarts, Activated, SyncAnswered, LateCallEnds, WipeMarks,
      WipeRemovesFile, WipeEnds

LEMMA LocalInitInv == LocalInit => LocalInv
<1> SUFFICES ASSUME LocalInit PROVE LocalInv
  OBVIOUS
<1>1. ChainInv
  BY KeyZero DEF LocalInit, ChainInv, LateOK, LateNotCleared, ClearedIsGone, NoCall
<1>2. FilesTyped /\ WipeHolds /\ OnlyErased
  BY KeyZero DEF LocalInit, FilesTyped, WipeHolds, OnlyErased, TaskOK, WipeOK, NoTask, NoWipe, Accts
<1>3. proc \in Procs
  <2>1. Down \in Procs
    BY KeyZero, NoCachedType DEF Procs, Down
  <2>2. \A b \in BOOLEAN : [Down EXCEPT !.up = b] \in Procs
    BY <2>1 DEF Procs
  <2> QED
    BY <2>2, Zenon DEF LocalInit
<1>4. ProcTyped
  BY <1>3, KeyZero DEF LocalInit, ProcTyped, Procs
<1> QED
  BY <1>1, <1>2, <1>4 DEF LocalInv

LEMMA LocalStep == ASSUME LocalInv, [LocalNext]_localVars PROVE LocalInv'
BY ChainNext, FilesNext, ProcNext DEF LocalInv, FilesKept

LEMMA LocalTyped == LocalInv => LocalTypeOK
<1> SUFFICES ASSUME LocalInv PROVE LocalTypeOK
  OBVIOUS
<1>1. late \in [op : {"none", "set", "delete"}, acct : Accts, key : Key]
  BY KeyZero DEF LocalInv, ChainInv, LateOK, NoCall, Accts
<1>2. task \in [pc : {"idle", "activating", "create", "store", "forget"}, acct : Accts, key : Key]
  BY KeyZero DEF LocalInv, FilesTyped, TaskOK, NoTask, Accts
<1>3. wipe \in [pc : {"none", "mark", "remove", "forget", "end"}, acct : Accts, gone : BOOLEAN]
  <2>1. NoWipe \in [pc : {"none", "mark", "remove", "forget", "end"}, acct : Accts, gone : BOOLEAN]
    BY DEF NoWipe, Accts
  <2> QED
    BY <2>1 DEF LocalInv, FilesTyped, WipeOK, Accts
<1> QED
  BY <1>1, <1>2, <1>3 DEF LocalInv, ChainInv, FilesTyped, ProcTyped, LocalTypeOK

-----------------------------------------------------------------------------
(* The database file: the inductive invariant                               *)

AccountRows == [id : StoreAccounts, floor : Nat]
HeaderRows == [of : StoreAccounts, revision : Nat]

LEMMA NoRowIsNoRow == NoRow \notin AccountRows /\ NoRow \notin HeaderRows
BY StoreAssumption DEF AccountRows, HeaderRows

\* The file is a record of these parts, the single rows of their types.
DiskTyped ==
    /\ disk = [version |-> disk.version, tables |-> disk.tables, account |-> disk.account,
               header |-> disk.header, cache |-> disk.cache]
    /\ disk.version \in 0 .. Current + 1
    /\ disk.account \in AccountRows \cup {NoRow}
    /\ disk.header \in HeaderRows \cup {NoRow}

\* The tables are those of the version the file says it has.
TablesFit == /\ disk.version # 0 => disk.tables = TablesOf(disk.version)
             /\ connected => disk.version = Current

\* An operation between two statements has the account's row it relies on.
JobHolds ==
    \/ storeJob = NoJob
    \/ connected /\ disk.account # NoRow /\ storeJob = [op |-> "create", account |-> disk.account.id]
    \/ connected /\ disk.account # NoRow /\ \E r \in Nat : storeJob = [op |-> "raise", revision |-> r]
    \/ connected /\ storeJob.op = "prune"

HeaderHasAccount == disk.header # NoRow => disk.account # NoRow /\ disk.account.id = disk.header.of

StoreInv == /\ DiskTyped /\ TablesFit /\ JobHolds /\ HeaderHasAccount
            /\ connected \in BOOLEAN /\ storeCrashes \in 0 .. MaxStoreCrashes

\* What a step leaves of a header and of the floor.
HeaderKept ==
    disk.header # NoRow =>
        /\ disk'.header # NoRow /\ disk'.header.revision >= disk.header.revision
        /\ disk.account # NoRow => disk'.account.floor >= disk.account.floor

\* The migrations from a version add exactly what it lacks of this one.
LEMMA Migrated ==
    ASSUME NEW v \in 5 .. 8
    PROVE  TablesOf(v) \cup UNION {AddedBy(w) : w \in StepsFrom(v)} = TablesOf(Current)
<1>1. StepsFrom(v) = v .. 8 /\ Current - 1 = 8
  BY DEF StepsFrom, Current
<1>2. 5 .. 8 = (5 .. v - 1) \cup (v .. 8)
  OBVIOUS
<1> DEFINE U(S) == UNION {AddedBy(w) : w \in S}
<1>3. \A A, B, x : x \in U(A \cup B) <=> x \in U(A) \/ x \in U(B)
  OBVIOUS
<1>4. TablesOf(v) = First \cup U(5 .. v - 1) /\ TablesOf(Current) = First \cup U(5 .. 8)
  BY <1>1 DEF TablesOf
<1> HIDE DEF U
<1>5. TablesOf(v) \cup U(v .. 8) = TablesOf(Current)
  BY <1>2, <1>3, <1>4
<1> QED
  BY <1>1, <1>5 DEF U

LEMMA StoreInitInv == StoreInit => StoreInv
<1> SUFFICES ASSUME StoreInit PROVE StoreInv
  OBVIOUS
<1>1. PICK v \in {0} \cup 4 .. Current + 1, a \in StoreAccounts :
        disk = [version |-> v, tables |-> IF v = 0 THEN {} ELSE TablesOf(v),
                account |-> IF v = 0 THEN NoRow ELSE [id |-> a, floor |-> 1],
                header |-> IF v = 0 THEN NoRow ELSE [of |-> a, revision |-> 1],
                cache |-> <<>>]
  BY DEF StoreInit
<1>2. v \in 0 .. Current + 1
  BY DEF Current
<1>3. [id |-> a, floor |-> 1] \in AccountRows /\ [of |-> a, revision |-> 1] \in HeaderRows
  BY DEF AccountRows, HeaderRows
<1>4. DiskTyped
  BY <1>1, <1>2, <1>3 DEF DiskTyped
<1>5. HeaderHasAccount
  <2>1. CASE v = 0
    BY <1>1, <2>1 DEF HeaderHasAccount
  <2>2. CASE v # 0
    <3>1. disk.account = [id |-> a, floor |-> 1] /\ disk.header = [of |-> a, revision |-> 1]
      BY <1>1, <2>2
    <3> QED
      BY <3>1, <1>3, NoRowIsNoRow DEF HeaderHasAccount
  <2> QED
    BY <2>1, <2>2
<1>6. TablesFit /\ JobHolds
  BY <1>1 DEF TablesFit, JobHolds, StoreInit
<1>7. connected \in BOOLEAN
  BY Zenon DEF StoreInit
<1>8. storeCrashes \in 0 .. MaxStoreCrashes
  BY StoreAssumption DEF StoreInit
<1> QED
  BY <1>4, <1>5, <1>6, <1>7, <1>8 DEF StoreInv

\* A step that leaves the rows and the schema as they were.
LEMMA QuietDisk ==
    ASSUME StoreInv, NEW c, disk' = [disk EXCEPT !.cache = c]
    PROVE  /\ DiskTyped' /\ HeaderHasAccount' /\ HeaderKept
           /\ disk'.version = disk.version /\ disk'.tables = disk.tables
           /\ disk'.account = disk.account /\ disk'.header = disk.header
<1>1. /\ disk'.version = disk.version /\ disk'.tables = disk.tables
      /\ disk'.account = disk.account /\ disk'.header = disk.header /\ disk'.cache = c
      /\ disk' = [version |-> disk.version, tables |-> disk.tables, account |-> disk.account,
                  header |-> disk.header, cache |-> c]
  BY DEF StoreInv, DiskTyped
<1>2. DiskTyped' /\ HeaderHasAccount'
  BY <1>1 DEF StoreInv, DiskTyped, HeaderHasAccount
<1>3. HeaderKept
  BY <1>1 DEF StoreInv, DiskTyped, HeaderKept, AccountRows, HeaderRows
<1> QED
  BY <1>1, <1>2, <1>3

LEMMA OpenInv == ASSUME StoreInv, OpenStore PROVE StoreInv' /\ HeaderKept
<1> DEFINE v == disk.version
           adds == UNION {AddedBy(w) : w \in StepsFrom(v)}
<1>1. ~connected /\ connected' = TRUE /\ storeJob' = storeJob /\ storeCrashes' = storeCrashes
  BY DEF OpenStore
<1>2. \/ v = 0 /\ disk' = [disk EXCEPT !.version = Current, !.tables = TablesOf(Current)]
      \/ v \in 5 .. 8 /\ disk' = [disk EXCEPT !.version = Current, !.tables = @ \cup adds]
      \/ v = Current /\ disk' = disk
  BY DEF OpenStore
<1>3. v \in 5 .. 8 => disk.tables \cup adds = TablesOf(Current)
  BY Migrated DEF StoreInv, TablesFit
<1>4. v = Current => disk.tables = TablesOf(Current)
  BY DEF StoreInv, TablesFit, Current
<1> HIDE DEF adds
<1>5. disk' = [version |-> Current, tables |-> TablesOf(Current), account |-> disk.account,
               header |-> disk.header, cache |-> disk.cache]
  BY <1>2, <1>3, <1>4 DEF StoreInv, DiskTyped
<1>6. Current \in 0 .. Current + 1
  BY DEF Current
<1>7. DiskTyped' /\ HeaderHasAccount' /\ TablesFit'
  BY <1>5, <1>6 DEF StoreInv, DiskTyped, HeaderHasAccount, TablesFit
<1>8. HeaderKept
  BY <1>5 DEF StoreInv, DiskTyped, HeaderKept, AccountRows, HeaderRows
<1>9. JobHolds'
  BY <1>1 DEF StoreInv, JobHolds
<1>10. connected' \in BOOLEAN
  BY <1>1, Zenon
<1> QED
  BY <1>1, <1>7, <1>8, <1>9, <1>10 DEF StoreInv

LEMMA CrashStoreInv == ASSUME StoreInv, CrashStore PROVE StoreInv' /\ HeaderKept
<1>1. connected' = FALSE /\ storeJob' = NoJob /\ disk' = disk
  BY DEF CrashStore
<1>2. storeCrashes' \in 0 .. MaxStoreCrashes
  BY StoreAssumption DEF CrashStore, StoreInv
<1>3. connected' \in BOOLEAN
  BY <1>1, Zenon
<1>4. HeaderKept
  BY <1>1 DEF StoreInv, DiskTyped, HeaderKept, AccountRows, HeaderRows
<1> QED
  BY <1>1, <1>2, <1>3, <1>4 DEF StoreInv, DiskTyped, TablesFit, JobHolds, HeaderHasAccount

LEMMA WriteAccountInv ==
    ASSUME StoreInv, NEW a \in StoreAccounts, WriteAccount(a) PROVE StoreInv' /\ HeaderKept
<1> DEFINE row == IF disk.account = NoRow THEN [id |-> a, floor |-> 0] ELSE disk.account
<1>1. /\ connected /\ disk.header = NoRow /\ connected' = connected /\ storeCrashes' = storeCrashes
      /\ disk.account # NoRow => disk.account.id = a
      /\ storeJob' = [op |-> "create", account |-> a]
      /\ disk' = [disk EXCEPT !.account = row]
  BY DEF WriteAccount, Ready
<1>2. row \in AccountRows /\ row # NoRow /\ row.id = a
  <2>1. [id |-> a, floor |-> 0] \in AccountRows
    BY DEF AccountRows
  <2> QED
    BY <1>1, <2>1, NoRowIsNoRow DEF StoreInv, DiskTyped
<1> HIDE DEF row
<1>3. disk' = [version |-> disk.version, tables |-> disk.tables, account |-> row,
               header |-> NoRow, cache |-> disk.cache]
  BY <1>1 DEF StoreInv, DiskTyped
<1>4. DiskTyped' /\ HeaderHasAccount' /\ TablesFit' /\ JobHolds'
  BY <1>1, <1>2, <1>3 DEF StoreInv, DiskTyped, HeaderHasAccount, TablesFit, JobHolds
<1> QED
  BY <1>1, <1>4 DEF StoreInv, HeaderKept

LEMMA InsertHeaderInv == ASSUME StoreInv, InsertHeader PROVE StoreInv' /\ HeaderKept
<1>1. /\ disk.account # NoRow /\ storeJob.account = disk.account.id
  BY DEF InsertHeader, StoreInv, JobHolds, NoJob
<1>2. /\ connected' = connected /\ storeCrashes' = storeCrashes /\ storeJob' = NoJob
      /\ disk' = IF disk.header # NoRow THEN disk
                 ELSE [disk EXCEPT !.header = [of |-> storeJob.account, revision |-> 1]]
  BY DEF InsertHeader
<1>3. CASE disk.header # NoRow
  <2>1. HeaderKept
    BY <1>2, <1>3 DEF StoreInv, DiskTyped, HeaderKept, AccountRows, HeaderRows
  <2> QED
    BY <1>2, <1>3, <2>1 DEF StoreInv, DiskTyped, HeaderHasAccount, TablesFit, JobHolds
<1>4. CASE disk.header = NoRow
  <2> DEFINE row == [of |-> storeJob.account, revision |-> 1]
  <2>1. row \in HeaderRows /\ row.of = disk.account.id
    BY <1>1 DEF StoreInv, DiskTyped, AccountRows, HeaderRows
  <2> HIDE DEF row
  <2>2. disk' = [version |-> disk.version, tables |-> disk.tables, account |-> disk.account,
                 header |-> row, cache |-> disk.cache]
    BY <1>2, <1>4 DEF StoreInv, DiskTyped, row
  <2>3. DiskTyped' /\ HeaderHasAccount' /\ TablesFit' /\ JobHolds'
    BY <1>1, <1>2, <2>1, <2>2 DEF StoreInv, DiskTyped, HeaderHasAccount, TablesFit, JobHolds
  <2> QED
    BY <1>2, <1>4, <2>3 DEF StoreInv, HeaderKept
<1> QED
  BY <1>3, <1>4

LEMMA UpdateKeyWrapInv ==
    ASSUME StoreInv, NEW r \in 1 .. MaxRevision, UpdateKeyWrap(r) PROVE StoreInv' /\ HeaderKept
<1>1. /\ connected /\ disk.header # NoRow /\ disk.account # NoRow
      /\ connected' = connected /\ storeCrashes' = storeCrashes
      /\ storeJob' = [op |-> "raise", revision |-> r]
      /\ disk' = [disk EXCEPT !.header.revision = r]
  BY DEF UpdateKeyWrap, Ready
<1>2. disk.header \in HeaderRows /\ disk.account \in AccountRows /\ r \in Nat
  BY <1>1, StoreAssumption DEF StoreInv, DiskTyped
<1>3. r > disk.header.revision
  BY <1>2 DEF UpdateKeyWrap, FloorOf, Greater, HeaderRows, AccountRows
<1> DEFINE row == [disk.header EXCEPT !.revision = r]
<1>4. row \in HeaderRows /\ row.of = disk.header.of /\ row.revision = r
  BY <1>2 DEF HeaderRows
<1>5. disk' = [version |-> disk.version, tables |-> disk.tables, account |-> disk.account,
               header |-> row, cache |-> disk.cache]
  BY <1>1 DEF StoreInv, DiskTyped
<1> HIDE DEF row
<1>6. DiskTyped' /\ HeaderHasAccount' /\ TablesFit' /\ JobHolds'
  BY <1>1, <1>2, <1>4, <1>5 DEF StoreInv, DiskTyped, HeaderHasAccount, TablesFit, JobHolds
<1>7. HeaderKept
  BY <1>2, <1>3, <1>4, <1>5, NoRowIsNoRow DEF HeaderKept, HeaderRows, AccountRows
<1> QED
  BY <1>1, <1>6, <1>7 DEF StoreInv

LEMMA RaiseInv == ASSUME StoreInv, RaiseMaxHeaderRev PROVE StoreInv' /\ HeaderKept
<1>1. disk.account # NoRow /\ storeJob.revision \in Nat
  BY DEF RaiseMaxHeaderRev, StoreInv, JobHolds, NoJob
<1>2. /\ connected' = connected /\ storeCrashes' = storeCrashes /\ storeJob' = NoJob
      /\ disk' = [disk EXCEPT !.account.floor = Greater(@, storeJob.revision)]
  BY DEF RaiseMaxHeaderRev
<1>3. disk.account \in AccountRows
  BY <1>1 DEF StoreInv, DiskTyped
<1> DEFINE row == [disk.account EXCEPT !.floor = Greater(@, storeJob.revision)]
<1>4. row \in AccountRows /\ row.id = disk.account.id /\ row.floor >= disk.account.floor
  BY <1>1, <1>3 DEF AccountRows, Greater
<1>5. disk' = [version |-> disk.version, tables |-> disk.tables, account |-> row,
               header |-> disk.header, cache |-> disk.cache]
  BY <1>2 DEF StoreInv, DiskTyped
<1> HIDE DEF row
<1>6. DiskTyped' /\ HeaderHasAccount' /\ TablesFit' /\ JobHolds'
  BY <1>2, <1>4, <1>5, NoRowIsNoRow DEF StoreInv, DiskTyped, HeaderHasAccount, TablesFit, JobHolds
<1>7. HeaderKept
  BY <1>4, <1>5, NoRowIsNoRow DEF StoreInv, DiskTyped, HeaderKept, HeaderRows, AccountRows
<1> QED
  BY <1>2, <1>6, <1>7 DEF StoreInv

LEMMA CacheInv ==
    ASSUME StoreInv, (\E f \in CachedFiles : UseCached(f)) \/ (\E keep \in SUBSET CachedFiles : PruneOne(keep))
    PROVE  StoreInv' /\ HeaderKept
<1>1. \E c : disk' = [disk EXCEPT !.cache = c]
  BY DEF UseCached, PruneOne
<1>2. connected /\ connected' = connected /\ storeCrashes' = storeCrashes
  BY DEF UseCached, PruneOne, Ready
<1>3. storeJob' = storeJob \/ storeJob' = NoJob \/ storeJob'.op = "prune"
  <2>1. ASSUME NEW keep \in SUBSET CachedFiles, PruneOne(keep)
        PROVE  storeJob' = NoJob \/ storeJob' = [op |-> "prune", keep |-> keep]
    BY <2>1, Zenon DEF PruneOne
  <2>2. (\E f \in CachedFiles : UseCached(f)) => storeJob' = storeJob
    BY DEF UseCached
  <2> QED
    BY <2>1, <2>2
<1> QED
  BY <1>1, <1>2, <1>3, QuietDisk DEF StoreInv, TablesFit, JobHolds

LEMMA StoreStep == ASSUME StoreInv, [StoreNext]_storeVars PROVE StoreInv' /\ HeaderKept
<1>1. CASE StoreNext
  BY <1>1, OpenInv, CrashStoreInv, WriteAccountInv, InsertHeaderInv, UpdateKeyWrapInv, RaiseInv,
     CacheInv DEF StoreNext
<1>2. CASE UNCHANGED storeVars
  <2>1. HeaderKept
    BY <1>2 DEF storeVars, StoreInv, DiskTyped, HeaderKept, AccountRows, HeaderRows
  <2> QED
    BY <1>2, <2>1 DEF storeVars, StoreInv, DiskTyped, HeaderHasAccount, TablesFit, JobHolds
<1> QED
  BY <1>1, <1>2

LEMMA StoreWhole == StoreInv => StoreIsWhole /\ StoreTypeOK
<1>1. StoreInv => StoreIsWhole
  BY DEF StoreInv, TablesFit, HeaderHasAccount, StoreIsWhole, Current
<1>2. StoreInv => StoreTypeOK
  BY DEF StoreInv, DiskTyped, StoreTypeOK
<1> QED
  BY <1>1, <1>2

-----------------------------------------------------------------------------
(* Quick Access: what parses, is stored and comes back                      *)

\* The chords that may be in force: the default one and those that parse.
GoodChords == {DefaultShortcut} \cup {t.chord : t \in {u \in Typed : ParseKeys(u) = "ok"}}

LEMMA ParsedChord ==
    ASSUME NEW t, ParseKeys(t) = "ok"
    PROVE  /\ t.form = "canonical" /\ t.chord.key \in AllowedKeys /\ t.chord \notin Reserved
           /\ t.chord.mods \cap {"Super", "Control", "Alt"} # {}
BY DEF ParseKeys

LEMMA DefaultIsGood ==
    /\ DefaultShortcut.key \in AllowedKeys /\ DefaultShortcut \notin Reserved
    /\ DefaultShortcut.mods \cap {"Super", "Control", "Alt"} # {}
<1>1. DefaultShortcut.key = "Space" /\ DefaultShortcut.mods = {"Control", "Shift"}
  BY DEF DefaultShortcut, Chord
<1>2. DefaultShortcut \notin Reserved
  <2> SUFFICES ASSUME DefaultShortcut \in Reserved PROVE FALSE
    OBVIOUS
  <2>1. \A c \in Reserved : c.key = "Space" => c.mods = {"Super"}
    BY DEF Reserved, Chord
  <2> QED
    BY <1>1, <2>1
<1> QED
  BY <1>1, <1>2 DEF AllowedKeys

\* No chord that may be in force swallows typing or a reserved shortcut.
LEMMA GoodAreSafe ==
    ASSUME NEW c \in GoodChords
    PROVE  /\ c.key \in AllowedKeys /\ c \notin Reserved
           /\ c.mods \cap {"Super", "Control", "Alt"} # {}
BY ParsedChord, DefaultIsGood DEF GoodChords

\* What is stored for a chord in force comes back as that chord.
LEMMA StoredComesBack ==
    ASSUME NEW c \in GoodChords, NEW on
    PROVE  /\ ChordOf(StoredText(on, c)) = c
           /\ StoredText(on, c).on = on
           /\ StoredText(on, c).keys \in Typed \cup {NoKeys}
<1>1. CASE c = DefaultShortcut
  <2>1. StoredText(on, c) = [on |-> on, keys |-> NoKeys]
    BY <1>1 DEF StoredText
  <2>2. NoKeys.form # "canonical"
    BY DEF NoKeys, Text
  <2>3. ParseKeys(NoKeys) # "ok"
    BY <2>2 DEF ParseKeys
  <2> QED
    BY <1>1, <2>1, <2>3 DEF ChordOf
<1>2. CASE c # DefaultShortcut
  <2>1. PICK t \in Typed : ParseKeys(t) = "ok" /\ t.chord = c
    BY <1>2 DEF GoodChords
  <2>2. t = Text(c.mods, c.key, "canonical")
    BY <2>1, ParsedChord, QuickAssumption
  <2>3. StoredText(on, c) = [on |-> on, keys |-> t]
    BY <1>2, <2>2 DEF StoredText
  <2> QED
    BY <2>1, <2>3 DEF ChordOf
<1> QED
  BY <1>1, <1>2

LEMMA LoadedIsGood ==
    ASSUME NEW s, s.keys \in Typed \cup {NoKeys}
    PROVE  ChordOf(s) \in GoodChords
<1>1. ParseKeys(NoKeys) # "ok"
  BY DEF ParseKeys, NoKeys, Text
<1> QED
  BY <1>1 DEF ChordOf, GoodChords

-----------------------------------------------------------------------------
(* Quick Access: the inductive invariant                                    *)

RegTyped ==
    /\ reg = [enabled |-> reg.enabled, shortcut |-> reg.shortcut,
              registered |-> reg.registered, inUse |-> reg.inUse]
    /\ reg.shortcut \in GoodChords
    /\ reg.enabled \in BOOLEAN

SettingTyped == setting.on \in BOOLEAN /\ setting.keys \in Typed \cup {NoKeys}

\* The chord in force, which the system holds when it is registered.
InForce == IF reg.registered THEN {reg.shortcut} ELSE {}

\* Between two changes, the registration is what the file says and complete.
Settled == /\ reg.enabled => reg.registered \/ reg.inUse
           /\ reg.registered => reg.enabled

\* The file says what the registration says.
FileAgrees == ChordOf(setting) = reg.shortcut /\ setting.on = reg.enabled

\* A change holds the new chord besides the one in force, and the file is
\* behind it until it is saved and ahead of the registration afterwards.
Held == InForce \cup (IF reg.enabled THEN {change.next} ELSE {})

NoneHolds == change = NoChange /\ hosted = InForce /\ Settled /\ FileAgrees
ApplyHolds == change = [step |-> "apply"] /\ hosted = InForce /\ FileAgrees
SaveHolds == /\ change = [step |-> "save", next |-> change.next]
             /\ change.next \in GoodChords /\ change.next # reg.shortcut
             /\ hosted = Held /\ Settled /\ FileAgrees
SwitchHolds == /\ change = [step |-> "switch", next |-> change.next]
               /\ change.next \in GoodChords /\ change.next # reg.shortcut
               /\ hosted = Held /\ Settled
               /\ ChordOf(setting) = change.next /\ setting.on = reg.enabled

ChangeHolds == NoneHolds \/ ApplyHolds \/ SaveHolds \/ SwitchHolds

\* A window the owner opened is shown, and not for a browser.
WindowHolds ==
    /\ quick.by \in {"nobody", "browser", "owner"}
    /\ quick = [visible |-> quick.visible, forBrowser |-> quick.forBrowser, by |-> quick.by]
    /\ quick.by = "owner" => quick.visible /\ ~quick.forBrowser

ShortcutInv == RegTyped /\ SettingTyped /\ ChangeHolds
QuickInv == /\ ShortcutInv /\ WindowHolds
            /\ vaultIs \in {"none", "locked", "unlocked"} /\ restarts \in 0 .. MaxRestarts

\* A process that starts has read the file and asks the system for its chord.
LEMMA StartHolds ==
    ASSUME SettingTyped', hosted' = {}, reg' = Loaded(setting)', change' = [step |-> "apply"]
    PROVE  ShortcutInv'
<1>1. /\ reg' = [enabled |-> reg'.enabled, shortcut |-> reg'.shortcut,
                 registered |-> reg'.registered, inUse |-> reg'.inUse]
      /\ reg'.enabled = setting'.on /\ reg'.shortcut = ChordOf(setting)' /\ reg'.registered = FALSE
  BY DEF Loaded, ChordOf
<1>2. ChordOf(setting)' \in GoodChords
  BY LoadedIsGood DEF SettingTyped, ChordOf
<1>3. InForce' = {}
  BY <1>1 DEF InForce
<1>4. RegTyped'
  BY <1>1, <1>2 DEF RegTyped, SettingTyped
<1>5. ApplyHolds'
  BY <1>1, <1>3 DEF ApplyHolds, FileAgrees, ChordOf
<1> QED
  BY <1>4, <1>5 DEF ShortcutInv, ChangeHolds

LEMMA QuickInitInv == QuickInit => QuickInv
<1> SUFFICES ASSUME QuickInit PROVE QuickInv
  OBVIOUS
<1>1. SettingTyped
  <2>1. CASE setting = NoFile
    <3>1. setting.on = TRUE /\ setting.keys = NoKeys
      BY <2>1 DEF NoFile
    <3> QED
      BY <3>1 DEF SettingTyped
  <2>2. CASE setting \in [on : BOOLEAN, keys : Typed]
    BY <2>2 DEF SettingTyped
  <2> QED
    BY <2>1, <2>2 DEF QuickInit
<1>2. /\ reg = [enabled |-> reg.enabled, shortcut |-> reg.shortcut,
                registered |-> reg.registered, inUse |-> reg.inUse]
      /\ reg.enabled = setting.on /\ reg.shortcut = ChordOf(setting) /\ reg.registered = FALSE
  BY DEF QuickInit, Loaded
<1>3. RegTyped
  BY <1>1, <1>2, LoadedIsGood DEF RegTyped, SettingTyped
<1>4. ApplyHolds
  BY <1>2 DEF QuickInit, ApplyHolds, InForce, FileAgrees
<1>5. WindowHolds
  BY DEF QuickInit, Hidden, WindowHolds
<1>6. restarts \in 0 .. MaxRestarts
  BY QuickAssumption DEF QuickInit
<1>7. vaultIs \in {"none", "locked", "unlocked"}
  BY DEF QuickInit
<1> QED
  BY <1>1, <1>3, <1>4, <1>5, <1>6, <1>7 DEF QuickInv, ShortcutInv, ChangeHolds

LEMMA ApplyInv == ASSUME ShortcutInv, ApplyLocked PROVE ShortcutInv'
<1>1. /\ change' = NoChange /\ setting' = setting
      /\ hosted = InForce /\ FileAgrees
  BY DEF ApplyLocked, ShortcutInv, ChangeHolds, NoneHolds, ApplyHolds, SaveHolds, SwitchHolds, NoChange
<1>2. \/ /\ reg.enabled /\ ~reg.registered /\ hosted' = hosted \cup {reg.shortcut}
         /\ reg' = [reg EXCEPT !.registered = TRUE, !.inUse = FALSE]
      \/ /\ reg.enabled /\ ~reg.registered /\ hosted' = hosted
         /\ reg' = [reg EXCEPT !.inUse = TRUE]
      \/ /\ ~reg.enabled /\ hosted' = IF reg.registered THEN hosted \ {reg.shortcut} ELSE hosted
         /\ reg' = [reg EXCEPT !.registered = FALSE, !.inUse = FALSE]
      \/ reg.enabled /\ reg.registered /\ reg' = reg /\ hosted' = hosted
  BY DEF ApplyLocked
<1>3. RegTyped' /\ reg'.shortcut = reg.shortcut /\ reg'.enabled = reg.enabled
  BY <1>2 DEF ShortcutInv, RegTyped
<1>4. hosted' = InForce' /\ Settled'
  BY <1>1, <1>2 DEF ShortcutInv, RegTyped, InForce, Settled
<1>5. NoneHolds'
  BY <1>1, <1>3, <1>4 DEF NoneHolds, FileAgrees, ChordOf
<1> QED
  BY <1>1, <1>3, <1>5 DEF ShortcutInv, SettingTyped, ChangeHolds

LEMMA SetEnabledInv ==
    ASSUME ShortcutInv, NEW on \in BOOLEAN, NEW written \in BOOLEAN, SetEnabled(on, written)
    PROVE  ShortcutInv'
<1>1. hosted' = hosted /\ NoneHolds
  BY DEF SetEnabled, ShortcutInv, ChangeHolds, NoneHolds, ApplyHolds, SaveHolds, SwitchHolds, NoChange
<1>2. CASE ~written
  BY <1>1, <1>2 DEF SetEnabled, ShortcutInv, RegTyped, SettingTyped, ChangeHolds, NoneHolds, InForce,
                    Settled, FileAgrees, ChordOf
<1>3. CASE written
  <2>1. /\ setting' = StoredText(on, reg.shortcut) /\ reg' = [reg EXCEPT !.enabled = on]
        /\ change' = [step |-> "apply"]
    BY <1>3 DEF SetEnabled
  <2>2. RegTyped' /\ reg'.shortcut = reg.shortcut /\ reg'.enabled = on /\ reg'.registered = reg.registered
    BY <2>1 DEF ShortcutInv, RegTyped
  <2>3. ChordOf(setting') = reg.shortcut /\ setting'.on = on /\ setting'.keys \in Typed \cup {NoKeys}
    BY <2>1, StoredComesBack DEF ShortcutInv, RegTyped
  <2>4. ApplyHolds'
    BY <1>1, <2>1, <2>2, <2>3 DEF NoneHolds, ApplyHolds, InForce, FileAgrees, ChordOf
  <2> QED
    BY <2>2, <2>3, <2>4 DEF ShortcutInv, SettingTyped, ChangeHolds
<1> QED
  BY <1>2, <1>3

LEMMA SetShortcutInv ==
    ASSUME ShortcutInv, NEW t \in Typed \cup {Text(DefaultShortcut.mods, DefaultShortcut.key, "canonical")},
           SetShortcut(t)
    PROVE  ShortcutInv'
<1>1. setting' = setting /\ reg' = reg /\ NoneHolds
  BY DEF SetShortcut, ShortcutInv, ChangeHolds, NoneHolds, ApplyHolds, SaveHolds, SwitchHolds, NoChange
<1>2. t.chord \in GoodChords
  <2>1. CASE t \in Typed
    BY <2>1 DEF SetShortcut, GoodChords
  <2>2. CASE t \notin Typed
    BY <2>2 DEF GoodChords, DefaultShortcut, Text, Chord
  <2> QED
    BY <2>1, <2>2
<1>3. RegTyped' /\ SettingTyped' /\ InForce' = InForce /\ (Settled /\ FileAgrees)'
  BY <1>1 DEF ShortcutInv, RegTyped, SettingTyped, NoneHolds, InForce, Settled, FileAgrees, ChordOf
<1>4. CASE t.chord = reg.shortcut \/ (reg.enabled /\ t.chord \in taken)
  <2>1. change' \in {NoChange, [step |-> "apply"]} /\ hosted' = hosted
    BY <1>1, <1>4 DEF SetShortcut, NoneHolds
  <2> QED
    BY <1>1, <1>3, <2>1 DEF ShortcutInv, ChangeHolds, NoneHolds, ApplyHolds
<1>5. CASE t.chord # reg.shortcut /\ ~(reg.enabled /\ t.chord \in taken)
  <2>1. /\ change' = [step |-> "save", next |-> t.chord]
        /\ hosted' = IF reg.enabled THEN hosted \cup {t.chord} ELSE hosted
    BY <1>5 DEF SetShortcut
  <2>2. hosted' = Held'
    BY <1>1, <1>3, <2>1 DEF NoneHolds, Held
  <2>3. SaveHolds'
    BY <1>1, <1>2, <1>3, <1>5, <2>1, <2>2 DEF SaveHolds
  <2> QED
    BY <1>3, <2>3 DEF ShortcutInv, ChangeHolds
<1> QED
  BY <1>4, <1>5

LEMMA SaveShortcutInv ==
    ASSUME ShortcutInv, NEW written \in BOOLEAN, SaveShortcut(written)
    PROVE  ShortcutInv'
<1>1. SaveHolds /\ reg' = reg
  BY DEF SaveShortcut, ShortcutInv, ChangeHolds, NoneHolds, ApplyHolds, SaveHolds, SwitchHolds, NoChange
<1>2. RegTyped' /\ InForce' = InForce /\ Settled'
  BY <1>1 DEF ShortcutInv, RegTyped, SaveHolds, InForce, Settled
<1>3. CASE written
  <2>1. /\ setting' = StoredText(reg.enabled, change.next) /\ hosted' = hosted
        /\ change' = [change EXCEPT !.step = "switch"]
    BY <1>3 DEF SaveShortcut
  <2>2. /\ ChordOf(setting') = change.next /\ setting'.on = reg.enabled
        /\ setting'.keys \in Typed \cup {NoKeys}
    BY <1>1, <2>1, StoredComesBack DEF SaveHolds
  <2>3. change' = [step |-> "switch", next |-> change.next] /\ change'.next = change.next
    BY <1>1, <2>1 DEF SaveHolds
  <2>4. hosted' = Held'
    BY <1>1, <1>2, <2>1, <2>3 DEF SaveHolds, Held
  <2>5. SwitchHolds'
    BY <1>1, <1>2, <2>2, <2>3, <2>4 DEF SaveHolds, SwitchHolds, ChordOf
  <2>6. SettingTyped'
    BY <1>1, <2>2 DEF SettingTyped, ShortcutInv, RegTyped
  <2> QED
    BY <1>2, <2>5, <2>6 DEF ShortcutInv, ChangeHolds
<1>4. CASE ~written
  <2>1. /\ setting' = setting /\ change' = NoChange
        /\ hosted' = IF reg.enabled THEN hosted \ {change.next} ELSE hosted
    BY <1>4 DEF SaveShortcut, Unsaved
  <2>2. hosted' = InForce'
    BY <1>1, <1>2, <2>1 DEF SaveHolds, Held, InForce
  <2>3. NoneHolds'
    BY <1>1, <1>2, <2>1, <2>2 DEF SaveHolds, NoneHolds, FileAgrees, ChordOf
  <2> QED
    BY <1>2, <2>1, <2>3 DEF ShortcutInv, SettingTyped, ChangeHolds
<1> QED
  BY <1>3, <1>4

LEMMA SwitchShortcutInv == ASSUME ShortcutInv, SwitchShortcut PROVE ShortcutInv'
<1>1. SwitchHolds /\ setting' = setting /\ change' = NoChange
  BY DEF SwitchShortcut, ShortcutInv, ChangeHolds, NoneHolds, ApplyHolds, SaveHolds, SwitchHolds, NoChange
<1>2. /\ hosted' = IF reg.enabled /\ reg.registered THEN hosted \ {reg.shortcut} ELSE hosted
      /\ reg' = [reg EXCEPT !.shortcut = change.next, !.registered = reg.enabled, !.inUse = FALSE]
  BY DEF SwitchShortcut
<1>3. /\ RegTyped' /\ reg'.shortcut = change.next /\ reg'.enabled = reg.enabled
      /\ reg'.registered = reg.enabled
  BY <1>1, <1>2 DEF ShortcutInv, RegTyped, SwitchHolds
<1>4. hosted' = InForce' /\ Settled'
  BY <1>1, <1>2, <1>3 DEF SwitchHolds, Held, InForce, Settled
<1>5. NoneHolds'
  BY <1>1, <1>3, <1>4 DEF SwitchHolds, NoneHolds, FileAgrees, ChordOf
<1> QED
  BY <1>1, <1>3, <1>5 DEF ShortcutInv, SettingTyped, ChangeHolds

LEMMA ShortcutStep == ASSUME QuickInv, [QuickNext]_quickVars PROVE ShortcutInv'
<1> USE DEF QuickInv
<1>1. CASE UNCHANGED <<setting, reg, hosted, change>>
  <2>1. RegTyped' /\ SettingTyped'
    BY <1>1 DEF ShortcutInv, RegTyped, SettingTyped
  <2>2. InForce' = InForce /\ Held' = Held /\ Settled' = Settled /\ FileAgrees' = FileAgrees
        /\ ChordOf(setting)' = ChordOf(setting)
    BY <1>1 DEF InForce, Held, Settled, FileAgrees, ChordOf
  <2>3. ChangeHolds'
    BY <1>1, <2>2 DEF ShortcutInv, ChangeHolds, NoneHolds, ApplyHolds, SaveHolds, SwitchHolds
  <2> QED
    BY <2>1, <2>3 DEF ShortcutInv
<1>2. CASE QuickRestart
  <2>1. /\ setting' = setting /\ hosted' = {} /\ reg' = Loaded(setting) /\ change' = [step |-> "apply"]
    BY <1>2 DEF QuickRestart
  <2>2. SettingTyped' /\ Loaded(setting)' = Loaded(setting)
    BY <2>1 DEF ShortcutInv, SettingTyped, Loaded, ChordOf
  <2> QED
    BY <2>1, <2>2, StartHolds
<1> QED
  BY <1>1, <1>2, ApplyInv, SetEnabledInv, SetShortcutInv, SaveShortcutInv, SwitchShortcutInv
  DEF QuickNext, quickVars, shortcutVars, OthersTake, Press, BrowserAsks, ShowForBrowser, HideQuick,
      QuickUnlock, QuickLock, QuickVaultMade

\* What a step of the window leaves, an unlock included.
LEMMA WindowStep ==
    ASSUME QuickInv, [QuickNext]_quickVars
    PROVE  /\ WindowHolds' /\ vaultIs' \in {"none", "locked", "unlocked"}
           /\ vaultIs # "unlocked" /\ vaultIs' = "unlocked" /\ quick.by = "owner" => quick'.visible
<1> USE DEF QuickInv
<1>1. WindowHolds /\ vaultIs \in {"none", "locked", "unlocked"}
  OBVIOUS
<1>2. ASSUME quick' = quick
      PROVE  WindowHolds'
  BY <1>1, <1>2 DEF WindowHolds
<1>3. ASSUME quick' = Hidden
      PROVE  WindowHolds'
  BY <1>3 DEF WindowHolds, Hidden
<1>4. ASSUME NEW b \in BOOLEAN, quick' = ShownFor(b)
      PROVE  WindowHolds'
  <2>1. /\ quick'.by = IF b THEN "browser" ELSE "owner"
        /\ quick'.visible = TRUE /\ quick'.forBrowser = b
        /\ quick' = [visible |-> quick'.visible, forBrowser |-> quick'.forBrowser, by |-> quick'.by]
    BY <1>4 DEF ShownFor
  <2> QED
    BY <2>1 DEF WindowHolds
<1>5. ASSUME quick' = [quick EXCEPT !.visible = FALSE, !.by = "nobody"]
      PROVE  WindowHolds'
  BY <1>1, <1>5 DEF WindowHolds
<1>6. CASE UNCHANGED windowVars
  BY <1>1, <1>2, <1>6 DEF windowVars
<1>7. ASSUME NEW c, Press(c)
      PROVE  WindowHolds' /\ vaultIs' = vaultIs
  <2>1. quick' = ShownFor(FALSE) \/ quick' = [quick EXCEPT !.visible = FALSE, !.by = "nobody"]
    BY <1>7 DEF Press
  <2>2. FALSE \in BOOLEAN
    OBVIOUS
  <2> QED
    BY <1>4, <1>5, <1>7, <2>1, <2>2 DEF Press
<1>8. CASE BrowserAsks \/ HideQuick \/ ShowForBrowser
  <2>1. (quick' = quick \/ quick' = Hidden \/ quick' = ShownFor(TRUE)) /\ vaultIs' = vaultIs
    BY <1>8 DEF BrowserAsks, HideQuick, ShowForBrowser
  <2>2. TRUE \in BOOLEAN
    OBVIOUS
  <2> QED
    BY <1>1, <1>2, <1>3, <1>4, <2>1, <2>2
<1>9. CASE QuickUnlock \/ QuickVaultMade
  <2>1. quick' = (IF quick.forBrowser THEN Hidden ELSE quick) /\ vaultIs' = "unlocked"
    BY <1>9 DEF QuickUnlock, QuickVaultMade, AfterUnlock
  <2>2. quick.by = "owner" => quick' = quick /\ quick.visible
    BY <1>1, <2>1 DEF WindowHolds
  <2> QED
    BY <1>2, <1>3, <2>1, <2>2
<1>10. CASE QuickLock \/ QuickRestart
  <2>1. quick' = Hidden /\ vaultIs' \in {"none", "locked"}
    BY <1>10 DEF QuickLock, QuickRestart
  <2> QED
    BY <1>3, <2>1
<1> QED
  BY <1>1, <1>6, <1>7, <1>8, <1>9, <1>10
  DEF QuickNext, quickVars, windowVars, OthersTake, ApplyLocked, SwitchShortcut, SetEnabled, SetShortcut,
      SaveShortcut

LEMMA QuickStep == ASSUME QuickInv, [QuickNext]_quickVars PROVE QuickInv'
<1>1. restarts' \in 0 .. MaxRestarts
  <2>1. restarts' # restarts => restarts < MaxRestarts /\ restarts' = restarts + 1
    BY DEF QuickNext, quickVars, shortcutVars, OthersTake, ApplyLocked, SwitchShortcut, SetEnabled,
           SetShortcut, SaveShortcut, QuickRestart, Press, BrowserAsks, ShowForBrowser, HideQuick,
           QuickUnlock, QuickLock, QuickVaultMade
  <2> QED
    BY <2>1, QuickAssumption DEF QuickInv
<1> QED
  BY <1>1, ShortcutStep, WindowStep DEF QuickInv

\* What the invariant says of the shortcut in force and of every chord held.
LEMMA QuickSound == ASSUME QuickInv PROVE ShortcutInForce /\ NoReservedChord /\ QuickTypeOK
<1>1. /\ RegTyped /\ SettingTyped /\ ChangeHolds
  BY DEF QuickInv, ShortcutInv
<1>2. change = NoChange => NoneHolds
  BY <1>1 DEF ChangeHolds, NoneHolds, ApplyHolds, SaveHolds, SwitchHolds, NoChange
<1>3. ShortcutInForce
  <2>1. Loaded(setting).shortcut = ChordOf(setting)
    BY DEF Loaded
  <2> QED
    BY <1>2, <2>1 DEF ShortcutInForce, NoneHolds, InForce, Settled, FileAgrees
<1>4. hosted \subseteq GoodChords
  BY <1>1 DEF RegTyped, ChangeHolds, NoneHolds, ApplyHolds, SaveHolds, SwitchHolds, Held, InForce
<1>5. NoReservedChord
  BY <1>4, GoodAreSafe DEF NoReservedChord
<1>6. change.step \in {"none", "apply", "save", "switch"}
  BY <1>1 DEF ChangeHolds, NoneHolds, ApplyHolds, SaveHolds, SwitchHolds, NoChange
<1>7. reg.shortcut.key \in AllowedKeys
  BY <1>1, GoodAreSafe DEF RegTyped
<1> QED
  BY <1>1, <1>3, <1>5, <1>6, <1>7 DEF QuickTypeOK, QuickInv, SettingTyped, WindowHolds

-----------------------------------------------------------------------------
(* PageVault: what a match says                                             *)

Strengths == {ExactUrl, SameHost, SameSiteHost, Equivalent, NoMatch}

\* A set of numbers that is not empty has a least one.
LEMMA LeastThere ==
    ASSUME NEW S, S \subseteq Nat, S # {}
    PROVE  \E x \in S : \A y \in S : x <= y
<1> DEFINE R == OpToRel(<, Nat)
<1>1. \E x \in S : \A y \in S : ~(<<y, x>> \in R)
  BY NatLessThanWellFounded, WFMin
<1>2. \A x, y \in Nat : <<y, x>> \in R <=> y < x
  BY DEF OpToRel
<1> HIDE DEF R
<1>3. PICK x \in S : \A y \in S : ~(<<y, x>> \in R)
  BY <1>1
<1>4. \A y \in S : x \in Nat /\ y \in Nat /\ ~(y < x)
  BY <1>2, <1>3
<1>5. \A y \in S : x <= y
  BY <1>4
<1> QED
  BY <1>5

LEMMA LeastIsOne ==
    ASSUME NEW S, S \subseteq Nat, S # {}
    PROVE  Min(S) \in S
BY LeastThere DEF Min

LEMMA StrengthsAreNumbers == Strengths \subseteq Nat /\ \A r, u, p : MatchRule(r, u, p) \in Strengths
<1>1. Strengths \subseteq Nat
  BY DEF Strengths, ExactUrl, SameHost, SameSiteHost, Equivalent, NoMatch
<1> HIDE DEF ExactUrl, SameHost, SameSiteHost, Equivalent, NoMatch
<1>2. ASSUME NEW r, NEW u, NEW p PROVE MatchRule(r, u, p) \in Strengths
  BY DEF MatchRule, Strengths
<1> QED
  BY <1>1, <1>2

\* An item that matches has a rule that does.
LEMMA SomeRule ==
    ASSUME NEW urls, NEW u, NEW p, MatchItem(urls, u, p) # NoMatch
    PROVE  \E r \in urls : MatchRule(r, u, p) # NoMatch
<1> DEFINE S == {MatchRule(r, u, p) : r \in urls} \cup {NoMatch}
<1>1. S \subseteq Strengths /\ S # {}
  BY StrengthsAreNumbers, Zenon DEF Strengths
<1>2. Min(S) \in S
  BY <1>1, StrengthsAreNumbers, LeastIsOne
<1> QED
  BY <1>2 DEF MatchItem

\* A rule that matches a page stands for the page's host or site.
StandsFor(r, u) ==
    /\ r.scheme = "https" => u.scheme = "https"
    /\ \/ r.host = u.host
       \/ /\ r.match = "domain" /\ Site[r.host] # NoSite /\ Site[u.host] # NoSite
          /\ \/ Site[r.host] = Site[u.host]
             \/ equivalent /\ SameGroup(Site[r.host], Site[u.host])

Modes == {"exact", "origin", "domain"}

LEMMA MatchStands ==
    ASSUME NEW r, NEW u, NEW p, p => equivalent, r.match \in Modes, MatchRule(r, u, p) # NoMatch
    PROVE  StandsFor(r, u)
<1>1. SchemeAllowed(r, u)
  BY DEF MatchRule
<1>2. r.scheme = "https" => u.scheme = "https"
  BY <1>1 DEF SchemeAllowed
<1>3. CASE r.host = u.host
  BY <1>2, <1>3 DEF StandsFor
<1>4. CASE r.host # u.host
  <2>1. r.match = "domain" /\ Site[r.host] # NoSite /\ Site[u.host] # NoSite
        /\ (Site[r.host] = Site[u.host] \/ (p /\ SameGroup(Site[r.host], Site[u.host])))
    BY <1>4 DEF MatchRule, Modes
  <2> QED
    BY <1>2, <2>1 DEF StandsFor
<1> QED
  BY <1>3, <1>4

\* Rules have one of the three modes.
RulesOK(e) == \A r \in e.urls : r.match \in Modes

LEMMA MatchVouches ==
    ASSUME NEW e, RulesOK(e), NEW u, NEW p, p => equivalent, MatchItem(e.urls, u, p) # NoMatch
    PROVE  Vouched(e, u)
<1>1. PICK r \in e.urls : MatchRule(r, u, p) # NoMatch
  BY SomeRule
<1>2. StandsFor(r, u)
  BY <1>1, MatchStands DEF RulesOK
<1> QED
  BY <1>2 DEF StandsFor, Vouched

-----------------------------------------------------------------------------
(* PageVault: the items                                                     *)

\* None is no item.
NoneIsNoItem == \A type, urls, user, pass, sso, binds : Entry(type, urls, user, pass, sso, binds) # None

IsEntry(e) == e = Entry(e.type, e.urls, e.user, e.pass, e.sso, e.binds) /\ RulesOK(e)

PageInv == DOMAIN entries \subseteq Ids /\ \A i \in DOMAIN entries : IsEntry(entries[i])

LEMMA EntryParts ==
    ASSUME NEW type, NEW urls, NEW user, NEW pass, NEW sso, NEW binds
    PROVE  LET e == Entry(type, urls, user, pass, sso, binds)
           IN  e.type = type /\ e.urls = urls /\ e.user = user /\ e.pass = pass /\ e.sso = sso /\ e.binds = binds
BY DEF Entry

LEMMA EntryIsEntry ==
    ASSUME NEW type, NEW urls, NEW user, NEW pass, NEW sso, NEW binds, \A r \in urls : r.match \in Modes
    PROVE  IsEntry(Entry(type, urls, user, pass, sso, binds))
BY EntryParts DEF IsEntry, RulesOK

LEMMA ItemIsNotNone == NoneIsNoItem => \A e : IsEntry(e) => e # None
<1> SUFFICES ASSUME NoneIsNoItem, NEW e, IsEntry(e) PROVE e # None
  OBVIOUS
<1>1. e = Entry(e.type, e.urls, e.user, e.pass, e.sso, e.binds)
  BY DEF IsEntry
<1>2. Entry(e.type, e.urls, e.user, e.pass, e.sso, e.binds) # None
  BY DEF NoneIsNoItem
<1> QED
  BY <1>1, <1>2

LEMMA ChangedEntries ==
    ASSUME NEW e, IsEntry(e), NEW v
    PROVE  /\ [e EXCEPT !.pass = v] = Entry(e.type, e.urls, e.user, v, e.sso, e.binds)
           /\ [e EXCEPT !.sso.acct = v] = Entry(e.type, e.urls, e.user, e.pass, [e.sso EXCEPT !.acct = v], e.binds)
           /\ [e EXCEPT !.binds = @ \cup v] = Entry(e.type, e.urls, e.user, e.pass, e.sso, e.binds \cup v)
           /\ IsEntry([e EXCEPT !.pass = v]) /\ IsEntry([e EXCEPT !.sso.acct = v]) /\ IsEntry([e EXCEPT !.binds = @ \cup v])
<1>1. e \in [type : {e.type}, urls : {e.urls}, user : {e.user}, pass : {e.pass}, sso : {e.sso}, binds : {e.binds}]
  BY DEF IsEntry, Entry
<1>2. /\ [e EXCEPT !.pass = v] = Entry(e.type, e.urls, e.user, v, e.sso, e.binds)
      /\ [e EXCEPT !.sso.acct = v] = Entry(e.type, e.urls, e.user, e.pass, [e.sso EXCEPT !.acct = v], e.binds)
      /\ [e EXCEPT !.binds = @ \cup v] = Entry(e.type, e.urls, e.user, e.pass, e.sso, e.binds \cup v)
  <2>1. \A x : [e EXCEPT !.sso = x] = Entry(e.type, e.urls, e.user, e.pass, x, e.binds)
    BY <1>1 DEF Entry
  <2>2. \A x : [e EXCEPT !.pass = x] = Entry(e.type, e.urls, e.user, x, e.sso, e.binds)
    BY <1>1 DEF Entry
  <2>3. \A x : [e EXCEPT !.binds = x] = Entry(e.type, e.urls, e.user, e.pass, e.sso, x)
    BY <1>1 DEF Entry
  <2>4. [e EXCEPT !.sso.acct = v] = [e EXCEPT !.sso = [e.sso EXCEPT !.acct = v]]
    OBVIOUS
  <2> QED
    BY <2>1, <2>2, <2>3, <2>4
<1>3. \A r \in e.urls : r.match \in Modes
  BY DEF IsEntry, RulesOK
<1> QED
  BY <1>2, <1>3, EntryIsEntry

\* An item that is put is an item.
LEMMA PutKeeps ==
    ASSUME PageInv, NEW i \in Ids, NEW e, Put(i, e), e # None => IsEntry(e)
    PROVE  PageInv'
<1>1. e # None /\ entries' = [j \in DOMAIN entries \cup {i} |-> IF j = i THEN e ELSE entries[j]]
  BY DEF Put
<1>2. DOMAIN entries' = DOMAIN entries \cup {i} /\ \A j \in DOMAIN entries' : entries'[j] = IF j = i THEN e ELSE entries[j]
  BY <1>1
<1>3. \A j \in DOMAIN entries' : IsEntry(entries'[j])
  BY <1>1, <1>2 DEF PageInv
<1> QED
  BY <1>2, <1>3 DEF PageInv, IsEntry, RulesOK

LEMMA PageStarts == PageInit => PageInv
<1> SUFFICES ASSUME PageInit PROVE PageInv
  OBVIOUS
<1>1. entries \in InitialVaults
  BY DEF PageInit
<1> QED
  BY <1>1, VaultsAssumption DEF PageInv, IsEntry, RulesOK, Modes

LEMMA PageStep ==
    ASSUME PageInv, [PageNext]_pageVars
    PROVE  PageInv'
<1>1. ASSUME NEW frame, NEW top, NEW user, NEW pass, NEW sso
      PROVE  LET e == NewLoginForFrame(frame, top, user, pass, sso) IN e # None => IsEntry(e)
  <2>1. FrameRule(frame).match \in Modes
    BY DEF FrameRule, Modes
  <2> QED
    BY <2>1, EntryIsEntry DEF NewLoginForFrame
<1>2. ASSUME NEW i \in Ids, NEW frame, NEW top, NEW pass PROVE LET e == StageSaveUpdate(i, frame, top, pass) IN e # None => IsEntry(e)
  BY ChangedEntries DEF StageSaveUpdate, PageInv
<1>3. ASSUME NEW i \in Ids, NEW frame, NEW top, NEW prov, NEW acct
      PROVE  LET e == StageSaveSso(i, frame, top, prov, acct) IN e # None => IsEntry(e)
  BY ChangedEntries DEF StageSaveSso, PageInv
<1>4. ASSUME NEW app, NEW user, NEW pass, NEW target, target = None \/ target \in DOMAIN entries
      PROVE  LET e == StageSaveLoginForApp(target, app, user, pass) IN e # None => IsEntry(e)
  <2>1. IsEntry(Entry("login", {}, user, pass, None, BindingsFor(app)))
    BY EntryIsEntry
  <2> QED
    BY <1>4, <2>1, ChangedEntries DEF StageSaveLoginForApp, PageInv
<1>5. ASSUME NEW i \in DOMAIN entries, NEW app PROVE LET e == StageBindApp(i, app) IN e # None => IsEntry(e)
  BY ChangedEntries DEF StageBindApp, PageInv
<1>6. CASE SaveFromPage
  BY <1>1, <1>2, <1>3, <1>6, PutKeeps DEF SaveFromPage, SaveLoginNew, SaveLoginUpdate, SaveSsoNew, SaveSsoUpdate, FreshId
<1>7. CASE SaveFromApp
  BY <1>4, <1>5, <1>7, PutKeeps DEF SaveFromApp, BindApp, SaveForApp, FreshId
<1>8. CASE PlanChanges \/ UNCHANGED pageVars
  BY <1>8 DEF PlanChanges, pageVars, PageInv, IsEntry, RulesOK
<1> QED
  BY <1>6, <1>7, <1>8 DEF PageNext

-----------------------------------------------------------------------------
(* PageVault: what a page is answered                                       *)

\* A match for a page is one for its frame, and for the page around it.
LEMMA ContextVouches ==
    ASSUME PageInv, NEW frame, NEW top, NEW p, p => equivalent, NEW i \in PageMatches(frame, top, p)
    PROVE  /\ i \in DOMAIN entries /\ entries[i].type \in {"login", "bank"}
           /\ Vouched(entries[i], frame) /\ (top # NoTop => Vouched(entries[i], top))
<1>1. /\ i \in DOMAIN entries /\ entries[i].type \in {"login", "bank"}
      /\ ContextMatch(entries[i].urls, frame, top, p) # NoMatch
  BY DEF PageMatches, SiteBound
<1>2. RulesOK(entries[i])
  BY <1>1 DEF PageInv, IsEntry
<1>3. MatchItem(entries[i].urls, frame, p) # NoMatch /\ (top # NoTop => MatchItem(entries[i].urls, top, p) # NoMatch)
  BY <1>1 DEF ContextMatch
<1> QED
  BY <1>1, <1>2, <1>3, MatchVouches

LEMMA SitesOwn == PageInv => OnlyItsOwnSites
<1> SUFFICES ASSUME PageInv, NEW i \in DOMAIN entries, NEW frame \in Frames, NEW top \in Tops,
                    FillItem(i, frame, top) = "filled" \/ GetTotp(i, frame, top) = "filled" \/ StartSso(i, frame, top) # None
             PROVE  Vouched(entries[i], frame) /\ (top # NoTop => Vouched(entries[i], top))
  BY DEF OnlyItsOwnSites
<1>1. AuthorizeForPage(i, frame, top)
  BY DEF FillItem, GetTotp, StartSso
<1> QED
  BY <1>1, ContextVouches DEF AuthorizeForPage

LEMMA AppVouches ==
    ASSUME PageInv, NEW app, NEW p, p => equivalent, NEW i \in AppMatches(app, p)
    PROVE  /\ i \in DOMAIN entries /\ entries[i].type \in {"login", "bank"}
           /\ BoundTo(i, app) \/ \E h \in VerifiedHosts[app] : Vouched(entries[i], HostPage(h))
<1>1. i \in DOMAIN entries /\ entries[i].type \in {"login", "bank"} /\ AppMatch(i, app, p) # NoMatch
  BY DEF AppMatches, SiteBound
<1>2. RulesOK(entries[i])
  BY <1>1 DEF PageInv, IsEntry
<1>3. CASE ~BoundTo(i, app)
  <2> DEFINE M(h) == MatchItem(entries[i].urls, HostPage(h), p)
             S == {M(h) : h \in VerifiedHosts[app]} \cup {NoMatch}
  <2>1. \A h : M(h) \in Strengths
    <3> SUFFICES ASSUME NEW h PROVE M(h) \in Strengths
      OBVIOUS
    <3> DEFINE T == {MatchRule(r, HostPage(h), p) : r \in entries[i].urls} \cup {NoMatch}
    <3>1. T \subseteq Strengths /\ T # {}
      BY StrengthsAreNumbers, Zenon DEF Strengths
    <3>2. Min(T) \in T
      BY <3>1, StrengthsAreNumbers, LeastIsOne
    <3> QED
      BY <3>1, <3>2 DEF MatchItem
  <2> HIDE DEF M
  <2>2. S \subseteq Strengths /\ S # {}
    BY <2>1 DEF Strengths
  <2>3. Min(S) \in S
    BY <2>2, StrengthsAreNumbers, LeastIsOne
  <2>4. Min(S) # NoMatch
    BY <1>1, <1>3 DEF AppMatch, M
  <2>5. PICK h \in VerifiedHosts[app] : M(h) # NoMatch
    BY <2>3, <2>4
  <2>6. Vouched(entries[i], HostPage(h))
    BY <1>2, <2>5, MatchVouches DEF M
  <2> QED
    BY <1>1, <2>6
<1> QED
  BY <1>1, <1>3

\* A set with one member has it.
LEMMA OneIsThere == \A S : Cardinality(S) = 1 => S # {}
<1>1. Cardinality({}) = 0
  BY FS_EmptySet
<1> QED
  BY <1>1

LEMMA AppsOwn == PageInv => OnlyItsOwnApps
<1> SUFFICES ASSUME PageInv PROVE OnlyItsOwnApps
  OBVIOUS
<1>1. ASSUME NEW i \in DOMAIN entries, NEW app \in Apps, FillForApp(i, app) = "filled"
      PROVE  BoundTo(i, app) \/ \E h \in VerifiedHosts[app] : Vouched(entries[i], HostPage(h))
  <2>1. i \in AppMatches(app, equivalent)
    BY <1>1 DEF FillForApp, AuthorizeForApp
  <2> QED
    BY <2>1, AppVouches
<1>2. ASSUME NEW i \in DOMAIN entries, ProviderLogin(i) # None
      PROVE  \E p \in ProviderPages[entries[i].sso.prov] : Vouched(entries[ProviderLogin(i)], p)
  <2> DEFINE hits == {j \in ProviderLogins(entries[i].sso.prov) \ {i} : entries[j].user = entries[i].sso.acct}
  <2>1. ProviderLogin(i) = (CHOOSE j \in hits : TRUE) /\ Cardinality(hits) = 1
    BY <1>2 DEF ProviderLogin
  <2>2. hits # {}
    BY <2>1, OneIsThere
  <2>3. ProviderLogin(i) \in hits
    BY <2>1, <2>2
  <2>4. ProviderLogin(i) \in ProviderLogins(entries[i].sso.prov)
    BY <2>3
  <2>5. PICK p \in ProviderPages[entries[i].sso.prov] : ProviderLogin(i) \in DirectMatches(p, NoTop)
    BY <2>4 DEF ProviderLogins
  <2>6. ProviderLogin(i) \in PageMatches(p, NoTop, FALSE)
    BY <2>5 DEF DirectMatches
  <2> QED
    BY <2>6, ContextVouches
<1>3. ASSUME NEW i \in DOMAIN entries, NEW frame \in Frames, NEW top \in Tops, LookalikeForPage(frame, top) # {}
      PROVE  FillItem(i, frame, top) = "denied"
  <2>1. PageMatches(frame, top, equivalent) = {}
    BY <1>3 DEF LookalikeForPage
  <2> QED
    BY <2>1 DEF FillItem, AuthorizeForPage
<1> QED
  BY <1>1, <1>2, <1>3 DEF OnlyItsOwnApps

-----------------------------------------------------------------------------
(* PageVault: what a page is offered                                        *)

\* The best of several is one of them: a rank, and of those of a rank an id.
LEMMA BestIsThere ==
    ASSUME NEW S, S \subseteq Nat, S # {}, NEW rank, \A i \in S : rank[i] \in Nat
    PROVE  \E i \in S : \A j \in S : rank[i] < rank[j] \/ (rank[i] = rank[j] /\ i <= j)
<1> DEFINE R == {rank[i] : i \in S}
<1>1. R \subseteq Nat /\ R # {}
  OBVIOUS
<1>2. PICK m \in R : \A x \in R : m <= x
  BY <1>1, LeastThere
<1> DEFINE T == {i \in S : rank[i] = m}
<1>3. T \subseteq Nat /\ T # {}
  BY <1>2
<1>4. PICK i \in T : \A j \in T : i <= j
  BY <1>3, LeastThere
<1>5. ASSUME NEW j \in S PROVE rank[i] < rank[j] \/ (rank[i] = rank[j] /\ i <= j)
  <2>1. rank[i] = m /\ m \in Nat /\ rank[j] \in Nat /\ m <= rank[j]
    BY <1>1, <1>2, <1>4
  <2>2. CASE rank[j] = m
    BY <1>4, <2>1, <2>2
  <2>3. CASE rank[j] # m
    BY <2>1, <2>3
  <2> QED
    BY <2>2, <2>3
<1> QED
  BY <1>4, <1>5

\* An update is of a candidate that is a login.
LEMMA UpdateIsLogin ==
    ASSUME NEW C, C \subseteq Nat, NEW rank, \A i \in C : rank[i] \in Nat, NEW user, NEW pass, NEW current,
           SaveAction(C, rank, user, pass, current)[1] = "update"
    PROVE  SaveAction(C, rank, user, pass, current)[2] \in {i \in C : entries[i].type # "bank"}
<1> DEFINE banks == {i \in C : entries[i].type = "bank"}
           same  == {i \in C \ banks : entries[i].user = user}
           ins   == IF user = None THEN C \ banks ELSE same
           stated == {i \in banks \cup ins : entries[i].pass = pass}
           likely  == {i \in ins : current # None /\ entries[i].pass = current}
           first == CHOOSE i \in same : \A j \in same : rank[i] < rank[j] \/ (rank[i] = rank[j] /\ i <= j)
           a     == SaveAction(C, rank, user, pass, current)
<1>1. a = IF stated # {} THEN <<"unchanged">>
          ELSE IF same # {} THEN <<"update", first>>
          ELSE IF Cardinality(likely) = 1 THEN <<"update", CHOOSE i \in likely : TRUE>>
          ELSE <<"add">>
  BY DEF SaveAction
<1>2. same # {} => first \in same
  BY BestIsThere
<1>3. Cardinality(likely) = 1 => (CHOOSE i \in likely : TRUE) \in likely
  BY OneIsThere
<1>4. same \subseteq C \ banks /\ likely \subseteq C \ banks
  OBVIOUS
<1> DEFINE G == {i \in C : entries[i].type # "bank"}
<1>5. C \ banks \subseteq G
  OBVIOUS
<1> HIDE DEF G, banks, same, likely, stated, first, a
<1>6. (same # {} => first \in G) /\ (Cardinality(likely) = 1 => (CHOOSE i \in likely : TRUE) \in G)
  BY <1>2, <1>3, <1>4, <1>5
<1>7. a[1] = "update"
  BY DEF a
<1>8. a[2] \in G
  BY <1>1, <1>6, <1>7
<1> QED
  BY <1>8 DEF a, G

\* What is matched is numbered, and its matches are.
LEMMA MatchesNumbered ==
    ASSUME PageInv, NEW frame, NEW top, NEW app
    PROVE  /\ DirectMatches(frame, top) \subseteq Nat /\ AppMatches(app, FALSE) \subseteq Nat
           /\ \A i : Strength(i, frame, top) \in Nat /\ AppMatch(i, app, FALSE) \in Nat
<1>1. DirectMatches(frame, top) \subseteq DOMAIN entries /\ AppMatches(app, FALSE) \subseteq DOMAIN entries
  BY DEF DirectMatches, PageMatches, AppMatches
<1>2. ASSUME NEW urls, NEW u PROVE MatchItem(urls, u, FALSE) \in Nat
  <2> DEFINE T == {MatchRule(r, u, FALSE) : r \in urls} \cup {NoMatch}
  <2>1. T \subseteq Strengths /\ T # {}
    BY StrengthsAreNumbers, Zenon DEF Strengths
  <2>2. Min(T) \in T
    BY <2>1, StrengthsAreNumbers, LeastIsOne
  <2> QED
    BY <2>1, <2>2, StrengthsAreNumbers DEF MatchItem
<1>3. NoMatch \in Nat /\ ExactUrl \in Nat
  BY DEF NoMatch, ExactUrl
<1>4. ASSUME NEW i PROVE Strength(i, frame, top) \in Nat
  BY <1>2, <1>3 DEF Strength, ContextMatch
<1>5. ASSUME NEW i PROVE AppMatch(i, app, FALSE) \in Nat
  <2> DEFINE M(h) == MatchItem(entries[i].urls, HostPage(h), FALSE)
             S == {M(h) : h \in VerifiedHosts[app]} \cup {NoMatch}
  <2>1. \A h : M(h) \in Nat
    BY <1>2
  <2> HIDE DEF M
  <2>2. S \subseteq Nat /\ S # {}
    BY <1>3, <2>1
  <2>3. Min(S) \in Nat
    BY <2>2, LeastIsOne
  <2>4. AppMatch(i, app, FALSE) = IF BoundTo(i, app) THEN ExactUrl ELSE Min(S)
    BY DEF AppMatch, M
  <2> QED
    BY <1>3, <2>3, <2>4
<1> QED
  BY <1>1, <1>4, <1>5, VaultsAssumption DEF PageInv

\* A related login is never offered for an update.
LEMMA NeverRelated ==
    ASSUME NEW related, NEW user, NEW pass
    PROVE  UnchangedOrAdd(related, user, pass) \in {<<"unchanged">>, <<"add">>}
BY DEF UnchangedOrAdd

LEMMA TwoWords == <<"unchanged">>[1] = "unchanged" /\ <<"add">>[1] = "add"
OBVIOUS

LEMMA LoginOffer ==
    ASSUME PageInv, NoneIsNoItem, ~frozen, NEW frame, NEW top, NEW user, NEW pass, NEW current,
           CheckLogin(frame, top, user, pass, current)[1] = "update"
    PROVE  StageSaveUpdate(CheckLogin(frame, top, user, pass, current)[2], frame, top, pass) # None
<1> DEFINE D == DirectMatches(frame, top)
           f == [i \in D |-> Strength(i, frame, top)]
           act == SaveAction(D, f, user, pass, current)
           a == CheckLogin(frame, top, user, pass, current)
<1>1. a = IF act = <<"add">> /\ equivalent THEN UnchangedOrAdd(PageMatches(frame, top, TRUE), user, pass) ELSE act
  BY DEF CheckLogin
<1> HIDE DEF act, a
<1>2. a = act
  BY <1>1, NeverRelated, TwoWords DEF a
<1>3. D \subseteq Nat /\ \A i \in D : f[i] \in Nat
  BY MatchesNumbered
<1>4. act[2] \in {i \in D : entries[i].type # "bank"}
  BY <1>2, <1>3, UpdateIsLogin DEF act, a
<1> DEFINE i == a[2]
<1>5. i \in D /\ entries[i].type # "bank"
  BY <1>2, <1>4
<1> HIDE DEF i
<1>6. i \in DOMAIN entries /\ entries[i].type \in {"login", "bank"} /\ AuthorizeForChange(i, frame, top)
  BY <1>5 DEF AuthorizeForChange, DirectMatches, PageMatches, SiteBound
<1>7. StageSaveUpdate(i, frame, top, pass) = [entries[i] EXCEPT !.pass = pass]
  BY <1>5, <1>6 DEF StageSaveUpdate
<1>8. [entries[i] EXCEPT !.pass = pass] # None
  <2>1. IsEntry(entries[i])
    BY <1>6 DEF PageInv
  <2> QED
    BY <2>1, ChangedEntries, ItemIsNotNone
<1> QED
  BY <1>7, <1>8 DEF i, a

LEMMA AppOffer ==
    ASSUME PageInv, NoneIsNoItem, NEW app, NEW user, NEW pass, NEW current,
           CheckLoginForApp(app, user, pass, current)[1] = "update"
    PROVE  StageSaveLoginForApp(CheckLoginForApp(app, user, pass, current)[2], app, user, pass) # None
<1> DEFINE D == AppMatches(app, FALSE)
           f == [i \in D |-> AppMatch(i, app, FALSE)]
           act == SaveAction(D, f, user, pass, current)
           a == CheckLoginForApp(app, user, pass, current)
<1>1. a = IF act = <<"add">> /\ equivalent THEN UnchangedOrAdd(AppMatches(app, TRUE), user, pass) ELSE act
  BY DEF CheckLoginForApp
<1> HIDE DEF act, a
<1>2. a = act
  BY <1>1, NeverRelated, TwoWords DEF a
<1>3. D \subseteq Nat /\ \A i \in D : f[i] \in Nat
  BY MatchesNumbered
<1>4. act[2] \in {i \in D : entries[i].type # "bank"}
  BY <1>2, <1>3, UpdateIsLogin DEF act, a
<1> DEFINE i == a[2]
<1>5. i \in D /\ entries[i].type # "bank"
  BY <1>2, <1>4
<1> HIDE DEF i
<1>6. i \in DOMAIN entries /\ entries[i].type = "login" /\ AuthorizeForApp(i, app, FALSE)
  BY <1>5 DEF AuthorizeForApp, AppMatches, SiteBound
<1>7. StageSaveLoginForApp(i, app, user, pass) =
        IF i = None THEN Entry("login", {}, user, pass, None, BindingsFor(app)) ELSE [entries[i] EXCEPT !.pass = pass]
  BY <1>6 DEF StageSaveLoginForApp
<1>8. [entries[i] EXCEPT !.pass = pass] # None
  <2>1. IsEntry(entries[i])
    BY <1>6 DEF PageInv
  <2> QED
    BY <2>1, ChangedEntries, ItemIsNotNone
<1>9. Entry("login", {}, user, pass, None, BindingsFor(app)) # None
  BY DEF NoneIsNoItem
<1> QED
  BY <1>7, <1>8, <1>9 DEF i, a

LEMMA SsoOffer ==
    ASSUME PageInv, NoneIsNoItem, ~frozen, NEW frame, NEW top, NEW prov, NEW acct,
           CheckSso(frame, top, prov, acct)[1] = "update"
    PROVE  StageSaveSso(CheckSso(frame, top, prov, acct)[2], frame, top, prov, acct) # None
<1> DEFINE D == DirectMatches(frame, top)
           of(S) == {i \in S : entries[i].sso # None /\ entries[i].sso.prov = prov}
           same(S) == {i \in of(S) : acct = None \/ entries[i].sso.acct = acct}
           blank == {i \in of(D) : entries[i].sso.acct = None}
           a == CheckSso(frame, top, prov, acct)
<1>1. a = IF same(D) # {} THEN <<"unchanged">>
          ELSE IF Cardinality(blank) = 1 THEN <<"update", CHOOSE i \in blank : TRUE>>
          ELSE IF equivalent /\ same(PageMatches(frame, top, TRUE)) # {} THEN <<"unchanged">>
          ELSE <<"add">>
  BY DEF CheckSso
<1>2. acct = None /\ blank # {} => same(D) # {}
  OBVIOUS
<1>3. Cardinality(blank) = 1 => blank # {} /\ (CHOOSE i \in blank : TRUE) \in blank
  BY OneIsThere
<1>4. blank \subseteq of(D)
  OBVIOUS
<1> HIDE DEF same, blank, a, of, D
<1>5. a[1] = "update"
  BY DEF a
<1>6. same(D) = {} /\ Cardinality(blank) = 1 /\ a = <<"update", CHOOSE i \in blank : TRUE>>
  BY <1>1, <1>5
<1> DEFINE i == a[2]
<1>7. i = (CHOOSE j \in blank : TRUE)
  BY <1>6
<1> HIDE DEF i
<1>8. i \in of(D) /\ acct # None
  BY <1>2, <1>3, <1>4, <1>6, <1>7
<1>9. i \in DirectMatches(frame, top) /\ entries[i].sso # None /\ entries[i].sso.prov = prov
  BY <1>8 DEF of, D
<1>10. i \in DOMAIN entries
  BY <1>9 DEF DirectMatches, PageMatches
<1>11. StageSaveSso(i, frame, top, prov, acct) = [entries[i] EXCEPT !.sso.acct = acct]
  BY <1>8, <1>9, <1>10 DEF StageSaveSso, AuthorizeForChange
<1>12. [entries[i] EXCEPT !.sso.acct = acct] # None
  <2>1. IsEntry(entries[i])
    BY <1>10 DEF PageInv
  <2> QED
    BY <2>1, ChangedEntries, ItemIsNotNone
<1> QED
  BY <1>11, <1>12 DEF i, a

LEMMA OffersSaved == NoneIsNoItem /\ PageInv => OfferCanBeSaved
BY LoginOffer, SsoOffer, AppOffer DEF OfferCanBeSaved

-----------------------------------------------------------------------------
(* PageVault: cards, passkeys and the identity                              *)

LEMMA SameHostsSameSite ==
    ASSUME NEW u, NEW w, SameSiteHosts(u.host, w.host)
    PROVE  SameSite(u, w)
BY DEF SameSiteHosts, SameSite, SiteOf

LEMMA OneSite == FramesOfOneSite
<1> SUFFICES ASSUME NEW frame \in Frames, NEW top \in Tops
             PROVE  LET around == IF top = NoTop THEN frame ELSE top IN
                    /\ \A rp \in Hosts : AuthorizeRp(rp, frame, top) => CheckedPage(frame, top) /\ SameSiteHosts(rp, frame.host)
                    /\ top # NoTop /\ FrameMayGetCards(frame, top) /\ ~IsPaymentFrame(frame) => CheckedPage(frame, top)
                    /\ StageSaveCard(frame, top) => CardsForPage(frame, top) = "offered"
                    /\ CardsForPage(frame, top) = "offered" =>
                         CardValuesForPage({frame}, around) /\ FrameMayGetCards(frame, around)
                    /\ CardsForPage(frame, top) = "insecure" => ~CardValuesForPage({frame}, around)
  BY DEF FramesOfOneSite
<1> DEFINE around == IF top = NoTop THEN frame ELSE top
<1>1. ASSUME NEW rp \in Hosts, AuthorizeRp(rp, frame, top)
      PROVE  CheckedPage(frame, top) /\ SameSiteHosts(rp, frame.host)
  <2>1. CheckedPage(frame, top)
    BY <1>1, SameHostsSameSite DEF AuthorizeRp, TopFrameAllowed, CheckedPage
  <2>2. CASE rp = frame.host
    BY <2>1, <2>2 DEF SameSiteHosts
  <2>3. CASE rp # frame.host
    <3>1. Site[frame.host] # NoSite /\ rp \in Parents[frame.host] /\ (rp = Site[frame.host] \/ Site[frame.host] \in Parents[rp])
      BY <1>1, <2>3 DEF AuthorizeRp
    <3>2. Site[rp] = Site[frame.host]
      BY <3>1, PagesAssumption, VaultsAssumption
    <3> QED
      BY <2>1, <3>1, <3>2 DEF SameSiteHosts
  <2> QED
    BY <2>2, <2>3
<1>2. top # NoTop /\ FrameMayGetCards(frame, top) /\ ~IsPaymentFrame(frame) => CheckedPage(frame, top)
  BY DEF FrameMayGetCards, FrameAllowed, CheckedPage
<1>3. SameSite(frame, frame)
  BY DEF SameSite
<1>4. StageSaveCard(frame, top) => CardsForPage(frame, top) = "offered"
  BY <1>3 DEF StageSaveCard, CardsForPage, FrameAllowed
<1>5. ASSUME CardsForPage(frame, top) = "offered"
      PROVE  CardValuesForPage({frame}, around) /\ FrameMayGetCards(frame, around)
  <2>1. IsPage(frame) /\ IsPage(around) /\ IsHttps(around) /\ (top # NoTop => FrameAllowed(frame, top))
    BY <1>5 DEF CardsForPage
  <2>2. FrameAllowed(frame, around)
    BY <1>3, <2>1 DEF FrameAllowed
  <2> QED
    BY <2>1, <2>2 DEF CardValuesForPage, FrameMayGetCards
<1>6. ASSUME CardsForPage(frame, top) = "insecure" PROVE ~CardValuesForPage({frame}, around)
  BY <1>6 DEF CardsForPage, CardValuesForPage
<1> QED
  BY <1>1, <1>2, <1>4, <1>5, <1>6

LEMMA PageOwn == NoneIsNoItem /\ PageInv => PagesGetTheirOwn
BY SitesOwn, AppsOwn, OffersSaved, OneSite DEF PagesGetTheirOwn

-----------------------------------------------------------------------------
(* The parts together.                                                      *)

DeviceCopyInv == LocalInv /\ StoreInv /\ QuickInv

LEMMA DeviceCopyStarts == MCInit => DeviceCopyInv
BY LocalInitInv, StoreInitInv, QuickInitInv DEF MCInit, DeviceCopyInv

LEMMA OnePartMoves ==
    ASSUME [MCNext]_allVars
    PROVE  [LocalNext]_localVars /\ [StoreNext]_storeVars /\ [QuickNext]_quickVars
BY DEF MCNext, allVars

LEMMA DeviceCopySteps == DeviceCopyInv /\ [MCNext]_allVars => DeviceCopyInv'
BY OnePartMoves, LocalStep, FilesNext, StoreStep, QuickStep DEF DeviceCopyInv, FilesKept

\* What this device holds agrees with what it told its owner, for any accounts,
\* keys and crashes: no keychain call that finishes late brings back an entry
\* reported gone, and the vault's file has every table and its account's record
\* wherever an earlier run was cut off (device.rs forget; store.rs open).
THEOREM LocalCopyAgreesHolds == MCSpec => []LocalCopyAgrees
<1>1. DeviceCopyInv => LocalCopyAgrees
  BY StoreWhole DEF DeviceCopyInv, LocalInv, ChainInv, LocalCopyAgrees
<1> QED
  BY <1>1, DeviceCopyStarts, DeviceCopySteps, PTL DEF MCSpec

\* No crash, retry or lost answer makes this device erase a vault the server
\* still has, forget a wipe it began or go back to an earlier header: the only
\* thing that does the first is the answer to a sync of an account removed
\* from the device that comes when the next vault is set up (client/sync.rs
\* failed, deletion.rs wipe_local, store.rs adopt_account_header).
THEOREM LocalCopyKeepsPaceHolds == MCSpec => LocalCopyKeepsPace
<1>1. DeviceCopyInv /\ [MCNext]_allVars =>
        [\A a \in Owned : marker = a /\ vaultFile = a => (marker' = a \/ vaultFile' # a)]_localVars
  BY OnePartMoves, FilesNext DEF DeviceCopyInv, FilesKept
<1>2. DeviceCopyInv /\ [MCNext]_allVars =>
        [vaultFile' # vaultFile /\ wipe.pc = "remove"
           => vaultFile = wipe.acct /\ vaultFile \in gone \cup mistaken]_localVars
  BY OnePartMoves, FilesNext DEF DeviceCopyInv, FilesKept
<1>3. DeviceCopyInv /\ [MCNext]_allVars =>
        [disk.header # NoRow =>
          /\ disk'.header # NoRow /\ disk'.header.revision >= disk.header.revision
          /\ disk.account # NoRow => disk'.account.floor >= disk.account.floor]_storeVars
  BY OnePartMoves, StoreStep DEF DeviceCopyInv, HeaderKept
<1> QED
  BY <1>1, <1>2, <1>3, DeviceCopyStarts, DeviceCopySteps, PTL
  DEF MCSpec, LocalCopyKeepsPace, WipeIsRemembered, OnlyDeletedIsWiped, HeaderNeverFallsBack

\* The file, the registration and the system agree on the shortcut between two
\* changes, through failed saves, refused chords and restarts anywhere; no
\* reserved chord is ever held, whatever was typed or the file held; and an
\* unlock does not take away a window the owner opened (quick_access.rs).
THEOREM QuickAccessHolds == MCSpec => QuickAccessInForce
<1>1. DeviceCopyInv => ShortcutInForce /\ NoReservedChord
  BY QuickSound DEF DeviceCopyInv
<1>2. DeviceCopyInv /\ [MCNext]_allVars =>
        [vaultIs # "unlocked" /\ vaultIs' = "unlocked" /\ quick.by = "owner" => quick'.visible]_quickVars
  BY OnePartMoves, WindowStep DEF DeviceCopyInv
<1> QED
  BY <1>1, <1>2, DeviceCopyStarts, DeviceCopySteps, PTL DEF MCSpec, QuickAccessInForce, OwnersWindowStays

\* What a page is answered and offered belongs to it, for any hosts, sites and
\* vaults and whatever was saved from pages and apps before; None stands for
\* no item (vault.rs fill_for_page, app_fill.rs, card_page.rs,
\* identity_page.rs, passkey/rp.rs).
THEOREM AnswersBelongToPagesHolds ==
    ASSUME NoneIsNoItem
    PROVE  MCSpec => []AnswersBelongToPages
<1>1. MCInit => PageInv
  BY PageStarts DEF MCInit
<1>2. PageInv /\ [MCNext]_allVars => PageInv'
  <2>1. [MCNext]_allVars => [PageNext]_pageVars
    BY DEF MCNext, allVars
  <2> QED
    BY <2>1, PageStep
<1>3. PageInv => AnswersBelongToPages
  BY PageOwn DEF AnswersBelongToPages
<1> QED
  BY <1>1, <1>2, <1>3, PTL DEF MCSpec
=============================================================================
