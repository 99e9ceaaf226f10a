----------------------------- MODULE StoreFile ------------------------------
(***************************************************************************)
(* The database file of one device: opening it, with the migrations from   *)
(* the schemas of earlier versions, and the operations that take more than *)
(* one statement, so that a crash may fall between two.  SQLite commits a  *)
(* statement, or an explicit transaction, whole or not at all.             *)
(***************************************************************************)
EXTENDS Integers, Sequences, FiniteSets, SequencesExt

CONSTANTS StoreAccounts, CachedFiles,
          CacheCap,          \* what the cache may hold; a file is FileBytes[f]
          FileBytes,
          MaxRevision, MaxStoreCrashes,
          NoRow

ASSUME StoreAssumption ==
    /\ CacheCap \in Nat /\ MaxRevision \in Nat /\ MaxStoreCrashes \in Nat
    /\ FileBytes \in [CachedFiles -> Nat]
    /\ NoRow \notin [id : StoreAccounts, floor : Nat] \cup [of : StoreAccounts, revision : Nat]

VARIABLES disk,          \* the file: schema, rows of the single-row tables, the cache
          connected,     \* the process has the store open
          storeJob,      \* an operation between two of its statements
          storeCrashes

storeVars == <<disk, connected, storeJob, storeCrashes>>

\* SCHEMA_VERSION
Current == 9

\* What each migration adds.
AddedBy(v) ==
    CASE v = 5 -> {"local_blob"}
      [] v = 6 -> {"plan"}
      [] v = 7 -> {"pake"}
      [] v = 8 -> {"attachment_cache"}
      [] OTHER -> {"later"}
First == {"vault_header", "items", "account", "settings", "unreadable_items"}
TablesOf(v) == First \cup UNION {AddedBy(w) : w \in 5 .. v - 1}

NoJob == [op |-> "none"]

\* A file of this version or an earlier one, of a later version, or none yet.
StoreInit ==
    /\ disk \in {[version |-> v,
                  tables |-> IF v = 0 THEN {} ELSE TablesOf(v),
                  account |-> IF v = 0 THEN NoRow ELSE [id |-> a, floor |-> 1],
                  header |-> IF v = 0 THEN NoRow ELSE [of |-> a, revision |-> 1],
                  cache |-> <<>>] : v \in {0} \cup 4 .. Current + 1, a \in StoreAccounts}
    /\ connected = FALSE
    /\ storeJob = NoJob
    /\ storeCrashes = 0

-----------------------------------------------------------------------------
StepsFrom(v) == IF v \in 5 .. 8 THEN v .. 8 ELSE {}

\* Store::open and init.  A migration that meets what it adds fails.  The
\* file of a later version, or one before 5, is refused as it is.
OpenStore ==
    /\ ~connected
    /\ LET v == disk.version
           adds == UNION {AddedBy(w) : w \in StepsFrom(v)}
       IN \/ v = 0 /\ disk' = [disk EXCEPT !.version = Current, !.tables = TablesOf(Current)]
          \/ /\ v \in 5 .. 8 /\ adds \cap disk.tables = {}
             /\ disk' = [disk EXCEPT !.version = Current, !.tables = @ \cup adds]
          \/ v = Current /\ UNCHANGED disk
    /\ connected' = TRUE
    /\ UNCHANGED <<storeJob, storeCrashes>>

\* The process ends; an open transaction is rolled back, so nothing of it is left.
CrashStore ==
    /\ connected /\ storeCrashes < MaxStoreCrashes
    /\ connected' = FALSE /\ storeJob' = NoJob
    /\ storeCrashes' = storeCrashes + 1
    /\ UNCHANGED disk

Ready == connected /\ storeJob = NoJob

-----------------------------------------------------------------------------
\* Mutant of WriteAccount: the vault is written before its account.
WriteHeaderFirst(a) ==
    /\ Ready /\ disk.header = NoRow
    /\ disk' = [disk EXCEPT !.header = [of |-> a, revision |-> 1]]
    /\ storeJob' = [op |-> "create", account |-> a]
    /\ UNCHANGED <<connected, storeCrashes>>

\* set_account: another account's record is never taken over; the cursor and
\* the floor of the same account stay.
WriteAccount(a) ==
    /\ Ready /\ disk.header = NoRow
    /\ disk.account # NoRow => disk.account.id = a
    /\ disk' = [disk EXCEPT !.account = IF @ = NoRow THEN [id |-> a, floor |-> 0] ELSE @]
    /\ storeJob' = [op |-> "create", account |-> a]
    /\ UNCHANGED <<connected, storeCrashes>>

\* insert_header, in one transaction with the settings.
InsertHeader ==
    /\ connected /\ storeJob.op = "create"
    /\ disk' = IF disk.header # NoRow THEN disk
               ELSE [disk EXCEPT !.header = [of |-> storeJob.account, revision |-> 1]]
    /\ storeJob' = NoJob
    /\ UNCHANGED <<connected, storeCrashes>>

Greater(a, b) == IF a > b THEN a ELSE b

FloorOf == Greater(disk.account.floor, disk.header.revision)

\* adopt_account_header, adopt_and_unlock: a header above the floor replaces
\* the local one, and then the floor is raised.
UpdateKeyWrap(revision) ==
    /\ Ready /\ disk.header # NoRow /\ disk.account # NoRow
    /\ revision > FloorOf
    /\ disk' = [disk EXCEPT !.header.revision = revision]
    /\ storeJob' = [op |-> "raise", revision |-> revision]
    /\ UNCHANGED <<connected, storeCrashes>>

RaiseMaxHeaderRev ==
    /\ connected /\ storeJob.op = "raise"
    /\ disk' = [disk EXCEPT !.account.floor = Greater(@, storeJob.revision)]
    /\ storeJob' = NoJob
    /\ UNCHANGED <<connected, storeCrashes>>

-----------------------------------------------------------------------------
(* The attachment cache, the most recently used first.                     *)

\* put_cached_attachment, and cached_attachment of a file it holds.
UseCached(f) ==
    /\ Ready
    /\ disk' = [disk EXCEPT !.cache = <<f>> \o Remove(@, f)]
    /\ UNCHANGED <<connected, storeJob, storeCrashes>>

\* What prune_attachment_cache leaves of s, given the total of what it kept so far.
Surviving(s, keep) ==
    LET total[n \in 0 .. Len(s)] ==
            IF n = 0 THEN 0
            ELSE total[n - 1] + (IF s[n] \in keep /\ total[n - 1] + FileBytes[s[n]] <= CacheCap
                                 THEN FileBytes[s[n]] ELSE 0)
    IN {n \in DOMAIN s : s[n] \in keep /\ total[n - 1] + FileBytes[s[n]] <= CacheCap}

\* It deletes the rows one statement at a time, the most recent first.
PruneOne(keep) ==
    /\ connected /\ storeJob.op \in {"none", "prune"}
    /\ storeJob.op = "prune" => keep = storeJob.keep
    /\ LET out == DOMAIN disk.cache \ Surviving(disk.cache, keep)
           n == CHOOSE n \in out : \A m \in out : n <= m
       IN /\ out # {}
          /\ disk' = [disk EXCEPT !.cache = RemoveAt(@, n)]
          /\ storeJob' = IF out = {n} THEN NoJob ELSE [op |-> "prune", keep |-> keep]
    /\ UNCHANGED <<connected, storeCrashes>>

StoreNext ==
    \/ OpenStore \/ CrashStore
    \/ \E a \in StoreAccounts : WriteAccount(a)
    \/ InsertHeader
    \/ \E r \in 1 .. MaxRevision : UpdateKeyWrap(r)
    \/ RaiseMaxHeaderRev
    \/ \E f \in CachedFiles : UseCached(f)
    \/ \E keep \in SUBSET CachedFiles : PruneOne(keep)

StoreSpec == StoreInit /\ [][StoreNext]_storeVars

-----------------------------------------------------------------------------
\* Types.
StoreTypeOK ==
    /\ disk.version \in 0 .. Current + 1
    /\ connected \in BOOLEAN
    /\ storeCrashes \in 0 .. MaxStoreCrashes

(* An open store has every table of this version, whatever version wrote   *)
(* the file and wherever an earlier run was cut off; and a vault never     *)
(* stands in it without the record of its own account, which holds the     *)
(* floor its headers are checked against.                                  *)
StoreIsWhole ==
    /\ connected => disk.version = Current /\ disk.tables = TablesOf(Current)
    /\ disk.header # NoRow => disk.account # NoRow /\ disk.account.id = disk.header.of

(* No order of changes and crashes between the two statements of one takes *)
(* the vault's header back to an earlier revision (so to an earlier        *)
(* master password).                                                       *)
HeaderNeverFallsBack ==
    [][disk.header # NoRow =>
        /\ disk'.header # NoRow /\ disk'.header.revision >= disk.header.revision
        /\ disk.account # NoRow => disk'.account.floor >= disk.account.floor]_storeVars
=============================================================================
