------------------------------ MODULE Replica ------------------------------
(***************************************************************************)
(* The replica each device keeps of the vault: the SQLite store            *)
(* (havenkeys-core store.rs) behind the operations of VaultService that    *)
(* sync uses (sync.rs and commit_write in vault.rs).  Every operation is   *)
(* one transaction under the vault mutex: one step.  The unlocked          *)
(* session's cache mirrors the store (Session.place / forget), so it is    *)
(* not kept apart.                                                         *)
(***************************************************************************)
EXTENDS VaultServer

CONSTANTS Devices,
          MaxLevel,     \* bound: the newest app version
          LevelOf       \* the app version a blob needs to open

ASSUME ReplicaAssumption == /\ MaxLevel \in Nat
                            /\ LevelOf \in [Blobs -> Nat]

VARIABLES replica,      \* items table of each device: a Row, or NoRow
          unreadable,   \* unreadable_items: the recorded revision, 0 for none
          cursor,       \* account.server_cursor
          level         \* the app version installed on the device

replicaVars == <<replica, unreadable, cursor, level>>

ReplicaInit == /\ replica = [d \in Devices |-> [i \in Items |-> NoRow]]
               /\ unreadable = [d \in Devices |-> [i \in Items |-> 0]]
               /\ cursor = [d \in Devices |-> 0]
               /\ level = [d \in Devices |-> 0]

\* Does the blob open here?  (check_item_bytes)
Opens(d, blob) == LevelOf[blob] <= level[d]

\* The items the replica holds (replica_item_ids, unreadable_item_ids).
Held(d) == {i \in Items : replica[d][i].rev > 0}
Unreadable(d) == {i \in Items : unreadable[d][i] > 0}

\* What one change does to the item's row and to its unreadable record:
\* a deletion drops both, a blob that opens replaces the row, and one that
\* does not is recorded and leaves the row alone.
ChangedRow(d, i, change) ==
    IF change.blob = Deleted THEN NoRow
    ELSE IF Opens(d, change.blob) THEN change
    ELSE replica[d][i]

\* Mutant of ChangedUnreadable: what did not open is forgotten.
ChangedForgotten(d, change) == 0

ChangedUnreadable(d, change) ==
    IF change.blob # Deleted /\ ~Opens(d, change.blob) THEN change.rev ELSE 0

\* apply_changes and Store::apply_pull, without the cursor: `changes` says
\* what becomes of each item of I, where NoRow is a deletion.
ApplyChanges(d, I, changes) ==
    /\ replica' = [replica EXCEPT ![d] = [i \in Items |->
         IF i \in I THEN ChangedRow(d, i, changes[i]) ELSE replica[d][i]]]
    /\ unreadable' = [unreadable EXCEPT ![d] = [i \in Items |->
         IF i \in I THEN ChangedUnreadable(d, changes[i]) ELSE unreadable[d][i]]]

\* One pulled page: its rows and its cursor, together.
ApplyRemoteChanges(d, next, page) ==
    /\ ApplyChanges(d, Mentioned(page), page)
    /\ cursor' = [cursor EXCEPT ![d] = next]

\* Mutant of Refetch: applied to items no longer recorded as unreadable.
RefetchUnchecked(d, requested, page) ==
    LET stale == {i \in Mentioned(page) : page[i].rev < unreadable[d][i]}
    IN  ApplyChanges(d, requested \ stale, page)

\* A fetch by id.  Only items still recorded as unreadable are touched; an
\* answer older than the record is dropped; an item the answer leaves out is
\* taken as deleted.
Refetch(d, requested, page) ==
    LET wanted == requested \cap Unreadable(d)
        stale == {i \in Mentioned(page) : page[i].rev < unreadable[d][i]}
    IN  ApplyChanges(d, wanted \ stale, page)

\* Mutant of DropItemsTheServerLacks: nothing goes.
DropNothing(d, held, seen) == ApplyChanges(d, {}, EmptyPage)

\* After a whole pull from cursor 0: what was held and not mentioned goes.
DropItemsTheServerLacks(d, held, seen) ==
    ApplyChanges(d, held \ seen, EmptyPage)

\* Mutant of ResetCursor: a cursor no pull can send.
ResetBelowZero(d) ==
    /\ cursor' = [cursor EXCEPT ![d] = -1]
    /\ unreadable' = [unreadable EXCEPT ![d] = [i \in Items |-> 0]]

\* Re-download: the cursor back to 0, and the unreadable records forgotten.
ResetCursor(d) ==
    /\ cursor' = [cursor EXCEPT ![d] = 0]
    /\ unreadable' = [unreadable EXCEPT ![d] = [i \in Items |-> 0]]

\* commit_write: record one accepted write at its revision.  The cursor and
\* the unreadable record stay as they are.
CommitRow(d, i, revision, blob) ==
    replica' = [replica EXCEPT ![d][i] =
                  IF blob = Deleted THEN NoRow ELSE [rev |-> revision, blob |-> blob]]

=============================================================================
