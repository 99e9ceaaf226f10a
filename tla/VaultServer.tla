---------------------------- MODULE VaultServer ----------------------------
(***************************************************************************)
(* One vault as the server keeps it, and the three handlers that read and  *)
(* write its items: POST /v1/items (routes/items.rs write), POST           *)
(* /v1/items/fetch (routes/items.rs fetch) and GET /v1/sync                *)
(* (routes/sync.rs pull).  Vaults never interact, so one is enough.        *)
(*                                                                         *)
(* A write is one transaction under the vault's row lock: one step.  A     *)
(* pull is two statements outside any transaction, each seeing its own     *)
(* snapshot: two steps, and a write of any device may commit in between.   *)
(*                                                                         *)
(* What a blob says is opaque to the server.  Only whether it is there     *)
(* (Deleted marks a tombstone) and, for the clients, which blob it is,     *)
(* matter.                                                                 *)
(***************************************************************************)
EXTENDS Integers, FiniteSets

CONSTANTS Items,        \* the item ids in play
          Blobs,        \* the sealed overview/details pairs in play
          Deleted,      \* stands for NULL blobs and a deletion time
          MaxRevision,  \* bound: writes stop when the vault reaches it
          PageRows,     \* MAX_PULL_PAGE, counted in rows
          MaxBatch      \* MAX_CHANGES_PER_BATCH

ASSUME ServerAssumption == /\ Deleted \notin Blobs
                           /\ MaxRevision \in Nat
                           /\ PageRows \in Nat \ {0}
                           /\ MaxBatch \in Nat \ {0}

VARIABLES rev,          \* vaults.revision
          rows          \* the items table, by item id

serverVars == <<rev, rows>>

Contents == Blobs \cup {Deleted}

\* A row of the items table.  Revision 0 means there is no row.
Row == [rev : Nat, blob : Contents]
NoRow == [rev |-> 0, blob |-> Deleted]

\* One change of a write request.  base is baseRevision, 0 for null.  seen is
\* a ghost: the content the writer was looking at when it made the change.
Change == [base : Nat, blob : Contents, seen : Contents]

\* A request names each item at most once (check_batch), so it is a function
\* of the item.  NoChange marks the items it leaves alone: no client deletes
\* an item it has no revision of.
NoChange == [base |-> 0, blob |-> Deleted, seen |-> Deleted]
Batch == [Items -> Change]
EmptyBatch == [i \in Items |-> NoChange]
Touched(batch) == {i \in Items : batch[i] # NoChange}

\* The rows of one answer, by item: NoRow for an item it does not mention.
Page == [Items -> Row]
EmptyPage == [i \in Items |-> NoRow]
Mentioned(page) == {i \in Items : page[i] # NoRow}

ServerInit == rev = 0 /\ rows = [i \in Items |-> NoRow]

-----------------------------------------------------------------------------
(* Writing                                                                 *)

\* Mutant of FindConflicts: an older base passes.
FindConflictsAhead(batch) == {i \in Touched(batch) : batch[i].base > rows[i].rev}

\* The changes whose base is not the stored revision, and deletions of what
\* is already deleted.  With no row the stored revision is 0, so any base
\* conflicts and a null one does not.
FindConflicts(batch) ==
    {i \in Touched(batch) : \/ batch[i].base # rows[i].rev
                            \/ /\ rows[i].rev > 0
                               /\ rows[i].blob = Deleted
                               /\ batch[i].blob = Deleted}

\* Mutant of ApplyBatch: rows stamped with the revision before the increment.
ApplyBatchEarly(batch) ==
    /\ rev' = rev + 1
    /\ rows' = [i \in Items |->
                  IF i \in Touched(batch)
                  THEN [rev |-> rev, blob |-> batch[i].blob]
                  ELSE rows[i]]

\* The whole batch at one new revision.
ApplyBatch(batch) ==
    /\ rev' = rev + 1
    /\ rows' = [i \in Items |->
                  IF i \in Touched(batch)
                  THEN [rev |-> rev + 1, blob |-> batch[i].blob]
                  ELSE rows[i]]

-----------------------------------------------------------------------------
(* Pulling                                                                 *)

\* The revisions above a cursor that some row carries.
RevisionsAfter(since) == {rows[i].rev : i \in {j \in Items : rows[j].rev > since}}

\* The rows between two revisions: what the second statement selects.
RowsThrough(since, through) ==
    [i \in Items |-> IF rows[i].rev > since /\ rows[i].rev <= through
                     THEN rows[i] ELSE NoRow]

Fits(since, r) == Cardinality(Mentioned(RowsThrough(since, r))) <= PageRows

\* r is the revision the page after `since` ends with: whole revisions only,
\* as many as fit, and always the first one (page_len).
PageEnds(since, r) ==
    /\ r \in RevisionsAfter(since)
    /\ Fits(since, r) \/ \A q \in RevisionsAfter(since) : r <= q
    /\ \A q \in RevisionsAfter(since) : q > r => ~Fits(since, q)

-----------------------------------------------------------------------------
(* Fetching by id                                                          *)

\* The current rows of the asked ids that get an answer.
FetchRows(answered) == [i \in Items |-> IF i \in answered THEN rows[i] ELSE NoRow]

=============================================================================
