---------------------------- MODULE Attachments ----------------------------
(***************************************************************************)
(* The files of one item, from the upload to the sweep.  A save uploads    *)
(* its files first (rows that are not committed), then writes the item     *)
(* with the list of its files; the server makes the rows match the list,   *)
(* and a daily job removes uploads no write has claimed.  Uploads and item *)
(* writes hold the vault row; the job does not.                            *)
(***************************************************************************)
EXTENDS Naturals, FiniteSets

CONSTANTS Savers,       \* devices that edit the item
          Files,        \* attachment ids, each uploaded once
          MaxPerEntry,     \* MAX_ATTACHMENTS_PER_ITEM
          MaxStored,    \* MAX_ATTACHMENT_VAULT_BYTES, in files
          MaxItemRev    \* bound: item revisions

ASSUME AttachmentsAssumption ==
  /\ MaxPerEntry \in Nat /\ MaxStored \in Nat /\ MaxItemRev \in Nat \ {0}
  /\ "none" \notin Savers

VARIABLES
  rows,      \* file -> "none", "new", "stale" (uncommitted) or "committed"
  used,      \* the attachment ids drawn so far
  item,      \* the server's item: revision, files, deleted
  copy,      \* saver -> its replica of the item
  cache,     \* saver -> the files its cache holds
  save,      \* saver -> the save it is making
  writer,    \* the saver whose write transaction is open, or "none"
  taken      \* history: files swept after an open write had counted them

fileVars == <<rows, used, item, copy, cache, save, writer, taken>>

NoSave == [at |-> "none", added |-> {}, removed |-> {}, files |-> {}, base |-> 0]

FileInit ==
  /\ rows = [f \in Files |-> "none"] /\ used = {}
  /\ item = [rev |-> 1, files |-> {}, deleted |-> FALSE]
  /\ copy = [c \in Savers |-> item] /\ cache = [c \in Savers |-> {}]
  /\ save = [c \in Savers |-> NoSave] /\ writer = "none" /\ taken = {}

Uploaded == {f \in Files : rows[f] # "none"}

\* A pull brings the replica up to date.
PullItem(c) ==
  /\ copy[c] # item /\ copy' = [copy EXCEPT ![c] = item]
  /\ UNCHANGED <<rows, used, item, cache, save, writer, taken>>

\* check_limits, on the replica the device has now.
BeginSave(c, removed) ==
  /\ save[c] = NoSave /\ ~copy[c].deleted
  /\ removed \subseteq copy[c].files
  /\ \/ Cardinality(copy[c].files) + 1 <= MaxPerEntry + Cardinality(removed)
        /\ save' = [save EXCEPT ![c] = [NoSave EXCEPT !.at = "upload", !.removed = removed]]
     \/ removed # {} /\ save' = [save EXCEPT ![c] = [NoSave EXCEPT !.at = "stage", !.removed = removed]]
  /\ UNCHANGED <<rows, used, item, copy, cache, writer, taken>>

Abandon(c) == save' = [save EXCEPT ![c] = NoSave]

\* attachments::put under the vault row: quota, then an uncommitted row.  The
\* answer may be lost: the save fails and the row stays.
Put(c, f) ==
  /\ save[c].at = "upload" /\ f \notin used /\ writer = "none"
  /\ Cardinality(Uploaded) < MaxStored
  /\ used' = used \cup {f} /\ rows' = [rows EXCEPT ![f] = "new"]
  /\ \/ /\ save' = [save EXCEPT ![c].at = "stage", ![c].added = {f}]
        /\ cache' = [cache EXCEPT ![c] = @ \cup {f}]
     \/ Abandon(c) /\ UNCHANGED cache
  /\ UNCHANGED <<item, copy, writer, taken>>

PutRefused(c) ==
  /\ save[c].at = "upload" /\ Abandon(c)
  /\ UNCHANGED <<rows, used, item, copy, cache, writer, taken>>

\* FileEdits::apply on the replica as it is once the uploads are done.
Stage(c) ==
  LET s == save[c]  files == (copy[c].files \ s.removed) \cup s.added IN
  /\ s.at = "stage"
  /\ IF ~copy[c].deleted /\ s.removed \subseteq copy[c].files /\ Cardinality(files) <= MaxPerEntry
     THEN save' = [save EXCEPT ![c].at = "send", ![c].files = files, ![c].base = copy[c].rev]
     ELSE Abandon(c)
  /\ UNCHANGED <<rows, used, item, copy, cache, writer, taken>>

\* Mutant of AllKnown: the list is taken as it is.
AnyList(files) == TRUE

\* Every listed id is one of the item's rows.
AllKnown(files) == \A f \in files : rows[f] # "none"

\* The item write takes the vault row, checks the base revision and counts the
\* listed rows,
WriteCounts(c) ==
  /\ save[c].at = "send" /\ writer = "none"
  /\ IF save[c].base = item.rev /\ AllKnown(save[c].files) /\ item.rev < MaxItemRev
     THEN writer' = c /\ UNCHANGED save
     ELSE Abandon(c) /\ UNCHANGED writer
  /\ UNCHANGED <<rows, used, item, copy, cache, taken>>

\* The rows once apply_attachments has run: the listed ones are committed, the
\* item's others dropped.
RowsFor(files) ==
  [f \in Files |-> IF rows[f] = "none" \/ f \notin files THEN "none" ELSE "committed"]

\* commits the listed rows, drops the others and stores the item; the answer
\* arrives, or is lost and a later pull brings the item.
WriteCommits(c) ==
  LET next == [rev |-> item.rev + 1, files |-> save[c].files, deleted |-> FALSE] IN
  /\ writer = c
  /\ rows' = RowsFor(save[c].files) /\ item' = next /\ writer' = "none" /\ Abandon(c)
  /\ \/ copy' = [copy EXCEPT ![c] = next] /\ cache' = [cache EXCEPT ![c] = @ \cap next.files]
     \/ UNCHANGED <<copy, cache>>
  /\ UNCHANGED <<used, taken>>

\* The transaction or the request is lost before its commit.
WriteFails(c) ==
  /\ save[c].at = "send" /\ Abandon(c)
  /\ writer' = IF writer = c THEN "none" ELSE writer
  /\ UNCHANGED <<rows, used, item, copy, cache, taken>>

\* A write that lists no files (an edit of other fields) leaves the rows alone;
\* a deletion drops them all.
WriteOther(c) ==
  /\ writer = "none" /\ copy[c] = item /\ ~item.deleted /\ item.rev < MaxItemRev
  /\ \/ item' = [item EXCEPT !.rev = @ + 1] /\ UNCHANGED rows
     \/ /\ item' = [rev |-> item.rev + 1, files |-> {}, deleted |-> TRUE]
        /\ rows' = RowsFor({})
  /\ copy' = [copy EXCEPT ![c] = item']
  /\ UNCHANGED <<used, cache, save, writer, taken>>

\* An upload grows older than PENDING_ATTACHMENT_TTL_HOURS.
GrowsStale(f) ==
  /\ rows[f] = "new"
  /\ rows' = [rows EXCEPT ![f] = "stale"]
  /\ UNCHANGED <<used, item, copy, cache, save, writer, taken>>

\* What run_daily removes of the attachments table.
Swept == {f \in Files : rows[f] = "stale"}

\* What the open write has counted and not committed yet.
Counted == UNION {save[c].files : c \in {d \in Savers : d = writer}}

SweepUploads ==
  /\ Swept # {}
  /\ rows' = [f \in Files |-> IF f \in Swept THEN "none" ELSE rows[f]]
  /\ taken' = taken \cup (Swept \cap Counted)
  /\ UNCHANGED <<used, item, copy, cache, save, writer>>

\* attachment_bytes: from the cache, or downloaded (only a committed row is
\* answered) and then cached.
OpenFile(c, f) ==
  /\ f \in copy[c].files \ cache[c] /\ rows[f] = "committed"
  /\ cache' = [cache EXCEPT ![c] = @ \cup {f}]
  /\ UNCHANGED <<rows, used, item, copy, save, writer, taken>>

FileNext ==
  \/ \E c \in Savers :
       \/ PullItem(c) \/ PutRefused(c) \/ Stage(c) \/ WriteCounts(c) \/ WriteCommits(c)
       \/ WriteFails(c) \/ WriteOther(c)
       \/ \E removed \in SUBSET Files : BeginSave(c, removed)
       \/ \E f \in Files : Put(c, f) \/ OpenFile(c, f)
  \/ \E f \in Files : GrowsStale(f)
  \/ SweepUploads

\* The job runs every day, and a save ends: its requests have timeouts.
FileFairness ==
  /\ WF_fileVars(SweepUploads)
  /\ \A f \in Files : WF_fileVars(GrowsStale(f))
  /\ \A c \in Savers :
       /\ WF_fileVars(PutRefused(c)) /\ WF_fileVars(Stage(c))
       /\ SF_fileVars(WriteCounts(c)) /\ WF_fileVars(WriteCommits(c))

FileSpec == FileInit /\ [][FileNext]_fileVars /\ FileFairness

-----------------------------------------------------------------------------

\* Rows, replicas and saves have their types.
FileTypeOK ==
  /\ rows \in [Files -> {"none", "new", "stale", "committed"}] /\ used \subseteq Files /\ taken \subseteq Files
  /\ item.rev \in 1..MaxItemRev /\ item.files \subseteq Files
  /\ writer \in Savers \cup {"none"}
  /\ \A c \in Savers : cache[c] \subseteq Files /\ save[c].added \subseteq Files

\* Every file the server's item lists can be downloaded: whatever uploads, saves
\* of two devices, deletions and sweeps overlap, the row is there and committed.
\* One case is excepted, in which the code does list a file it has not: the
\* sweep took an upload of more than a day after the write that lists it had
\* counted the row and before it committed it (items.rs apply_attachments,
\* whose transaction does not lock what it counts).
ListedIsStored == \A f \in item.files \ taken : rows[f] = "committed"

\* A file that no item lists takes no room for ever: it is claimed or swept.
UploadsEnd ==
  \A f \in Files : rows[f] \in {"new", "stale"} ~> rows[f] \in {"none", "committed"}
=============================================================================
