------------------------------ MODULE Backup ------------------------------
(***************************************************************************)
(* Exports of the vault and the restore of an encrypted backup through the *)
(* server, while other devices write and delete the same items.  A restore *)
(* pulls, decides which items of the backup are not here, uploads their    *)
(* files, and sends the items in batches.  The server keeps a tombstone of *)
(* every deleted item and refuses to create it again; such a conflict is   *)
(* resolved item by item.                                                  *)
(***************************************************************************)
EXTENDS Naturals, Sequences, FiniteSets, SequencesExt

CONSTANTS BackupIds,        \* items of the backup; "identity" is the owner's
          MaxPerItem,       \* attachments an item may list
          MaxBatchSize, MaxRestores, MaxOthers, NoRun

ASSUME BackupAssumption == {MaxPerItem, MaxBatchSize, MaxRestores} \subseteq Nat \ {0}

Formats == {"backup", "backup without files", "bitwarden", "csv"}
BackupTypes == {"login", "note", "card", "bank", "identity"}

\* What an item holds that the summary of an export speaks of.  (Tags, app
\* bindings and the provider to sign in with are not counted when left out.)
ItemShapes == [type : BackupTypes, fields : 0..1, history : 0..1, passkeys : 0..1, files : 0..2, opens : BOOLEAN]

\* Fields, history and passkeys are of the types that have them.
Shapes == {s \in ItemShapes : /\ s.fields > 0 => s.type \in {"login", "note", "bank"}
                              /\ s.history + s.passkeys > 0 => s.type = "login"}

Parts(s) == {"item"} \cup {p \in {"fields", "history", "passkeys", "files"} : s[p] > 0}

\* What each writer puts in the file of an item that opens.
BitwardenParts(s) == Parts(s) \ {"passkeys", "files"}
CsvParts(s) == IF s.type \in {"login", "bank"} THEN {"item"} ELSE {}
BackupParts(s) == Parts(s) \ {"files"}

\* The parts of an item that are in a file of a format.
InFile(format, s) ==
    IF ~s.opens THEN {}
    ELSE IF format = "csv" THEN CsvParts(s)
    ELSE IF format = "bitwarden" THEN BitwardenParts(s)
    ELSE IF format = "backup" THEN Parts(s)
    ELSE BackupParts(s)

\* The parts that the summary shown to the owner counts as left out.
LeftOutBy(format, s) ==
    IF ~s.opens THEN {"item", "fields", "history", "passkeys", "files"}     \* unreadable
    ELSE IF format = "backup" THEN {}
    ELSE IF format = "backup without files" THEN {"files"}
    ELSE {"files"}
         \cup (IF s.type = "login" THEN {"passkeys"} ELSE {})
         \cup (IF format = "csv" /\ s.type = "login" THEN {"history"} ELSE {})
         \cup (IF format = "csv" /\ s.type \in {"login", "bank", "note"} THEN {"fields"} ELSE {})
         \cup (IF format = "csv" /\ s.type \notin {"login", "bank"} THEN {"item"} ELSE {})

-----------------------------------------------------------------------------
\* The file of a backup: a header with the number of records, the items and
\* one record per attachment, each sealed with its place.  A reader takes
\* the records in order and the file must end after the last.
FileRecords(n) == [count |-> n + 1, records |-> [i \in 1..n + 1 |-> [sealedAt |-> i - 1, of |-> IF i = 1 THEN "items" ELSE "file"]]]

\* What may have happened to the bytes since they were written.
Damage(f) == {f}
    \cup {[f EXCEPT !.records = SubSeq(f.records, 1, n)] : n \in 0..Len(f.records)}
    \cup {[f EXCEPT !.records = f.records \o f.records]}
    \cup {[f EXCEPT !.records = Reverse(f.records)]}
    \cup {[f EXCEPT !.count = c] : c \in 1..f.count}

\* A record opens under the header and the place it was sealed with.
RecordOpens(f, written, i) == i <= Len(f.records) /\ f.records[i].sealedAt = i - 1 /\ f.count = written

\* The reader gives every record, and nothing follows them.
ReadsWhole(f, written) == (\A i \in 1..f.count : RecordOpens(f, written, i)) /\ Len(f.records) = f.count

-----------------------------------------------------------------------------
VARIABLES copy,         \* the file an export wrote
          rows,         \* the server's row of each item: revision, live or deleted, who wrote it
          run,          \* the restore under way
          identityFiles,\* the backup's files the Identity lists
          restores, others,
          outcome       \* what the last restore that ended reported

backupVars == <<copy, rows, run, identityFiles, restores, others, outcome>>

Row(rev, live, by) == [rev |-> rev, live |-> live, by |-> by]
None == Row(0, FALSE, "nobody")

\* An item of the backup is as it was, changed, deleted or unknown to the
\* server; the Identity is there.
BackupInit ==
    /\ rows \in {r \in [BackupIds -> {None, Row(1, TRUE, "owner"), Row(1, FALSE, "owner")}] :
                    "identity" \in BackupIds => r["identity"].live}
    /\ copy = NoRun /\ run = NoRun /\ identityFiles = <<>>
    /\ restores = 0 /\ others = 0 /\ outcome = NoRun

\* An item is exported; the records of a backup are its files.  The bytes
\* of the file may change before it is read.
Export ==
    /\ copy = NoRun /\ run = NoRun /\ restores = 0 /\ others = 0
    /\ \E format \in Formats, s \in Shapes :
         LET n == IF format = "backup" /\ s.opens THEN s.files ELSE 0 IN
         copy' = [format |-> format, shape |-> s, written |-> n, file |-> FileRecords(n)]
    /\ UNCHANGED <<rows, run, identityFiles, restores, others, outcome>>

Spoil ==
    /\ copy # NoRun /\ \E f \in Damage(FileRecords(copy.written)) : copy' = [copy EXCEPT !.file = f]
    /\ UNCHANGED <<rows, run, identityFiles, restores, others, outcome>>

Live(r) == {i \in DOMAIN r : r[i].live}

\* rebuild: an item of the backup is checked as an edit of its owner is, and
\* left out if it fails.  (One bad item at most.)
Rebuilt(new) == {new} \cup {new \ {bad} : bad \in new}

\* plan_restore: what is here, live or in the trash, is skipped; of the
\* Identity only the files that it does not list are wanted.
StartRestore ==
    /\ run = NoRun /\ restores < MaxRestores
    /\ copy # NoRun => copy.format \in {"backup", "backup without files"} /\ ReadsWhole(copy.file, copy.written + 1)
    /\ copy' = NoRun /\ restores' = restores + 1
    /\ \E new \in Rebuilt(BackupIds \ Live(rows)) :
       LET ident == "identity" \in BackupIds \cap Live(rows) IN
       run' = [phase |-> "files", new |-> new, todo |-> new \cup {i \in BackupIds : i = "identity" /\ ident},
               held |-> identityFiles, files |-> {}, queue |-> {}, batch |-> {}, revived |-> {}, found |-> {}, skipped |-> BackupIds \cap Live(rows),
               failed |-> BackupIds \ (Live(rows) \cup new), committed |-> {}]
    /\ UNCHANGED <<rows, identityFiles, others, outcome>>

\* Mutant of Target: the Identity takes any file there is room for.
AnyRoom(i) == i \in run.new \/ (i = "identity" /\ Len(run.held) < MaxPerItem)

\* RestorePlan::target: the item a file goes to has room and, for the
\* Identity, does not have it.
Target(i) == i \in run.new \/ (i = "identity" /\ Len(run.held) < MaxPerItem /\ "file" \notin Range(run.held))

\* One file of the backup is sealed again and uploaded, or counted as
\* skipped: no target, no quota, or a server without attachments.
UploadFile(i) ==
    /\ run # NoRun /\ run.phase = "files" /\ i \in run.todo
    /\ \E stored \in BOOLEAN :
          /\ stored => Target(i)
          /\ run' = [run EXCEPT !.todo = @ \ {i}, !.files = IF stored THEN @ \cup {i} ELSE @]
    /\ UNCHANGED <<copy, rows, identityFiles, restores, others, outcome>>

\* stage_restore: the new items, each created.  In which order they go out
\* the backup says, so any may be next.
StageRestore ==
    /\ run # NoRun /\ run.phase = "files" /\ run.todo = {}
    /\ run' = [run EXCEPT !.phase = "items", !.queue = [id : run.new, base : {0}]]
    /\ UNCHANGED <<copy, rows, identityFiles, restores, others, outcome>>

\* The next batch of the queue.
TakeBatch ==
    /\ run # NoRun /\ run.phase = "items" /\ run.batch = {} /\ run.queue # {}
    /\ \E next \in SUBSET run.queue :
          /\ Cardinality(next) = Min({MaxBatchSize, Cardinality(run.queue)})
          /\ run' = [run EXCEPT !.batch = next, !.queue = @ \ next, !.revived = {}]
    /\ UNCHANGED <<copy, rows, identityFiles, restores, others, outcome>>

\* The server takes a batch whole if each item is at the revision it names.
IdsOf(batch) == {w.id : w \in batch}
Conflicting(batch) == {w.id : w \in {x \in batch : rows[x.id].rev # x.base}}
RestoredRows(batch) == [i \in BackupIds |-> IF i \in IdsOf(batch) THEN Row(rows[i].rev + 1, TRUE, "restore") ELSE rows[i]]

SendRestore ==
    /\ run # NoRun /\ run.phase = "items" /\ run.batch # {}
    /\ \/ /\ Conflicting(run.batch) = {}
          /\ rows' = RestoredRows(run.batch)
          /\ run' = [run EXCEPT !.batch = {}, !.committed = @ \cup IdsOf(run.batch)]
       \/ /\ Conflicting(run.batch) # {}
          /\ run' = [run EXCEPT !.phase = "asking", !.found = Conflicting(run.batch)]
          /\ UNCHANGED rows
    /\ UNCHANGED <<copy, identityFiles, restores, others, outcome>>

\* Only a row the server reports deleted is revived, and only once.
Revivable(i) == ~rows[i].live /\ rows[i].rev > 0 /\ i \notin run.revived

\* The conflicts of a batch: a tombstone is written over at the revision the
\* server reports, a live item is left alone.
ResolveConflicts ==
    /\ run # NoRun /\ run.phase = "asking"
    /\ LET again == {i \in run.found : Revivable(i)}
           gone == run.found \ again IN
       run' = [run EXCEPT !.phase = "items", !.found = {}, !.revived = @ \cup again, !.skipped = @ \cup gone,
                          !.batch = {w \in @ : w.id \notin run.found}
                                    \cup {[id |-> i, base |-> rows[i].rev] : i \in again}]
    /\ UNCHANGED <<copy, rows, identityFiles, restores, others, outcome>>

\* The Identity's files are listed by one more write, after the items.
FinishRestore ==
    /\ run # NoRun /\ run.phase = "items" /\ run.batch = {} /\ run.queue = {}
    /\ identityFiles' = IF "identity" \in run.files \ run.new THEN Append(identityFiles, "file") ELSE identityFiles
    /\ outcome' = [restored |-> run.committed, skipped |-> run.skipped, failed |-> run.failed] /\ run' = NoRun
    /\ UNCHANGED <<copy, rows, restores, others>>

\* Any step may fail for good: the answer of a write may be lost after the
\* server took it.
RestoreFails ==
    /\ run # NoRun /\ run' = NoRun
    /\ \/ rows' = rows
       \/ /\ run.phase = "items" /\ run.batch # {} /\ Conflicting(run.batch) = {}
          /\ rows' = RestoredRows(run.batch)
    /\ UNCHANGED <<copy, identityFiles, restores, others, outcome>>

\* Another device creates or changes an item, deletes it or brings it back.
OtherWrites(i) ==
    /\ others < MaxOthers /\ others' = others + 1
    /\ \E live \in BOOLEAN : (live \/ (rows[i].live /\ i # "identity")) /\ rows' = [rows EXCEPT ![i] = Row(rows[i].rev + 1, live, "other")]
    /\ UNCHANGED <<copy, run, identityFiles, restores, outcome>>

BackupNext ==
    \/ Spoil \/ Export
    \/ StartRestore \/ StageRestore \/ TakeBatch \/ SendRestore \/ ResolveConflicts \/ FinishRestore \/ RestoreFails
    \/ \E i \in BackupIds : UploadFile(i) \/ OtherWrites(i)

\* A restore goes on until it ends or fails; nobody else is promised.
BackupSpec == BackupInit /\ [][BackupNext]_backupVars

-----------------------------------------------------------------------------
\* Rows and the restore have their types.
BackupTypeOK ==
    /\ DOMAIN rows = BackupIds /\ restores <= MaxRestores /\ others <= MaxOthers
    /\ run # NoRun => run.phase \in {"files", "items", "asking"} /\ run.new \subseteq BackupIds

\* A restore never writes over a live item, whatever other devices do between
\* its pull, its question about the conflicts and its writes.
NeverOverwrites ==
    [][\A i \in BackupIds : rows[i].live /\ rows'[i] # rows[i] => rows'[i].by # "restore"]_backupVars

\* A restore that ended brought back every item of the backup, found it
\* live or in use by another device, or not valid; and it told which.
NothingIsForgotten ==
    outcome # NoRun =>
        /\ outcome.restored \cup outcome.skipped \cup outcome.failed = BackupIds
        /\ outcome.restored \cap (outcome.skipped \cup outcome.failed) = {}

\* However often a backup is restored, the Identity lists its file once.
FilesComeOnce == Len(identityFiles) <= 1

\* What an export leaves out of an item, it counts; and it counts nothing
\* that is in the file.
SummaryIsTrue ==
    copy # NoRun =>
        LET s == copy.shape IN
        /\ InFile(copy.format, s) \cup (LeftOutBy(copy.format, s) \cap Parts(s)) = Parts(s)
        /\ InFile(copy.format, s) \cap LeftOutBy(copy.format, s) = {}

\* A backup that was cut short, extended, reordered or given another count
\* is refused: what is read whole is what was written.
WholeOrRefused ==
    copy # NoRun /\ ReadsWhole(copy.file, copy.written + 1) => copy.file = FileRecords(copy.written)

\* An export says what it leaves out, a damaged backup is refused, and what a
\* restore reports is what it did (export.rs, backup.rs, client restore.rs).
BackupsAreTrue == NothingIsForgotten /\ FilesComeOnce /\ SummaryIsTrue /\ WholeOrRefused
=============================================================================
