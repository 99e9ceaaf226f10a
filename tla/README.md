# HavenKeys: TLA+ verification project

HavenKeys is a password manager: a server that stores encrypted items, and
clients (desktop, Android, a browser extension behind the desktop app) that hold
a replica of the vault and the only keys to it. This directory holds TLA+ models
of its parts, the TLC configurations that check them on small instances, and
TLAPS proofs of what matters most for every instance.

The project models, in the order of what a user would lose:

* **item sync** - how replicas follow the server and edits get there;
* **credentials** - how a password is proved, changed and followed by other devices;
* **the server's other protocols** - devices, guess limits, pairing, sign-up,
  attachments, the answers and limits of every request;
* **one device's copy** - its files and Secret Key, migrations, edits, imports,
  backups, the health report and the usage scores;
* **who may have what** - web pages and the bridge to the extension, passkeys, apps
  on the phone, Quick Access;
* **what runs beside the vault** - connections, clocks, the clipboard, updates.

## 1. The system: inventory

### Components, their state and their operations

(`server`, `client`, `core`, ... stand for `src/crates/havenkeys-server/src`, and
so on; `desktop` for `src/apps/desktop/src-tauri/src`.) `PROJECT.json` has the same
list in finer grain, with a status and what is left out for each.

| component | code | state | operations that change it |
|---|---|---|---|
| items and pull | `server/routes/items.rs`, `sync.rs` | `vaults.revision`, the `items` table | write a batch, pull a page, fetch by id |
| credentials and sign-in | `server/routes/account.rs`, `auth.rs`, `auth/mod.rs`, `pake.rs` | KDF parameters, legacy verifier, OPAQUE record, key header, sessions | prelogin, legacy login, OPAQUE start and finish, enrol, re-authenticate, change credentials, log out |
| devices, erasure | `server/routes/auth.rs`, `devices.rs`, `erase.rs` | `devices`, `sessions`, tombstones | register under a ceiling, revoke, erase the account |
| pairing | `server/routes/pairings.rs`, `client/pairing.rs` | a `pairings` row; the link a new device shows | start, look up, approve, deny, poll, claim, cancel |
| attachments | `server/routes/attachments.rs`, `billing/jobs.rs`, `client/attachments.rs` | uploads, committed or not | upload under a quota, claim by an item write, sweep |
| sign-up, plans | `server/routes/signup.rs`, `accounts.rs`, `billing/` | codes, invites, accounts, plan dates, notices sent | sign up, invite, activate once, set a plan, the daily job |
| guess limits | `server/auth/rate_limit.rs` | counters by account and by address | charge, check, record, clear |
| requests | `sync-client`, `server/error.rs`, `limits.rs` | one operation under way | send, refuse, answer, fall back, translate an error |
| sync engine, connectivity | `client/sync.rs`, `client.rs` | the session slot, Online / Unreachable / Offline, the tasks under way | connect, `sync_now`, `push`, purge expired trash |
| account | `client/account.rs`, `pake.rs` | the session, the stored key header | activate, unlock, unlock from the server, change password, sign out |
| local files | `client/device.rs`, `deletion.rs`, `removal.rs`, `core/store.rs` | vault file, Secret Key, marker of a wipe; schema, header, cache | activate, sign in, remove, wipe, open and migrate, prune |
| vault service | `core/vault.rs`, `sync.rs`, `trash.rs` | locked, unlocking or unlocked; the epoch; decrypted overviews; cursor | unlock, lock, stage and commit a write, apply a page, re-key |
| item content | `core/vault.rs`, `model.rs`, `import/`, `export/`, `health/`, `activity.rs`, `client/restore.rs` | items, histories, the cached report, the scores | edit, import, export, restore, report, count a use |
| matching | `core/origin.rs`, `equivalent.rs`, `app_fill.rs`, `asset_links.rs`, `passkey/`, `mobile/` | rules of an item, recent fills, the cache of asset links | match, fill, offer to save, create and drop passkeys |
| bridge | `bridge/`, `native-host/`, `protocol/` | connections and threads, limits, one pending confirmation | dispatch a request, confirm an update, notify |
| desktop shell | `desktop/` | clipboard, idle clock, scans, picked files, shortcut, updates | copy, clear, lock, scan, pick, switch the shortcut, check and install |
| phone bindings | `mobile/` | idle clock, event pump | tick, lock, deliver events |
| cryptography, generators, documents | `core/crypto/`, `generator.rs`, `totp.rs`, ... | none | pure functions |

### How they interact

The server is the authority: a device shows an edit only after the server accepted
it. A device's shell starts asynchronous tasks (`sync_now` every minute, on unlock and
on request; `push` for each edit; `connect`; a password change) that share one
`VaultService` behind a mutex. A task takes that mutex for each local operation and
**never holds it across a request, a dialog or a key derivation**, so any two tasks of one
device interleave at every `await`. The server's handlers run concurrently on a connection
pool; some work in one transaction, some (the pull, a sign-in) in separate statements,
some give the connection back in the middle to run Argon2id. The extension talks to
the native host, the host to the desktop's bridge, whose threads read the vault through the
same mutex and may wait for the owner in a dialog. A lock of the vault can come
at any moment and must win over whatever is in flight; an *epoch* counter tells a task that
came back that it did.

### What is hard

* two tasks of one device: a push's answer, a pull's page and a fetch by id reach
  the same replica in any order; an editor, a report or a confirmation that was opened
  before a pull ends after it;
* a handler whose statements see different snapshots, or whose check and write are
  apart (pull; password change; enrolment; sign-in; activation; sweep of uploads);
* an answer that is lost or late: the client gives up, the server or the keychain does not;
* a lock, or a lock and an unlock, or the end of the app, between any two steps;
* a server whose database is restored from a dump, so that revisions repeat;
* clocks: blocks that grow, windows, intervals, timers that fire after their reason is gone;
* limits in rows, bytes and counts that two programs must agree on;
* numbers that must stay in step: cursor, row revisions, header revision, floor.

`PROJECT.json` lists each as a hazard at the line where it bites, with the
properties that would catch it going wrong.

### What makes each component correct

Items: no write replaces content its writer had not seen; no replica is ahead of the
server; a cursor never passes what the replica lacks; replicas converge. Credentials:
parameters, keys and header belong to one password; a device holds only headers the server
installed and never goes back; the present password opens every device; a lock ends every
session. Devices: the ceiling holds; the newest sign-in of a device stands; a revoked or
erased one is told so. Limits: an account takes few guesses in any window. Pairing: one
decision, one session, for what the approver saw. Attachments: a listed file exists, an
unlisted one goes away. Local files: a wipe that began ends and takes only the vault the
server erased; what was reported gone is gone. Content: an edit changes what its owner
changed; an import, backup or restore loses nothing silently (but for what section 6 lists) and repeats nothing.
Pages and apps: they get their own only; changes need consent given in time, under the same
unlock. Beside the vault: a secret leaves the clipboard, an idle vault locks, a lost server is
found again, and none of it takes what is the owner's.

## 2. The modules

| module | models | state and actions, and what they stand for |
|---|---|---|
| `VaultServer` | `server/routes/items.rs`, `sync.rs` | the tables, and the operators of `write`, `pull` and `fetch` |
| `Replica` | `core/sync.rs`, `store.rs` | a device's store, and the operators that apply pages, fetched rows, drops and commits |
| `ItemSync` | `client/sync.rs` | extends `Replica`: devices, tasks, lost answers, locks, restarts, restores of the database; what item sync promises, its fairness and small instances |
| `SharedVault` | | abstract: one shared copy, changed by drafts that are published whole, and only while every item still is as their writer saw it; `ItemSync` implements it |
| `AccountServer`, `Credentials` | `server/routes/account.rs`, `auth.rs`; `client/account.rs` | the account row, header history and sessions; devices and tasks that unlock, sign in, sync and change the password; their properties |
| `Devices` | `server/routes/auth.rs`, `devices.rs`, `erase.rs` | device and session tables under the separate statements of `complete_login`, revocation, logout, erasure (whose transaction holds the account row) |
| `RateLimit` | `server/auth/rate_limit.rs` | `login_attempts` rows: `Guess` charges both rows before the key is looked at; a claim checks first and records later |
| `PairingOnce` | | abstract: a link is decided once, by the account that looked first, and gives one session |
| `Pairing` | `server/routes/pairings.rs`, `client/pairing.rs` | the row of a pairing, the joiner's link and poll, two owners; implements `PairingOnce` |
| `Signup` | `server/routes/signup.rs`, `accounts.rs`, `admin.rs`, `billing/` | one address from code to end of trial: `ActivateChecked` and `ActivateCommits` with hashing between, `SetPlan`, `Notify`, `Day` |
| `Attachments` | `server/routes/attachments.rs`, `items.rs`, `billing/jobs.rs`; `client/attachments.rs` | rows of uploads and the item that lists them: `Put`, `WriteCounts`/`WriteCommits`, `SweepUploads` without the vault lock |
| `Requests` | `sync-client/`, `server/error.rs`, `limits.rs` | one operation, its requests in order, the answer on its way, what the caller hears |
| `PullPage` | `server/routes/sync.rs` `page_len` | the cut of a pull in rows and bytes, against a reference definition |
| `LocalVault` | `client/device.rs`, `key_store.rs`, `deletion.rs`, `removal.rs`, `account.rs` | file, keychain and `device.json`, marker; a keychain call that times out goes on (`LateCallEnds`); `Crash`, `Start` |
| `StoreFile` | `core/store.rs` | schema versions and the operations of several statements; `CrashStore` between any two |
| `Editing` | `core/vault.rs` `build_item`, `mobile/edit.rs`, `desktop/commands.rs` | the item here and at the server, the form an editor was opened with, the write on its way |
| `Import` | `core/import/`, `core/vault.rs` `stage_import` | an entry is the sequence of its values; converting finds each a place; batches that may fail |
| `Backup` | `core/export/`, `client/restore.rs`, `desktop/export.rs` | the file, the server's rows, the restore under way next to another device |
| `Health` | `core/health/`, `client/health.rs` | `TakeSnapshot`, computation without the mutex, `FinishReport` against generation and epoch |
| `Activity` | `core/activity.rs` | scores that halve with time, recent searches, a clock that may be set back |
| `Reading` | `core/vault.rs`, `mobile/items.rs`, `desktop/card.rs`, `bank.rs`, `identity.rs`, `custom_field.rs` | the rows of an item's screen, values asked for one at a time, copies, lists and searches, against an item that changes and a vault that locks in between |
| `Values` | `core/identity.rs`, `card.rs`, `bank.rs`, `custom_field.rs`, `model.rs`, `totp.rs` | how typed values are cleaned, checked and shown, as operators; one value at a time |
| `PageVault` | `core/origin.rs`, `equivalent.rs`, `lookalike.rs`, `passkey/rp.rs`, `card_page.rs`; `vault.rs`, `app_fill.rs` | pure matching of rules, frames, tops and relying parties; what a page or an app gets, is offered to save, and saves |
| `Bridge` | `bridge/server.rs`, `dispatch.rs`, `ratelimit.rs`, `desktop/confirm.rs` | threads of requests that change an item, reservations of the limiter, the one dialog |
| `Passkeys` | `core/passkey/vault.rs`, `bridge/dispatch.rs` | fills, checks, silent and asked creates that overlap, the site's answer and list |
| `Connections` | `bridge/server.rs`, `ratelimit.rs` | accept loop, reader and writer threads, outbox, background threads, buckets |
| `Wire` | `protocol/`, `native-host/`, `bridge/dispatch.rs` | every kind of message, with the checks of both ends on a request and its answer through host and desktop |
| `QuickAccess` | `desktop/quick_access.rs`, `quick_window.rs` | file, registration and system agree on a shortcut; the window across locks |
| `PhoneFill` | `mobile/autofill.rs`, `credentials.rs`, `save.rs`, `cards.rs`; `core/asset_links.rs`, `app_target.rs` | calls that read the vault, ask websites without the mutex and write the cache back |
| `PhoneClock` | `mobile/events.rs`, `vault.rs`, `settings.rs`; `core/lock.rs` | idle clock, callers that find a lock due, the event pump |
| `Shell` | `desktop/state.rs`, `clipboard.rs`, `qr_scan.rs`, `commands.rs` | clocks, clipboard and its timers, scans and picked files next to a lock |
| `Reach` | `client/client.rs`, `sync.rs` | connectivity, requests that end after the lock and the next unlock |
| `Updates` | `desktop/updater.rs`, `updates.rs` | check, offer, download, install as tasks with a mutex for each piece |
| `SyncProofs`, `CredentialProofs`, `ServerProofs`, `BridgeProofs`, `ContentProofs`, `ItemProofs`, `LocalProofs`, `BackgroundProofs` | | the TLAPS proofs (section 5) |
| `MCCredentials`, `MCServerBrowser`, `MCVaultContent`, `MCAppsBackground` | | the small instances |

The modules also hold, in front of some definitions, a wrong variant of them (an
off-by-one, a dropped check). They take no part in the specification: each
property is known to fail when one of them takes its original's place, which
`PROJECT.json` records under `mutants`.

Its `map` gives the source lines of every action and of every operator that stands for code of
its own; a small helper goes with the definition that uses it.

**Scenes.** Parts that do not share state would only multiply each other's states when run
side by side. The three large MC modules therefore extend several part modules and add a
constant variable `scene`: in a behaviour one part is at work and the others rest in
one initial state. Every property of such a run holds in every scene; the ones that combine
parts (`TypesOK`, `LocalCopyAgrees`, ...) name their conjuncts, which live in the part
modules. `MCCredentials` has the scenes "one" (a device with two tasks) and "two" (two
devices with one each).

### Item sync

An item is an id with a row `[rev, blob]`; the blob is an opaque value, `Deleted`
a tombstone, revision 0 no row. State and code:

| variable | code |
|---|---|
| `rev`, `rows` | `vaults.revision`, the `items` table |
| `replica`, `unreadable`, `cursor` | a device's items table, its unreadable records, the stored cursor |
| `level` | the app's version: `LevelOf` says which a blob needs to open |
| `open` | the vault is unlocked and holds a session |
| `sync[t]`, `push[t]` | the local variables of `sync_now` and `push` in task t |
| `backup`, `restores` | the operator's last dump, how often it was put back (external: `docs/deployment.md`) |

`AcceptWrite` is the whole transaction of `write`, which runs under the vault's row lock.
`PullSizes` and `PullRows` are the pull's two statements: each sees its own
snapshot, so any write may come between them. Each step of `sync_now` that takes the
vault mutex is one action (`ReadCursor`, `PullApply`, `DropLacking`,
`RetryUnreadable`, `ApplyRefetched`, `PurgeExpired`). `push` stages under the mutex
and sends (`StageCreate`, `StageIdentity`, `StageUpdate`, `StageDelete`, `StagePurge`);
`CommitWrite` records an accepted batch one write at a time; `CommitRefused` is the
epoch check. `PushTimesOut` leaves the request to the server, which may still carry it
out, after later requests of the same device.

Ghosts, which no action reads: `Change.seen` (the content the writer looked at) and
`Sync.began` (the vault's revision when the pull began).

`Overlap` and `Quiet` narrow the timing. The code guarantees only `Overlap = "all"`
(any tasks of one device overlap) and `Quiet = FALSE`. `CursorCovers` fails there
(see findings); `sync_retry` shows that it holds when only a retry of unreadable records
overlaps a pull and no write falls into an empty pull. Likewise liveness.

### Credentials

A credential is a number: one password with one fresh salt. It stands for the KDF
parameters, the auth key derived from them, the verifier or OPAQUE record made of that key,
and the vault key wrapped under it; these fit together exactly when the numbers agree. 0 is
"none" and a key derived from a password with somebody else's salt.

| variable | code |
|---|---|
| `account` | the accounts row: `kdf`, `verifier`, `record` |
| `headers` | every key header so far; the `vaults` row holds the last, its `header_revision` is its index counted from 0 |
| `token[t]` | the session task t was issued; the number, the password behind it, is a ghost |
| `legacy` | before the operator's cutoff of legacy sign-ins |
| `vault`, `local`, `floor`, `confirmed`, `session` | `VaultState`, the stored header, `max_header_rev`, `pake_confirmed`, the session slot |
| `task[t]` | where a task is, and its local variables |
| `change[t]` | its `POST /account/credentials` on the server, which outlives a client that gave up |

Handlers are cut where they release the database connection or run Argon2id
(`LegacyRead`/`LegacyVerify`, `EnrolCheck`/`EnrolCommit`,
`CheckChange`/`CommitChange`), and between the two requests of an OPAQUE exchange
(`PakeStart`/`PakeFinish`); `DELETE` and `INSERT` of a session are two statements
(`PakeFinish`/`IssueToken`). On the device each acquisition of the vault mutex is an action.
`Lock` moves the epoch on even when the vault is locked, as `VaultService::lock` does;
`stale` says that the epoch a task holds is no longer the vault's.

## 3. The runs

Passing runs:

| run | checks | instance |
|---|---|---|
| `sync_races` | `TypeOK`, `NeverAhead`, `NoBlindOverwrite` | one item; two devices, one with two tasks; every overlap; trash, locks, restarts, timeouts; three revisions |
| `sync_retry` | `CursorCovers` | an app that cannot open a blob; a pull next to another task's fetch by id |
| `sync_live` | `Converges` | two revisions, an app to be updated, fairness below |
| `restore_repair` | `FullPullExact` | two items in batches, pages of one row, one restore of the server's database |
| `credentials` | `TypeOK`, `HeadersAreTheServers`, `LockWins`, `CredentialsAgree`, `NeverLockedOut`, `NoRollback` | one device with two tasks, then two devices with one each; one password change; both kinds of account; locks, restarts, lost answers |
| `server_browser` | see below | ten scenes |
| `vault_content` | see below | ten scenes |
| `apps_background` | see below | seven scenes, with fairness |

`server_browser`:

| scene | property | what it shows |
|---|---|---|
| all | `TypesOK` | the type invariant of the part at work |
| devices | `DevicesInStep` | two overlapping sign-ins of three devices next to revocation, logout, a password change's end of sessions and an erasure: the ceiling is passed by fewer devices than there are sign-ins that overlap (count and insert are two statements), every device of an erased account is told so, the newest token of a device stands until something withdraws it |
| rate | `GuessesBounded` | at most `GuessBudget` wrong guesses of an account in any stretch as long as a window, although counter windows and blocks line up as they like |
| pairing | `PairedAsApproved`, `ImplementsOnce` | the link on the screen is the server's, and what is joined is what was approved, with lost and late polls; `Pairing` implements `PairingOnce` |
| signup | `SignupKeepsLimits` | `CODE_MAX_ATTEMPTS` wrong guesses at a code, whatever comes between them, one activation per invite although two pass the first check, every trial of an account in use ends |
| local | `LocalCopyAgrees`, `LocalCopyKeepsPace` | a key reported gone does not come back with a late keychain call; a wipe that began is found by the next start and only takes the vault it began for, of an account the server erased - or, the one case the property excepts, of an account set up while a sync of the former vault was in flight (`mistaken`) |
| store | the same two | wherever opening, migrating or creating was cut off, the next opening finds a whole file; header and floor never fall back |
| page | `AnswersBelongToPages` | every request of every frame under every top page: fills, offers, cards, passkeys and app bindings belong to the page that asks, in every vault reached by saves |
| bridge | `ChangesAreWatched` | two threads, pulls, edits, locks, late answers in the dialog: at most one unattended change per interval and no change without consent under the same unlock |
| passkeys | `PasskeysKept` | overlapping creates and stale lists never lose the passkey that works, and one fill allows one silent passkey |
| quick | `QuickAccessInForce` | file, registration and system agree after every change that fails half-way; a window the owner opened stays |

`vault_content`:

| scene | property | what it shows |
|---|---|---|
| all | `TypesOK` | |
| editing | `PasswordsAreKept`, `OthersWritesStay` | five item types, both editors, the browser and another device: the history is that of the passwords held; an edit on the phone changes only what its owner changed |
| import | `ImportIsWhole` | every one or two values an entry of each format may have, and pairs of entries that may be alike: no value is lost uncounted but the kinds `Accounted` lists (section 6), importing again adds nothing, whatever failed |
| backup | `BackupsAreTrue`, `OthersWritesStay` | an export counts what it leaves out, a spoiled file is refused, a restore next to another device writes over nothing and reports what it did |
| requests | `RequestsAreTrue`, `KeyIsNotShown` | what the caller hears is what became of the request; the client takes every answer the server may give, a pairing's place of too long a name excepted; once OPAQUE has worked no outage makes the device send its auth key |
| pull | `PagesAreWhole` | `page_len` against its reference on every vault of a few rows, every split into batches |
| phone | `OnlyForItsOwn` | two calls that share the cache of asset links next to locks and sites that change their statements |
| health, activity | `DerivedIsTrue` | the cached report is the report of the present logins; a score is the sum over the uses of the history, clocks that go back included |
| reading | `DerivedIsTrue` | a screen's rows are what asking for each value gives, an answer is about the item asked, masked values stay masked until asked for, and summaries hold nothing that is masked |
| values | `DerivedIsTrue` | a value that was stored passes its own checks again, unchanged; a list shows no more than the end of a number; one-time codes follow on without a gap; check digits, days and addresses are judged as their definitions say |

`apps_background`:

| property | what it shows |
|---|---|
| `TypesOK` | |
| `DeliveredAsPromised` | every file the server's item lists is stored and committed, with two devices that save and a sweep, unless it was swept between a write's count and its commit (`taken`); the host forwards every answer of the desktop but an account longer than the protocol allows (`LongAccountOffered`) |
| `DesktopInStep` | no scan or picked file outlives a lock; an idle lock counts the session it closes; a session belongs to the unlock that is open; the update offered is the one installed |
| `OwnersThingsStay` | no timer clears text the owner copied elsewhere; nothing but the end of `update_settings` rescues a vault whose idle time is over, and that only while no caller has found the lock due |
| `ServicesFinish` | a connection whose peer left is forgotten; an unclaimed upload goes away; a request of the extension is answered, or its answer is the one of such an account |
| `AppsFinish` | the copied secret is cleared, unless the system refused the clipboard (`clip.refused`); an idle vault locks; a lost server is found again; a check or an install ends; a lock is shown |

The other four runs each refute a sentence of the code; see findings.

## 4. Bounds and fairness

### Bounds, and why they are enough

*Item sync.* `MaxRevision` (2 or 3 writes): one to have something, one for the other device
to change it, one for a late write to conflict with. `PageRows = 1` makes every second row a
page boundary, and `MaxBatch = 2` makes a batch that does not fit its page. One item is
enough where properties are per item and rows meet only through batches and pages;
`restore_repair` has two. Two tasks on one device and one on another give every pair of
overlapping roles. `Locking` names the devices whose vault locks. `MaxLevel = 1`: one app
update. `MaxRestores = 1`: a second restore repeats the first's situation.

*Credentials.* `MaxCreds = 2` is the first password and one change, which both devices may
*try* to make. With one change, comparing the columns alone already decides: weakening the
comparison of the header revision to `>=` breaks nothing here.

*Limits.* Limits of the code (devices, outbox, buckets, history, fields per item, rows
per page, guesses) are constants, given the smallest value at which both sides of the limit
and one step past it occur; relations between them are kept (blocks that grow and the
longest longer than the window, `Interval <= RepeatWindow`, window = page + batch + 1). Where
two programs must agree on sizes (`Wire`, `Requests`) the code's own numbers are used.

*Contents.* `Reading` has one item of every type with three of the named fields (one shown, one
masked, one part of an address), two custom fields of four kinds and one change under the open
screen (`MaxItemChanges`): a second change or field meets the same answers. `Values` has lengths
in units just below, at and above each limit, and the days around the ends of a month and of
a leap year.

*Clocks* count in the smallest unit the code compares and end at a bound (`MaxMinute`, `MaxTime`,
`MaxNow`, `MaxHealthTime`, `MaxDay`, ...) past every window once.

*Counters that only grow* (`MaxTokens`, `MaxKeys`, `MaxCodes`, `MaxInvites`, `MaxRev`,
`MaxEpoch`, `MaxDialogs`, `MaxOpenings`, `MaxCopies`, `MaxUpdateRuns`, `MaxEvents`, `MaxEdits`,
`MaxImports`, `MaxCrashes`, ...) allow two or three: one in force, one that replaces it, one late.

*Bounds on what happens together*, in the MC modules: `BridgeBound` (the vault is locked
in the first tick or not at all, and then no time passes), `PkBound` (the last credential is made in the first tick),
`LocalBound` (no keychain call is late after the crash, nor once every account had its vault here;
not every account is erased), `SignupBound` (not both the
last code and the last invite), `FileBound` (a device's cache holds one file, one of the devices removes
files), `ShellBound` (not both a scan and picked files are held, nor either while a copy waits to be
cleared),
`ClockBound` (next to the phone's ticker one other caller at a time is closing the vault),
`PhoneBound` (websites change what they publish on the first of two days, so that an answer can be out of
date on the second) and `HealthBound` (no time passes for the report after a lock).

Deadlock is checked in the runs of item sync and credentials: a device can always sync again,
lock or restart. In the scenes it is not: a part whose counters have reached their bounds may
stop.

### Fairness

`Converges` assumes (`Fairness` in `ItemSync`): a device with a session
starts a pull again and again (the periodic pull, every 60 s); a request made infinitely
often is answered infinitely often, which is strong fairness of the steps of a pull and
of a fetch - the network is lossy, not gone; the local steps are taken (weak fairness:
nothing holds the mutex for long); a push ends (the HTTP client's timeout of 30 s).
Nothing is assumed of edits, locks, restarts, or of a *particular* outcome of a push. The
property itself asks for the device to stay open with an app that opens every blob.

`apps_background` assumes (`MCFairness`), for the part at work, that threads the program runs
are scheduled and that timers fire:

* the reader, writer and background threads of a connection; nothing of the peer;
* the daily job and the passing of a day; a saver's own steps. `WriteCounts` is
  strongly fair: it waits for the vault row's lock, which another save may hold again and again;
* the native host's and the dispatcher's steps; nothing of the desktop staying connected;
* the auto-lock ticker, the clipboard's timers, time itself, the end of a lock under way;
* the interval of the pull, the end of a request (timeout), the end of a lock's own steps;
* a check of updates ends (`CHECK_TIMEOUT`), the tasks' local steps; of a download only that
  it ends, by failing if in no other way;
* the phone's ticker and its event pump.

Nothing is assumed of the owner, of other devices, or of the network coming back (`Reconnects` asks
for it).

## 5. What is proved

Eight modules hold proofs, each about the specification of one part. A run checks the same
property on a small instance (in a scene, where `MC...` combines parts); the theorem holds for
every value of the constants that satisfies the named assumptions of the part. No constant bound
is used except where it says so. `PROJECT.json` lists the theorems with the property of a run
they state. Every proof has the same outline: `Init` implies the inductive invariant, one lemma
per action (or group of actions that touch the same state) shows that it is kept, the property
follows, and the last step combines them by PTL.

### Item sync: `SyncProofs`

From `ServerAssumption`, `ReplicaAssumption`, `ItemSyncAssumption`, for any items, blobs, devices,
tasks, page size, batch size and bounds:

| theorem | states | besides assumes |
|---|---|---|
| `TypeCorrect` | `TypeOK` | |
| `ReplicasBehind` | `NeverAhead` | `MaxRestores = 0` |
| `NothingOverwrittenBlindly` | `NoBlindOverwrite`: the compare-and-swap on revisions is one on *content*, end to end | `MaxRestores = 0` |
| `SyncImplementsSharedVault` | `Spec => Shared!SharedSpec`: item sync implements `SharedVault` | `MaxRestores = 0` |
| `CursorsCover` | `[][CursorMovesAlone /\ EmptyPullStays]_vars` implies `CursorCovers` | `MaxRestores = 0` |
| `FullPullsRepair` | `[][CopyIsThePulls]_vars` implies `FullPullExact`, whatever the replica held and however often the database was put back | |

After a restore revisions repeat, and the second to the fifth really fail.

The last two hold for every value of `Overlap` and `Quiet`, the code's own included. They are
conditional on the *steps* of a behaviour, because without a condition the code breaks both properties:

* `CursorsCover` says that only two kinds of step can. A step moves a device's cursor while another
  task of the device relies on it, inside a pull or between an acknowledged write and its record
  (the negation of `CursorMovesAlone`); or a write commits between the two statements of an empty pull
  (of `EmptyPullStays`). The runs `late_commit` and `empty_pull` show what comes of each; so the
  theorem says where a repair has to be made and that these two places are all.
* `FullPullsRepair` says that a pull from 0 repairs the replica unless something else changes the same
  device's copy while it is under way: a push's record, a fetch by id or a second pull that ends inside it.
  What other devices, the network and locks do is not restricted.

`NeverAhead` is not inductive: what a replica takes over comes from a page, a fetched row or an
acknowledgement that was right when it was sent. The inductive invariant is
`VersionsExist`, the conjunction of

* `TypeOK`;
* `ServerOrdered`: no row's revision is above the vault's, and a row of revision 0 is `NoRow`
  - so a write's new revision is above everything in sight;
* `NeverAhead`;
* `PagesBehind`: the same of every row in a page under way;
* `AcksBehind`: the same of every write in an acknowledged batch not recorded yet;
* `BasesBehind`: the same of `[base, seen]` of every change on its way to the server - which is
  what makes an equal revision mean equal content when the server compares them.

The key lemma is `WriteKeepsBehind`: a row that is `Behind` stays so when a batch is
applied at `rev + 1`. `NoBlindOverwrite` follows from `BasesBehind` and the check in `FindConflicts`.

`SyncImplementsSharedVault` maps the shared copy to the server's blobs (`BlobsNow`) and a writer's
draft to the batch of a task that the server may still carry out, the one it waits for or the one
it gave up on (`DraftOf`). A send drafts; the server's acceptance publishes, because by
`BasesBehind` equal revisions mean that the item is what the writer saw; a refusal, a failure or a
recorded answer abandons or stutters; so does everything a replica does. `OneJob` is added to
`VersionsExist`: a task pushes or syncs, so the purge that ends a sync takes the place of no
earlier push. The refinement has no run of its own: the theorem covers every instance.

`CursorsCover` adds to it (`CursorInv`): `OneJob`;
`Covered`, the property with the records of unreadable items made exact (`Settled`); cursors and
records not past the server (`CursorsBehind`, `RecordsBehind`); and of each task `SyncFits` - a pull starts at the cursor
(`StartsAtCursor`), between and after its statements it lacks nothing up to the end of its page
(`SizesFit`, `PageFits`), a pull from 0 has seen every row up to the cursor (`SeenFits`), a fetch asks
for rows there are (`FetchFits`) - and `AckAhead`: a write still to be recorded is past the cursor.
A task for which one of these speaks of the cursor is one `OnCursor`, which is where `CursorMovesAlone` comes from.

`FullPullsRepair` cannot use `VersionsExist`, which a restore breaks. `FullInv` says of a pull from 0
during which the server has not changed (`Whole`, which compares the ghost `began` with the
server's revision) that its sizes and page are the server's (`SizesWhole`,
`PageWhole`), that up to the cursor the replica is the server's and has been mentioned and whatever
else it has was there before (`SoFar`), and that at the end there is nothing else (`AtTheEnd`).

### Credentials: `CredentialProofs`

From `AccountServerAssumption` and `CredentialsAssumption`, for any devices, tasks and number of
passwords: `TypeOK`, `CredentialsAgree`, `HeadersAreTheServers`, `LockWins`, `NeverLockedOut` and the
action property `NoRollback`. The inductive invariant `CredentialInv` has the first four and

* `DerivedBefore`: every credential in a header, a task or a request was derived before, so a fresh
  one is like none of them;
* `RemoteInstalled`: a header on its way to a device is one the server installed;
* `OneBase`: a fresh credential belongs to one task and is installed, if at all, right after the
  revision that task started from - so finding it there after a lost answer means success;
* `OwnAnswer`: the request a client waits for carries its own credential, and a client that goes on
  to commit has it on the server;
* `ChecksHold`: an enrolment, or a change without OPAQUE, that passed its first check read a row
  without record;
* `MovedToPake`: whoever saw OPAQUE work, a task or a device that insists on it, saw it on an account
  that has a record (which is never taken away);
* `FloorsFit`: the rollback floor is not above the stored header.

`NeverLockedOut` follows from it, and `NoRollback` from it and the step.

### The server's other protocols: `ServerProofs`

| part | theorems | inductive invariant, beyond types and the property |
|---|---|---|
| rate limiting | `TwelveGuesses`: the code's numbers (five failures, blocks of 1, 5 and 30 minutes, a window of 15) meet `BudgetCovers` with a budget of 12; `GuessesBounded` for any numbers that meet it | `RateInv`: the account's row counts exactly the last guesses of the history (`PresentFits`), at the waits its blocks force on them, and the guesses of the window before it were as far apart (`BeforeFits`); `GuessesApart`, the property without its window of states |
| devices | `DeviceTypeOK`, `DevicesInStep`; any number of sign-ins | `CountedFit`: devices there are and those about to be inserted stay below the limit plus all sign-ins; `StandingHaveRows`; `ReadsCover`: what the erasure has read covers every sign-in that stands |
| pairing | `PairTypeOK`, `PairedAsApproved`, and the refinement `ImplementsOnce` of `PairingOnce` | `RowsHaveDevices`, `SlotsAreMine`: a device holds and polls only rows it created; `ApprovedAreRegistered`; `AnswersAreGranted`: an approval on its way comes from a session that was given; the refinement maps initial states to initial states and each action to an abstract one or a stutter |
| sign-up | `SignupKeepsLimits` | `CodesCount`: the attempts column counts every wrong guess at the present code and leaves one, later codes have taken none; `ActiveIsActivated`: activated exactly when active |

The budget of guesses is a number the code does not state: it follows from the thresholds and the
growth of the blocks, and 12 is exact (a budget of 11 does not meet `BudgetCovers`).

### The bridge: `BridgeProofs`

| part | theorem | inductive invariant, beyond types and the property |
|---|---|---|
| changes from the browser | `ChangesAreWatched` | `CopiesRare`: every copy's history has its quiet replacements apart; `RequestsSound`: what a thread at each step holds; `Books`: a reservation held or spent keeps its item reserved while it counts, and what is in force has an owner; `OneWaits` |
| passkeys | `PasskeysKept` | `WritesFit`, `WritesFresh`: a write under way adds the passkey it was made for to the passkeys of its base, or drops those the site no longer names; `Recorded`: there is a ledger of every credential's account and time, so two never share a number; `AllStand`: a passkey the site took as working is there until a later one takes its place; `FillInv`: a fill allows as many silent creations as are left of it |

### The vault's contents: `ContentProofs`

| part | theorems | inductive invariant and argument |
|---|---|---|
| editing | `EditTypeOK`, `PasswordsAreKept`, `PhoneEditsKeepOthers` | `CopiesAgree`: equal revisions mean equal items; `FormShows`: a form whose revision is still the server's shows the server's item; `StagedIsItem`; `StagedFits`: a write the server would take keeps the password it replaces and, from a phone, what the owner did not touch |
| requests | `RequestsAreTrue`, `KeyIsNotShown` | `OperationInv`: the requests an operation may have left (`Stages`); `EffectInv`: what the server did, told by where the operation is and by the answer on its way; `ReplyInv`: an answer that is no answer is read as unavailable, and one of this server is read. The last is arithmetic on the limits of the two sides |
| backup | `BackupsAreTrue`, `NeverOverwrites`; with editing: `OthersWritesStay` | `RestoreInv`: a write of a restore names a revision at which the row is not live (`RunTyped`); every item is waiting, brought back, skipped or not valid, once (`RunAccounts`). A damaged file is refused because each record was sealed with its place |
| phone fill | `OnlyForItsOwn` | `PhoneInv`: an answer of a website, in the cache or in any copy a call took of it, bears a time at or before the last at which the website published it. Writing copies back in any order keeps that, where the cache itself may lose entries |

### Single items, pages, reports and imports: `ItemProofs`

| part | theorems | inductive invariant and argument |
|---|---|---|
| pull pages | `PagesAreWhole` | `PullInv`; that the loop cuts where the reference says is shown by a least counterexample over the places it may stop at |
| health report | `CachedIsTrue`, a conjunct of `DerivedIsTrue` | `HealthInv`: the generation a report was started at is not past the vault's, and equal generations mean equal logins and equal acknowledgements |
| import | `ImportIsWhole` | `ImportInv`: the key of every entry that was read is in the vault or in a write still queued. Every place a value gets is one `Accounted` names (`PutValueKeeps`). The places of an entry's values and the writes of a file are recursive functions, of which `RecursionReaches` and `RecursionKeeps` show, by a least counterexample, that they are what their recursion says and keep what each step keeps |
| reading | `ReadingIsTrue`, a conjunct of `DerivedIsTrue` | `ReadInv`: an item keeps its kind, a field its id, and a new field's id was never used (`IsEntry`), so a row on a screen, however old, names a field of the item or one that is gone (`RowsFit`) |
| dates | `DaysAreCounted`: `DaysCount` for every date from the year 1 on | no induction: the number of the next date is computed at the end of each month, and `YearStep` gives the step from a February to a March through leap years and centuries |
| one-time codes | `SetupsStayHolds`: `CodesFollowOn`, and `StoredPassesAgain` of the codes, for every period, moment and text | `SetupInv`: what is stored is a set-up whose texts no cut shortens |
| card numbers | `CheckDigitsCatch`, the second part of `NumbersAreChecked`, for numbers of every length | the running sums of two numbers agree up to the first difference, and after it differ by the same amount, which is not a multiple of ten (`SumsApart`) |

### One device's copy and its pages: `LocalProofs`

| part | theorems | inductive invariant, beyond types and the property |
|---|---|---|
| files and Secret Key | `LocalCopyAgrees`, `LocalCopyKeepsPace` | `LateNotCleared`: a keychain call under way stores nothing of an account reported gone; `WipeHolds`: while a wipe runs the file is its account's or gone; `OnlyErased`: that account is erased or in `mistaken` |
| store file | the other halves of these two | `TablesFit`: a version in the file means its tables, and none means any step of an earlier run; `JobHolds`; `HeaderHasAccount` |
| Quick Access | `QuickAccessInForce` | `ChangeHolds`: what file, registration and system hold at each step of a change; `WindowHolds` |
| pages and apps | `AnswersBelongToPages` | `PageInv`: entries of the vault are entries with rules the matching knows; the rest is about the operators, that the strongest match is chosen and a weaker one never stands for it |

### What runs beside the vault: `BackgroundProofs`

`TypesOK`, `DesktopInStep` and `OwnersThingsStay` of the whole scene model from `BackgroundInv`, which
has a part for each scene: `ReachInv` (a session that is not being dropped belongs to the opening
at hand), `UpdatesInv` (which task may run in which phase, and whose version is on offer), `ShellInv`
(what is held while the vault is locked is a lock's to drop), `ConnInv`. `ListedFilesAreStored` is the
conjunct of `DeliveredAsPromised` about attachments: `FileInv` has `WriterCounted` (the files an open write
counted are there, or were swept since and are in `taken`) and `DrawnOnce` (no number of a file is used
again). The phone's clock needs no more than its types: each step keeps
a due lock due, by what it leaves of the clock and of the callers.

### Assumptions

On the constants, each named in the module that declares them and evaluated by TLC on the
runs: types and finiteness, and
`BridgeAssumption` (`Interval <= RepeatWindow`, the relation between `ITEM_UPDATE_INTERVAL` and
`REPEAT_CHANGE_WINDOW_MS`), `BudgetAssumption` (above), `ReadingAssumption` and `SealedAssumption` (ids of
added fields are no names of built-in ones, a sealed value is none of the values), `ValuesAssumption` (a
period of 30 is allowed; what is typed as a URI is text), `PagesAssumption` (what the public suffix list
guarantees: hosts under a registrable domain have that one; groups of equivalent domains are
disjoint), `VaultsAssumption` (a vault starts with entries of known rules).

Some theorems have a hypothesis besides: `MaxRestores = 0` and the conditions on steps of the last two
in `SyncProofs`, above; `NoneIsNoItem` (`AnswersBelongToPages`) and `Dates \subseteq EveryDate`
(`DaysAreCounted`), which only say that the mark for no item is none and that a date is one. No theorem
assumes inputs or timing that the code does not guarantee of a constant: where the code does not keep a
property, the property itself names the case (section 6).

Some choices of the models were made so that they can be proved about: recursion is a
recursive function and never a RECURSIVE operator; the passkeys of a login and the batches of a restore are
sets, the code's order of them being of no consequence; the guesses at an account are kept as the whole
history, of which the code's row is a summary.

### Only model-checked

* Liveness and fairness (`Converges`, `ServicesFinish`, `AppsFinish`): out of the prover's reach, as is
  `ENABLED`.
* `ScoresAreHistory` in `DerivedIsTrue`: the scores are folds with an operator as parameter over
  sequences of every length - induction over data.
* The rest of `ValuesHold` in `DerivedIsTrue`: the cleaning of identities, cards, banks and websites is
  made of `SelectSeq`, a recursion over the text that the provers do not see into; the table of brands
  and the layouts of addresses are finite, and TLC covers them whole.
* `AnswersFit` in `DeliveredAsPromised`: sums over the fields of a message; the tables of messages are
  finite too, and TLC covers them.
* `TypesOK` of `server_browser` and `vault_content` as a whole: what the proofs need of them is in the
  inductive invariants.

## 6. Findings

Four are runs that TLC ends with a counterexample.

| run | what happens |
|---|---|
| `empty_pull` | a write that commits between the two statements of an empty pull is passed by the cursor and is not pulled until it changes again or the user re-downloads |
| `late_commit` | `commit_write` after a concurrent pull brought a newer version puts the older one back below the cursor |
| `late_edit` | the desktop's editor, opened before a pull and saved after it, overwrites what the pull brought in: only the phone's compares the revision it was opened at |
| `lost_key` | an activation tried again after its answer was lost stores a new Secret Key over the one the server accepted, before the server refuses the spent invite |

The first two leave a replica wrong without a sign of it; the third loses another device's edit; the
fourth leaves an account no key opens (the owner's Recovery Sheet aside).

More sentences of the code or the docs do not hold in behaviours of the models. They cure
themselves, need rare circumstances or concern what the user is told, so no run is kept for
them. Item sync and credentials:

* `core/sync.rs:491` ("the server did not mention is not on the server"): an item
  rewritten between the two statements of the last page of a pull from 0 is sent in no page of
  it and dropped from the replica, until the next pull brings it back.
* `commands.rs:62` ("Resetting the cursor re-reads everything"): a sync under way
  stores its cursor after `resync_vault` reset it, and the Re-download goes on from there.
* `client/sync.rs:254` ("instead of kept as ghosts"): a restored server whose revision
  has caught up with the client's cursor is not recognised as restored, and items it lost stay
  until the user re-downloads.
* `client/sync.rs:224` ("Ahead of the server means something is wrong locally"): a sync that
  fetched the header before this device's own password change and compares after it ends with an
  internal error.
* `client/account.rs:871` ("which only another device's password change does"): another
  device's OPAQUE enrolment changes the compared columns too, and makes a change a conflict.
* `docs/security-model.md:43`: a sign-in that proved the old password before a change
  committed gets its session after it (`server/routes/auth.rs:289`).
* `client/account.rs:857`: a change reported as "nothing changed" may be applied afterwards,
  when the server was still between its checks and its transaction (`:867`).

Cases the properties name and except, each of which happens in a passing run; the property says
that nothing else of the kind does:

* `OnlyDeletedIsWiped` (in `LocalCopyKeepsPace`), history `mistaken`: the answer "account deleted" to a
  sync of an account that was removed from the device wipes the vault set up since
  (`client/sync.rs:40-47` asks which vault is there *now*).
* `ListedIsStored` (in `DeliveredAsPromised`), history `taken`: a write counts its uploads, the daily
  sweep, which does not take the vault row's lock, removes one that is old enough, and the write commits
  the list (`server/routes/items.rs:266-282`, `billing/jobs.rs:59-66`).
* `AnswersFit` and `RequestsAreAnswered`, `LongAccountOffered`: a username may have 512 characters
  (`core/model.rs:25`), more bytes than the protocol allows an account (`protocol/message.rs:841`). The
  host drops such an answer to `check_sso` (`native-host/lib.rs:161`) and the extension is never answered.
* `AnswersAreRead` (in `RequestsAreTrue`), `heard.far`: the server lets a city of 64 characters through
  (`locate.rs:63`) and adds the country; the client takes 64 in all and refuses the details of the pairing
  (`sync-client/client.rs:725`).
* `CopiedIsCleared` (in `AppsFinish`), `clip.refused`: the clearing thread takes the digest that marks
  the text as ours before it reads the clipboard, and ignores an error of the read and of the clear; the
  secret then stays (`desktop/clipboard.rs:68-77`).
* `OverdueStaysDue` (in `OwnersThingsStay`): on the phone `update_settings` arms the clock every time, so an
  overdue vault is rescued with the limit unchanged (`mobile/settings.rs:76-94`), where other calls lock
  first (`mobile/vault.rs:95-97`).
* `EveryValueIsKept` (in `ImportIsWhole`), `Accounted`: not kept whole, and not counted, are a title, a
  username or a cardholder over the limit of a line (`import/common.rs:43-50`), an account type that is not
  known (`onepux.rs:411-418`) and the login's columns of a row that is a note (`csv.rs:243-282`).

Elsewhere:

* repeated entries of an export "are imported as they are" (`core/vault.rs:2523`), unless an
  earlier attempt stopped between them: the next one takes the rest for duplicates (`2563`);
* a late refusal (401) of an older session's request drops the newer session, which the next pull
  opens again;
* a daily job that ends between a notice's mail and its note sends that notice twice;
* exports to other programs leave out tags and app bindings without counting them;
* overlapping creates of passkeys for a new account may leave two logins for it;
* a restored one-time code whose setup URI is longer than 2048 bytes is refused although the item
  that was exported held it, and its label changes when it has a colon or no account (`core/totp.rs`);
* a birth date in a backup is checked against the day the item was last updated, not the present day;
* a bank account number typed together with its check digit is refused where a stored digit is kept.

## 7. Not modelled, and why

* **Cryptography**: sealing, key derivation and OPAQUE are taken to work. A wrong key opens
  nothing; a sealed value is the value and its key.
* **Several accounts**: tables are keyed by account or vault and handlers compare the
  session's; one account is enough except in `Pairing` and `LocalVault`, which have two.
* **Text**: parsing of URLs, JSON, CSV and zip, the public suffix list, the layout of exports,
  wording. A host is a value with its site, an entry the sequence of its values, a message its
  sizes.
* **Generators, strength, the HMAC of one-time codes**: pure functions of random bytes and of
  time, better tested than modelled. (`Values` has the settings, time steps and URIs of the codes.)
* **Server wiring**: mail, configuration, the database pool, `provider.rs` (nothing calls
  it yet), the operator's per-account window for legacy sign-ins.
* **In Credentials**: the difference between Unreachable and Offline (`Reach` has it); the
  short window in `HavenClient::lock` between locking the vault and dropping the session (`Reach`
  has it as `dropping`). `sign_out` is `SessionEnds` and `Lock`.
* **In ItemSync**: the key header, which is `Credentials`'; attachments of a write
  (`Attachments`); the byte limits of a batch (`Requests`); what an overview says besides
  being in the Trash. The purge of expired trash may take any items of the Trash, since their
  dates are not modelled.
* **In Shell**: the moment between reading the clipboard and clearing it, in which another program
  may put a text there (`clipboard.rs:74-76`).
* **In Import**: the account of a sign-in-with value, which is cut like a username and goes with a
  provider that is not known; a card brand "Other" of Bitwarden is no value.
* **User interfaces** (web views, Android, the extension's scripts), the OS lock watcher, the
  Recovery Sheet: they call what is modelled or are documents.

## 8. Plan

**A repair of `CursorCovers`**: with the pull's second statement in the first's snapshot
and a `commit_write` that never goes back, the property under every overlap. `CursorsCover` names the two
kinds of step such a repair has to rule out or make harmless.
