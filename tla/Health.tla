------------------------------- MODULE Health -------------------------------
(***************************************************************************)
(* The vault health report: what it finds in the logins, and its cache.    *)
(* The report takes long, so the client reads a snapshot of the logins     *)
(* under the vault's guard, computes without it and stores the result      *)
(* under the guard again; a write, a pull, a lock and an unlock may all    *)
(* have happened in between.  The session's generation says whether the    *)
(* logins are still the ones of the snapshot, the epoch whether it is the  *)
(* same session.                                                           *)
(***************************************************************************)
EXTENDS Naturals, Sequences, FiniteSets

CONSTANTS LoginIds,        \* naturals: ids are compared by the report
          Contents,        \* what a login may hold, see ContentShape
          PasskeySites, TwoFactorSites,   \* the two lists shipped with the core
          Callers,
          Dismissals,      \* the sets of checks an owner may dismiss
          OldAfter, HealthCache,          \* OLD_AFTER_MS, HEALTH_CACHE_MS
          MaxHealthTime, MaxGeneration, MaxHealthEpoch,
          Nothing

\* A login: its password ("" and "none" are no password), zxcvbn's score of
\* it, when it last changed, its websites, its other factors, the checks
\* dismissed for it, and what dedupe_key_parts makes of title, username and
\* websites.  A login whose details do not open is not in the snapshot.
ContentShape(f) ==
    f = [password |-> f.password, score |-> f.score, changed |-> f.changed, urls |-> f.urls, totp |-> f.totp,
         passkey |-> f.passkey, ignored |-> f.ignored, key |-> f.key, opens |-> f.opens]

ASSUME HealthAssumption ==
    /\ LoginIds \subseteq Nat /\ OldAfter \in Nat /\ HealthCache \in Nat
    /\ MaxHealthTime \in Nat /\ MaxGeneration \in Nat /\ MaxHealthEpoch \in Nat
    /\ \A f \in Contents : ContentShape(f)

VARIABLES logins,      \* the session's logins: contents, or Nothing
          session,     \* [open, epoch, generation, health]
          report,      \* per caller: the snapshot it computes from, or Nothing
          pending,     \* a staged write on its way to the server, or Nothing
          time

healthVars == <<logins, session, report, pending, time>>

Checks == {"weak", "reused", "old", "passkey", "twoFactor", "insecure", "duplicate"}

-----------------------------------------------------------------------------
(* The site lists.  A host is the sequence of its labels; the registrable  *)
(* domain of a host with a known suffix is its last two.                   *)

RegistrableDomain(host) ==
    IF Len(host) < 2 \/ host[Len(host)] = "internal" THEN <<>>
    ELSE SubSeq(host, Len(host) - 1, Len(host))

\* clean_host, clean_name, clean_help and the passwordless flag: an entry
\* that is not clean adds no site, an unclean help page only itself.
Admitted(entry, passwordless) ==
    /\ entry.name = "clean"
    /\ passwordless => entry.passwordless
    /\ \E d \in entry.domains : d.clean

\* The first entry that lists a host is the one it finds.
SitesOf(entries, passwordless, host) ==
    {n \in DOMAIN entries : /\ Admitted(entries[n], passwordless)
                            /\ [host |-> host, clean |-> TRUE] \in entries[n].domains}

HelpPage(entry) == IF entry.help = "https" THEN {entry} ELSE {}

\* The host itself, then its parents down to the registrable domain.
Lookup(entries, passwordless, host) ==
    LET site == RegistrableDomain(host)
        from(k) == SubSeq(host, k, Len(host))
        found == {k \in 1 .. Len(host) - Len(site) + 1 :
                    SitesOf(entries, passwordless, from(k)) # {}}
    IN IF site = <<>> \/ found = {} THEN {}
       ELSE LET k == CHOOSE k \in found : \A l \in found : k <= l
                n == CHOOSE n \in SitesOf(entries, passwordless, from(k)) :
                        \A m \in SitesOf(entries, passwordless, from(k)) : n <= m
            IN {entries[n]}

HelpFor(entries, passwordless, hosts) ==
    \E n \in DOMAIN hosts :
        \E s \in Lookup(entries, passwordless, hosts[n]) : HelpPage(s) # {}

\* rule_host: the saved websites that are http or https.
HostsOf(f) == SelectSeq(f.urls, LAMBDA u : u.scheme \in {"http", "https"})
NamesOf(f) == [n \in DOMAIN HostsOf(f) |-> HostsOf(f)[n].host]

PasskeyHelp(f) == HelpFor(PasskeySites, TRUE, NamesOf(f))
TwoFactorHelp(f) == HelpFor(TwoFactorSites, FALSE, NamesOf(f))

Listed(entries, passwordless, f) ==
    \E n \in DOMAIN NamesOf(f) : Lookup(entries, passwordless, NamesOf(f)[n]) # {}

-----------------------------------------------------------------------------
(* The report.                                                             *)

\* known_checks: a check dismissed by a newer version is read as nothing.
KnownChecks(stored) == stored \cap Checks

\* health_snapshot
Snapshot ==
    [i \in {i \in LoginIds : logins[i] # Nothing /\ logins[i].opens} |->
        [logins[i] EXCEPT !.ignored = KnownChecks(@)]]

HasPassword(f) == f.password \notin {"none", ""}

\* STRONG_ENOUGH
IsWeak(f) == f.score < 3

SamePassword(facts, i) ==
    {j \in DOMAIN facts : HasPassword(facts[j]) /\ facts[j].password = facts[i].password}
SameKey(facts, i) == {j \in DOMAIN facts : facts[j].key = facts[i].key}

Found(facts, i, now) ==
    LET f == facts[i]
        passkey == ~f.passkey /\ Listed(PasskeySites, TRUE, f)
    IN {c \in Checks :
        \/ /\ HasPassword(f)
           /\ \/ c = "weak" /\ IsWeak(f)
              \/ c = "reused" /\ Cardinality(SamePassword(facts, i)) > 1
              \/ c = "old" /\ now > f.changed + OldAfter
        \/ c = "passkey" /\ passkey
        \/ c = "twoFactor" /\ ~passkey /\ ~f.totp /\ Listed(TwoFactorSites, FALSE, f)
        \/ c = "insecure" /\ \E n \in DOMAIN HostsOf(f) :
                                /\ HostsOf(f)[n].scheme = "http"
                                /\ RegistrableDomain(HostsOf(f)[n].host) # <<>>
        \/ c = "duplicate" /\ Cardinality(SameKey(facts, i)) > 1}

Kept(facts, i, now) == Found(facts, i, now) \ facts[i].ignored

\* groups: groups of two or more, numbered by their smallest id.
GroupOf(members, all) ==
    Cardinality({g \in all : Cardinality(g) > 1 /\ \E x \in g : \A y \in members : x < y})

Issue(facts, i, now) ==
    LET kept == Kept(facts, i, now) IN
    [checks |-> kept,
     reused |-> IF "reused" \in kept
                THEN {GroupOf(SamePassword(facts, i),
                        {SamePassword(facts, j) : j \in {j \in DOMAIN facts : HasPassword(facts[j])}})}
                ELSE {},
     duplicate |-> IF "duplicate" \in kept
                   THEN {GroupOf(SameKey(facts, i), {SameKey(facts, j) : j \in DOMAIN facts})}
                   ELSE {},
     help |-> \/ "passkey" \in kept /\ PasskeyHelp(facts[i])
              \/ "passkey" \notin kept /\ "twoFactor" \in kept /\ TwoFactorHelp(facts[i])]

\* compute
Compute(facts, now) ==
    [at |-> now,
     counts |-> [c \in Checks |-> Cardinality({i \in DOMAIN facts : c \in Kept(facts, i, now)})],
     issues |-> [i \in {i \in DOMAIN facts : Kept(facts, i, now) # {}} |-> Issue(facts, i, now)],
     dismissed |-> [i \in {i \in DOMAIN facts : Found(facts, i, now) \cap facts[i].ignored # {}}
                     |-> Found(facts, i, now) \cap facts[i].ignored]]

-----------------------------------------------------------------------------
Opening(epoch) == [open |-> TRUE, epoch |-> epoch, generation |-> 0, health |-> Nothing]

HealthInit ==
    /\ logins \in [LoginIds -> Contents \cup {Nothing}]
    /\ session = Opening(0)
    /\ report = [c \in Callers |-> Nothing]
    /\ pending = Nothing
    /\ time = 0

\* cached_health
Cached == session.health # Nothing /\ time - session.health.at <= HealthCache

\* health_report up to the end of its first guard: a fresh report is handed
\* out as it is, otherwise the snapshot is taken.
TakeSnapshot(c) ==
    /\ report[c] = Nothing
    /\ session.open /\ ~Cached
    /\ report' = [report EXCEPT ![c] = [facts |-> Snapshot, at |-> time, epoch |-> session.epoch,
                                        generation |-> session.generation]]
    /\ UNCHANGED <<logins, session, pending, time>>

\* Mutant of StillTrue: only the session is compared.
StillOpen(r) == session.epoch = r.epoch

\* store_health
StillTrue(r) == session.epoch = r.epoch /\ session.generation = r.generation

\* The computation has ended: its report is refused when the vault was locked
\* meanwhile, else handed out, and kept when the logins are still the same.
FinishReport(c) ==
    /\ report[c] # Nothing
    /\ session' = IF session.open /\ session.epoch = report[c].epoch /\ StillTrue(report[c])
                  THEN [session EXCEPT !.health = Compute(report[c].facts, report[c].at)]
                  ELSE session
    /\ report' = [report EXCEPT ![c] = Nothing]
    /\ UNCHANGED <<logins, pending, time>>

\* set_health_ignored, and any other write of a login: staged in one session...
StageWrite(i, f) ==
    /\ session.open /\ pending = Nothing
    /\ logins[i] # f
    /\ pending' = [id |-> i, content |-> f, epoch |-> session.epoch]
    /\ UNCHANGED <<logins, session, report, time>>

\* stage_health_ignored: only a login that opens; its dismissals are replaced.
StageIgnored(i, checks) ==
    /\ logins[i] # Nothing /\ logins[i].opens
    /\ StageWrite(i, [logins[i] EXCEPT !.ignored = checks])

Changed(s) == [s EXCEPT !.generation = @ + 1, !.health = Nothing]

\* ...and committed, or refused in another one.
CommitHealthWrite ==
    /\ pending # Nothing
    /\ LET fits == session.open /\ session.epoch = pending.epoch IN
        /\ fits => session.generation < MaxGeneration
        /\ logins' = IF fits THEN [logins EXCEPT ![pending.id] = pending.content] ELSE logins
        /\ session' = IF fits THEN Changed(session) ELSE session
    /\ pending' = Nothing
    /\ UNCHANGED <<report, time>>

DropWrite ==
    /\ pending # Nothing
    /\ pending' = Nothing
    /\ UNCHANGED <<logins, session, report, time>>

\* apply_changes: a login or a deletion the server sent.  A pull with nothing
\* readable and no deletion leaves the logins and the cache as they are.
Pulled(i, f) ==
    /\ session.open /\ session.generation < MaxGeneration
    /\ logins' = [logins EXCEPT ![i] = f]
    /\ session' = Changed(session)
    /\ UNCHANGED <<report, pending, time>>

LockHealth ==
    /\ session.open /\ session.epoch < MaxHealthEpoch
    /\ session' = [session EXCEPT !.open = FALSE, !.epoch = @ + 1, !.health = Nothing]
    /\ UNCHANGED <<logins, report, pending, time>>

\* open_session: the generation starts at zero again.
UnlockHealth ==
    /\ ~session.open
    /\ session' = Opening(session.epoch)
    /\ UNCHANGED <<logins, report, pending, time>>

HealthTick ==
    /\ time < MaxHealthTime
    /\ time' = time + 1
    /\ UNCHANGED <<logins, session, report, pending>>

HealthNext ==
    \/ \E c \in Callers : TakeSnapshot(c) \/ FinishReport(c)
    \/ \E i \in LoginIds, f \in Contents \cup {Nothing} : StageWrite(i, f) \/ Pulled(i, f)
    \/ \E i \in LoginIds, checks \in Dismissals : StageIgnored(i, checks)
    \/ CommitHealthWrite \/ DropWrite
    \/ LockHealth \/ UnlockHealth \/ HealthTick

HealthSpec == HealthInit /\ [][HealthNext]_healthVars

-----------------------------------------------------------------------------
\* Types.
HealthTypeOK ==
    /\ \A i \in LoginIds : logins[i] = Nothing \/ ContentShape(logins[i])
    /\ session.open \in BOOLEAN
    /\ session.epoch \in 0 .. MaxHealthEpoch /\ session.generation \in 0 .. MaxGeneration
    /\ time \in 0 .. MaxHealthTime

\* health_help_url for an issue of the report.
HelpUrl(i, check) ==
    /\ logins[i] # Nothing
    /\ IF check = "passkey" THEN PasskeyHelp(logins[i]) ELSE TwoFactorHelp(logins[i])

(* The report a caller gets from the cache is what computing it from the   *)
(* logins of this moment gives, whatever was written, pulled, locked or    *)
(* computed at the same time; and the link it offers opens (the report's   *)
(* help flag and health_help_url "never disagree").                        *)
CachedIsTrue ==
    session.health # Nothing =>
        /\ session.open
        /\ session.health = Compute(Snapshot, session.health.at)
        /\ \A i \in DOMAIN session.health.issues :
             LET issue == session.health.issues[i] IN
             issue.help <=> \/ "passkey" \in issue.checks /\ HelpUrl(i, "passkey")
                            \/ /\ "passkey" \notin issue.checks /\ "twoFactor" \in issue.checks
                               /\ HelpUrl(i, "twoFactor")
=============================================================================
