------------------------------ MODULE Passkeys ------------------------------
(***************************************************************************)
(* Passkeys of one site: the logins that hold them, the password fills     *)
(* that allow a silent upgrade, creates that overlap (a create is checked, *)
(* staged under the vault's mutex, saved by the server if the login did    *)
(* not change meanwhile, and only then answered), and the site, which may  *)
(* accept or reject the new passkey and later lists the ones it knows.     *)
(***************************************************************************)
EXTENDS Naturals, FiniteSets, FiniteSetsExt

CONSTANTS Accounts,        \* user handles; the user name is the same value
          HomeLogins,      \* logins whose rules match the site's page
          NewLogins,       \* ids of logins that creates may add
          Window,          \* UPGRADE_WINDOW_MS, in ticks
          MaxPasskeys,     \* MAX_PASSKEYS_PER_LOGIN
          MaxFills,        \* MAX_RECENT_FILLS
          MaxCreds, MaxNow, MaxFilled, MaxOpen,        \* bounds
          NoOne

ASSUME PkAssumption ==
    /\ NoOne \notin HomeLogins /\ NoOne \notin Accounts
    /\ {MaxPasskeys, MaxFills, MaxCreds, MaxNow, MaxFilled, MaxOpen} \subseteq Nat

VARIABLES logins,    \* [id -> [rev, user, keys]], keys the set of its passkeys
          fills,     \* the session's recent fills, the later the higher their nth
          now, auto, \* the clock; the setting auto_passkey_upgrade
          asked,     \* [Accounts -> the answer of the last CheckPasskeyCreate]
          staged,    \* writes on their way to the server
          creds,     \* credentials made so far
          answered,  \* credentials given to the site, not yet judged
          site,      \* [Accounts -> the newest credential the site accepted]
          known,     \* [Accounts -> every credential the site ever accepted]
          \* History: creates saved so far (one on a full login, and a removal
          \* by hand, count as two); fills and silent upgrades so far.
          saves, filled, silent

pkVars == <<logins, fills, now, auto, asked, staged, creds, answered, site, known,
            saves, filled, silent>>

LoginIds == HomeLogins \cup NewLogins

\* A passkey of another account of the site.
Foreign == [cred |-> 0, acct |-> NoOne, replaced |-> FALSE]

PkInit ==
    /\ logins \in [HomeLogins -> [rev : {1}, user : {NoOne},
                                  keys : {{}, {Foreign}}]]
    /\ fills = {} /\ now = 0 /\ auto \in BOOLEAN
    /\ asked = [a \in Accounts |-> NoOne]
    /\ staged = {} /\ creds = 0 /\ answered = {}
    /\ site = [a \in Accounts |-> [cred |-> 0, at |-> 0]] /\ known = [a \in Accounts |-> {}]
    /\ saves = [a \in Accounts |-> 0]
    /\ filled = [i \in LoginIds |-> 0] /\ silent = [i \in LoginIds |-> 0]

-----------------------------------------------------------------------------
(* Lookups.                                                                 *)

KeysOf(i) == logins[i].keys

FindPasskeyHolders(a) == {i \in DOMAIN logins : \E p \in KeysOf(i) : p.acct = a}

\* An empty list allows every passkey of the site.
PasskeysFor(allow) ==
    UNION {{[item |-> i, cred |-> p.cred, replaced |-> p.replaced] :
              p \in {q \in KeysOf(i) : allow = {} \/ q.cred \in allow}} : i \in DOMAIN logins}

AssertFor(i, cred) ==
    IF i \in DOMAIN logins /\ \E p \in KeysOf(i) : p.cred = cred
      THEN (CHOOSE p \in KeysOf(i) : p.cred = cred).acct
      ELSE NoOne

WithRoom(ids) == {i \in ids \cap DOMAIN logins : Cardinality(KeysOf(i)) < MaxPasskeys}

IsRecent(f) == f.at <= now /\ now - f.at <= Window

SameAccount(i, a) == logins[i].user \in {NoOne, a}

\* The newest recent fill decides; without the setting the owner is asked.
UpgradeFor(a, homes) ==
    LET found == {f \in fills : IsRecent(f) /\ f.item \in homes /\ SameAccount(f.item, a)}
        last  == CHOOSE f \in found : \A g \in found : g.nth <= f.nth
    IN  IF found = {} THEN [how |-> "none", item |-> NoOne]
        ELSE [how |-> IF auto THEN "auto" ELSE "ask", item |-> last.item]

CheckPasskeyCreate(a, conditional, exclude) ==
    LET excluded == exclude # {} /\ PasskeysFor(exclude) # {}
    IN  [excluded |-> excluded,
         upgrade  |-> IF conditional /\ ~excluded
                        THEN UpgradeFor(a, WithRoom(HomeLogins))
                        ELSE [how |-> "none", item |-> NoOne]]

-----------------------------------------------------------------------------
(* Staging.                                                                 *)

NewKey(a, cred) == [cred |-> cred, acct |-> a, replaced |-> FALSE]

\* Mutant of WithNew: the old passkey of the account goes at once.
ReplaceAtOnce(keys, a, cred) == {p \in keys : p.acct # a} \cup {NewKey(a, cred)}

\* A create drops the account's replaced passkeys and, when the login is full
\* even so, its current one too.
NotReplaced(keys, a) == {p \in keys : ~(p.acct = a /\ p.replaced)}
Full(keys, a) == Cardinality(NotReplaced(keys, a)) >= MaxPasskeys
Kept(keys, a) == {p \in NotReplaced(keys, a) : Full(keys, a) => p.acct # a}

\* What is left of the account is marked, and the new passkey is added.
Marked(p, a) == IF p.acct = a THEN [p EXCEPT !.replaced = TRUE] ELSE p
WithNew(keys, a, cred) == {Marked(p, a) : p \in Kept(keys, a)} \cup {NewKey(a, cred)}

Fits(keys, a) == Cardinality(Kept(keys, a)) < MaxPasskeys

\* Where a new passkey may go: the account's holder wherever it is, else the
\* chosen login if it is offered, else a new one.
Homes(a, chosen) ==
    IF FindPasskeyHolders(a) # {} THEN FindPasskeyHolders(a)
    ELSE IF chosen # NoOne THEN {chosen} \cap HomeLogins \cap DOMAIN logins
    ELSE {i \in NewLogins \ DOMAIN logins : \A w \in staged : w.item # i}

KeysAt(i) == IF i \in DOMAIN logins THEN logins[i].keys ELSE {}

RevAt(i) == IF i \in DOMAIN logins THEN logins[i].rev ELSE 0

SpendFill(i) == {f \in fills : f.item # i}

StageCreateFor(a, chosen, conditional) ==
    \E i \in Homes(a, chosen) :
      /\ Fits(KeysAt(i), a)
      /\ Cardinality(staged) < MaxOpen /\ creds < MaxCreds
      /\ creds' = creds + 1
      /\ staged' = staged \cup
           {[item |-> i, base |-> RevAt(i), acct |-> a, cred |-> creds + 1,
             user |-> IF i \in DOMAIN logins THEN logins[i].user ELSE a,
             full |-> Full(KeysAt(i), a), keys |-> WithNew(KeysAt(i), a, creds + 1)]}
      /\ fills' = IF conditional THEN SpendFill(i) ELSE fills
      /\ silent' = IF conditional THEN [silent EXCEPT ![i] = @ + 1] ELSE silent
      /\ asked' = [asked EXCEPT ![a] = NoOne]
      /\ UNCHANGED <<logins, now, auto, answered, site, known, saves, filled>>

-----------------------------------------------------------------------------
(* Actions.                                                                 *)

NewestNth(made) == Max({0} \cup {f.nth : f \in made})

\* A password is filled on the site's page (record_fill): older fills of the
\* login and those no longer recent go, and the oldest one of too many.
Fill(i) ==
    /\ filled[i] < MaxFilled
    /\ fills' = LET kept == {f \in fills : IsRecent(f) /\ f.item # i}
                    all  == kept \cup {[item |-> i, at |-> now, nth |-> 1 + NewestNth(kept)]}
                IN  IF Cardinality(all) <= MaxFills THEN all
                    ELSE {f \in all : \E g \in all : g.nth < f.nth}
    /\ filled' = [filled EXCEPT ![i] = @ + 1]
    /\ UNCHANGED <<logins, now, auto, asked, staged, creds, answered, site, known, saves, silent>>

\* The extension asks first; the page names the passkeys it knows, or none.
Check(a, conditional, exclude) ==
    /\ asked[a] = NoOne
    /\ asked' = [asked EXCEPT ![a] = CheckPasskeyCreate(a, conditional, exclude)]
    /\ UNCHANGED <<logins, fills, now, auto, staged, creds, answered, site, known, saves, filled, silent>>

\* The owner saw the question, and chose a login or a new one.
CreateAsked(a, chosen) ==
    /\ asked[a] # NoOne
    /\ ~asked[a].excluded /\ asked[a].upgrade.how # "auto"
    /\ StageCreateFor(a, chosen, FALSE)

\* A silent upgrade is checked again, against the vault as it is now, and
\* never replaces a passkey.
CreateSilently(a) ==
    /\ asked[a] # NoOne /\ asked[a].upgrade.how = "auto"
    /\ UpgradeFor(a, WithRoom(HomeLogins)) = asked[a].upgrade
    /\ FindPasskeyHolders(a) = {}
    /\ StageCreateFor(a, asked[a].upgrade.item, TRUE)

EndRequest(a) ==
    /\ asked[a] # NoOne
    /\ asked' = [asked EXCEPT ![a] = NoOne]
    /\ UNCHANGED <<logins, fills, now, auto, staged, creds, answered, site, known, saves, filled, silent>>

\* The server takes a write made on top of its revision; its answer, and so
\* the registration the site gets, may still be lost.
SaveCreate(w, lost) ==
    /\ w \in staged /\ staged' = staged \ {w}
    /\ w.base = RevAt(w.item)
    /\ logins' = [i \in DOMAIN logins \cup {w.item} |->
                    IF i = w.item THEN [rev |-> w.base + 1, user |-> w.user, keys |-> w.keys]
                    ELSE logins[i]]
    /\ saves' = IF w.cred = 0 THEN saves
                ELSE [saves EXCEPT ![w.acct] = @ + IF w.full THEN 2 ELSE 1]
    /\ answered' = IF lost \/ w.cred = 0 THEN answered
                   ELSE answered \cup {[acct |-> w.acct, cred |-> w.cred, at |-> saves'[w.acct]]}
    /\ UNCHANGED <<fills, now, auto, asked, creds, site, known, filled, silent>>

SaveCreateFails(w) ==
    /\ w \in staged /\ staged' = staged \ {w}
    /\ UNCHANGED <<logins, fills, now, auto, asked, creds, answered, site, known, saves, filled, silent>>

SiteAccepts(r) ==
    /\ r \in answered /\ answered' = answered \ {r}
    /\ site' = [site EXCEPT ![r.acct] = IF @.at < r.at THEN [cred |-> r.cred, at |-> r.at] ELSE @]
    /\ known' = [known EXCEPT ![r.acct] = @ \cup {r.cred}]
    /\ UNCHANGED <<logins, fills, now, auto, asked, staged, creds, saves, filled, silent>>

SiteRejects(r) ==
    /\ r \in answered /\ answered' = answered \ {r}
    /\ UNCHANGED <<logins, fills, now, auto, asked, staged, creds, site, known, saves, filled, silent>>

\* A replaced passkey may go once the site lists the one that replaced it.
Proven(keys, p, allow) ==
    /\ p.replaced
    /\ \E q \in keys : ~q.replaced /\ q.acct = p.acct /\ q.cred \in allow

\* FindPasskeys with the credentials a page lists (the list may be an old
\* one): the first login with something to drop is staged.
DropReplaced(allow) ==
    \E i \in DOMAIN logins :
      LET keys == logins[i].keys
          left == {p \in keys : ~Proven(keys, p, allow)}
      IN  /\ left # keys
          /\ Cardinality(staged) < MaxOpen
          /\ staged' = staged \cup {[item |-> i, base |-> logins[i].rev, acct |-> NoOne,
                                     cred |-> 0, user |-> logins[i].user, full |-> FALSE,
                                     keys |-> left]}
          /\ UNCHANGED <<logins, fills, now, auto, asked, creds, answered, site, known,
                         saves, filled, silent>>

\* The owner removes a passkey by hand: what the site knows of it is no
\* longer the vault's concern.
RemovePasskey(i, p) ==
    /\ i \in DOMAIN logins /\ p \in KeysOf(i) /\ p # Foreign
    /\ logins' = [logins EXCEPT ![i] = [rev |-> @.rev + 1, user |-> @.user, keys |-> @.keys \ {p}]]
    /\ saves' = [saves EXCEPT ![p.acct] = @ + 2]
    /\ UNCHANGED <<fills, now, auto, asked, staged, creds, answered, site, known, filled, silent>>

PkTick ==
    /\ now < MaxNow /\ now' = now + 1
    /\ UNCHANGED <<logins, fills, auto, asked, staged, creds, answered, site, known, saves, filled, silent>>

PkNext ==
    \/ \E i \in HomeLogins : Fill(i)
    \/ \E a \in Accounts :
         \/ \E c \in BOOLEAN, x \in {{}, known[a]} : Check(a, c, x)
         \/ \E i \in HomeLogins \cup {NoOne} : CreateAsked(a, i)
         \/ CreateSilently(a) \/ EndRequest(a)
         \/ \E x \in SUBSET known[a] \ {{}} : DropReplaced(x)
    \/ \E w \in staged : SaveCreateFails(w) \/ \E lost \in BOOLEAN : SaveCreate(w, lost)
    \/ \E r \in answered : SiteAccepts(r) \/ SiteRejects(r)
    \/ \E i \in DOMAIN logins : \E p \in KeysOf(i) : RemovePasskey(i, p)
    \/ PkTick

PkSpec == PkInit /\ [][PkNext]_pkVars

-----------------------------------------------------------------------------
\* Logins, fills and credentials have their types.
PkTypeOK ==
    /\ DOMAIN logins \subseteq LoginIds
    /\ \A i \in DOMAIN logins : Cardinality(KeysOf(i)) <= MaxPasskeys
    /\ Cardinality(fills) <= MaxFills /\ now \in 0 .. MaxNow /\ auto \in BOOLEAN
    /\ creds \in 0 .. MaxCreds
    /\ \A a \in Accounts : site[a].cred \in 0 .. MaxCreds /\ known[a] \subseteq 1 .. MaxCreds

\* A site that rejects a new passkey does not leave the account without a
\* working one: the newest one the site accepted can still sign in while at most
\* one create was saved after it (stage_create_for keeps the newest old one,
\* unless the login is full), whatever creates overlapped, answers were lost
\* and however old the lists are that pages sent.
WorkingPasskeyKept ==
    \A a \in Accounts :
      site[a].cred # 0 /\ saves[a] <= site[a].at + 1
        => \E m \in PasskeysFor({site[a].cred}) : AssertFor(m.item, site[a].cred) = a

\* One password fill allows at most one silent passkey, although the check
\* and the create are two requests and several may be under way
\* (stage_passkey_create asks again and spends the fill when it stages).
OneFillOnePasskey == \A i \in LoginIds : silent[i] <= filled[i]

\* Creating passkeys neither loses the working one nor happens unasked twice.
PasskeysKept == WorkingPasskeyKept /\ OneFillOnePasskey
=============================================================================
