-------------------------- MODULE MCVaultContent ---------------------------
(* What happens to the vault's contents, on small instances: editing,      *)
(* importing, backing up, the requests that carry it, paging, filling on a  *)
(* phone, the password report, the ranking, reading an item and what is     *)
(* typed into it.  One part works in a behaviour: scene says which, and the *)
(* others rest.                                                             *)
EXTENDS Editing, Import, Backup, Requests, PullPage, PhoneFill, Health, Activity, Reading, Values, TLC

VARIABLE scene

Scenes == {"editing", "import", "backup", "requests", "pull", "phone", "health", "activity", "reading",
           "values"}

allVars == <<scene, editVars, importVars, backupVars, requestVars, pullVars, phoneVars,
             healthVars, activityVars, readVars, valueVars>>

-----------------------------------------------------------------------------
(* Import: every one or two values that an entry can have, of every source  *)
(* and kind, and pairs of entries that may be alike.                        *)

CommonValues == <<Value("title", TRUE, "t"), Value("title", FALSE, "too long"), Value("notes", TRUE, "n"),
           Value("folder", FALSE, "deep"), Value("custom", TRUE, "c"), Value("custom", TRUE, "d")>>

ValuesOf(kind) ==
    CommonValues \o
    CASE kind = "login" ->
           <<Value("folder", TRUE, "f"), Value("url", TRUE, "u"), Value("url", TRUE, "w"),
             Value("url", FALSE, "no url"), Value("totp", TRUE, "s"), Value("totp", FALSE, "no secret"),
             Value("sso", TRUE, "idp"), Value("sso", FALSE, "no provider"),
             Value("username", TRUE, "a"), Value("username", TRUE, "b"), Value("username", FALSE, "cut"), Value("password", TRUE, "p"),
             Value("form-text", TRUE, "x"), Value("form-text", FALSE, "y"),
             Value("form-secret", TRUE, "z"), Value("ui", TRUE, "tick"),
             Value("history", TRUE, "h"), Value("file", TRUE, "scan")>>
      [] kind = "card" ->
           <<Value("number", TRUE, "4"), Value("number", FALSE, "4x"), Value("code", FALSE, "code"),
             Value("expiry", TRUE, "12/30"), Value("expiry", FALSE, "soon"), Value("brand", FALSE, "none"),
             Value("holder", TRUE, "o"), Value("holder", FALSE, "cut"), Value("url", TRUE, "u")>>
      [] kind = "bank" ->
           <<Value("bank", TRUE, "b"), Value("account", TRUE, "1"), Value("account", FALSE, "1x"),
             Value("branch", FALSE, "br"), Value("holder", FALSE, "cut"),
             Value("accountType", TRUE, "savings"), Value("accountType", FALSE, "salary")>>
      [] OTHER -> <<Value("file", TRUE, "scan"), Value("url", TRUE, "u"), Value("username", TRUE, "a"),
                    Value("form-text", TRUE, "x"), Value("totp", FALSE, "no secret")>>

KindsOf(src) == CASE src = "1password" -> {"login", "note", "card", "bank", "other"}
                  [] src = "bitwarden" -> {"login", "note", "card", "other"}
                  [] src \in {"lastpass", "bitwarden-csv"} -> {"login", "note"}
                  [] OTHER -> {"login"}

OnlyOnePassword == {"form-text", "form-secret", "ui", "sso", "file"}

MayHold(src, v) == /\ Reads(src, v.as)
                /\ src # "1password" => v.as \notin OnlyOnePassword /\ v.v # "b"

EntryOf(src, kind, vals) == [source |-> src, kind |-> kind, state |-> "active", vals |-> vals]

EntriesOf(src, kind) ==
    LET vs == SelectSeq(ValuesOf(kind), LAMBDA v : MayHold(src, v))
    IN  {EntryOf(src, kind, <<vs[i]>>) : i \in DOMAIN vs}
        \cup {EntryOf(src, kind, <<vs[p[1]], vs[p[2]]>>) :
                 p \in {q \in (DOMAIN vs) \X (DOMAIN vs) : q[1] # q[2]}}

Login1(p, more) ==
    EntryOf("1password", "login",
            <<Value("title", TRUE, "t"), Value("username", TRUE, "a"), Value("password", TRUE, p)>> \o more)
WithSso == Login1("p", <<Value("sso", TRUE, "idp")>>)
Archived == [Login1("p", <<>>) EXCEPT !.state = "archived"]
Paired == {Login1("p", <<>>), Login1("q", <<>>), WithSso, Archived,
           EntryOf("1password", "note", <<Value("title", TRUE, "t")>>)}

MCFiles == {<<>>} \cup {<<e>> : e \in UNION {UNION {EntriesOf(s, k) : k \in KindsOf(s)} : s \in ImportSources}}
           \cup {<<e, f>> : e \in Paired, f \in Paired}
MCVaults == {<<>>, <<ItemOf(Login1("p", <<>>))>>, <<ItemOf(WithSso)>>,
             <<ItemOf(Login1("p", <<>>)), ItemOf(Login1("p", <<>>))>>}

-----------------------------------------------------------------------------
(* Values: texts at the limits and beyond, one at a time in its form.       *)

MCTexts == {<<>>, <<" ">>, <<"a">>, <<" ", "a", "nl">>, <<"a", "nl", "a">>, <<"a", "bell">>, <<"1", " ", "2">>,
            <<"1", "2", "1">>, <<"1", "-", "2">>, <<"1", "2", "1", "2", "1">>, <<"1", "2", "1", "2", "1", "2">>}
MCBankTexts == MCTexts \cup {<<"-", "1">>, <<"1", "-">>, <<"1", ".", "2", "-", "x">>, <<"1", "-", "2", "-", "1">>,
                             <<"X">>, <<"x", "1">>, <<"1", "2", "1", "2", "-", "1", "X">>}
MCUpdates == [op : {"keep", "clear"}] \cup [op : {"set"}, to : {<<" ">>, <<"1", "2", "1">>, <<"1", "2", "-", "x">>, <<"2", "-">>, <<"X">>, <<"a">>, <<"1", "2", "1", "2", "-", "1", "X">>}]

MCUrl(s, odd, frag, len) == [NoUrl EXCEPT !.scheme = s, !.host = TRUE, !.odd = odd, !.frag = frag, !.len = len]
MCUrls == {MCUrl(s, odd, frag, len) : s \in {"none", "http", "https", "later", "other"}, odd \in {0, 3}, frag \in {0, 2}, len \in {8, 12, 20, 21}}
          \cup {NoUrl, [MCUrl("none", 0, 0, 9) EXCEPT !.creds = TRUE], [MCUrl("none", 0, 0, 9) EXCEPT !.host = FALSE]}
MCWebsites == {<<u>> : u \in MCUrls} \cup {<<NoUrl, MCUrl("none", 3, 0, 8)>>, <<NoUrl, NoUrl, NoUrl>>}

NoIdentity == [text |-> [n \in {"first_name", "cpf", "mobile_phone", "number", "email"} |-> Unset], birth |-> NoDate,
               website |-> NoUrl, notes |-> Unset, custom |-> <<>>]
Ymd(y, m, d) == [y |-> y, m |-> m, d |-> d]
Rows == {[label |-> l, value |-> v] : l \in MCTexts, v \in MCTexts}
MCIdentities ==
    {[NoIdentity EXCEPT !.text[n] = t] : n \in DOMAIN NoIdentity.text, t \in MCTexts}
    \cup {[NoIdentity EXCEPT !.birth = d] : d \in {Ymd(1849, 12, 31), Ymd(1850, 1, 1), Ymd(2023, 2, 29), Ymd(2024, 2, 29),
                                                 Ymd(2024, 10, 4), Ymd(2024, 10, 5), Ymd(2024, 10, 6), Ymd(2024, 0, 0)}}
    \cup {[NoIdentity EXCEPT !.website = u] : u \in MCUrls}
    \cup {[NoIdentity EXCEPT !.notes = t] : t \in MCTexts}
    \cup {[NoIdentity EXCEPT !.custom = <<r>>] : r \in Rows}
    \cup {[NoIdentity EXCEPT !.custom = <<[label |-> <<>>, value |-> <<" ">>], r>>] : r \in Rows}

MCCards == {[title |-> l, holder |-> Unset, number |-> n, code |-> c, notes |-> o, brand |-> b, expiry |-> e] :
               l \in {<<>>, <<"a">>}, n \in MCTexts \cup {<<"1", "8">>, <<"5", "5", "5", "5", "5", "1">>}, c \in {<<>>, <<" ", "1">>, <<"1", "2", "1">>},
               o \in {<<>>, <<"a", "nl", " ">>, <<"bell">>}, b \in {"auto", "visa"},
               e \in {NoDate, Ymd(1970, 1, 0), Ymd(2099, 12, 0), Ymd(2100, 1, 0)}}

MCBanks == {[title |-> l, bank |-> b, holder |-> Unset, branch |-> r, branchDigit |-> d, account |-> a, accountDigit |-> Unset] :
               l \in {<<>>, <<"a">>}, b \in {<<>>, <<"a", "a", " ">>, <<"a", "a", "a", "a">>}, r \in MCBankTexts, d \in {<<>>, <<"x">>, <<"1">>}, a \in {<<>>, <<"1">>, <<"1", "2", "1", "2", "1", "-", "2">>}}

Bare(bytes, b32) == [uri |-> FALSE, len |-> 2 * bytes, secret |-> [base32 |-> b32, bytes |-> bytes]]
SetupUri(type, alg, digits, period, issuer, label) ==
    [uri |-> TRUE, len |-> 90, type |-> type, secret |-> [base32 |-> TRUE, bytes |-> 2], algorithm |-> alg,
     digits |-> digits, period |-> period, issuer |-> issuer, label |-> label]
MCSetups ==
    {Bare(n, b) : n \in {1, 2, 3, 4}, b \in BOOLEAN}
    \cup {SetupUri(t, alg, d, p, <<>>, <<>>) : t \in {"totp", "hotp"}, alg \in {"SHA1", "SHA512", "MD5"}, d \in {6, 7, 8}, p \in {0, 1, 30, 31}}
    \cup {SetupUri("totp", "SHA1", 6, 30, i, l) :
             i \in {NotGiven, <<>>, <<"x">>, <<"x", ":">>, <<" ", "x", "x">>},
             l \in {<<>>, <<"x">>, <<"x", ":", "x">>, <<":", "x", ":">>, <<" ", "x", ":", " ", "x">>, <<"a", "a", "a", ":", "a", "a", "a">>}}

\* The ends of every range of brands and their neighbours, as far as the
\* table looks and with a digit less; and every number of three digits.
NumberText(n) == [i \in 1..Width(n) |-> Decimal[((n \div 10^(Width(n) - i)) % 10) + 1]]
RangeEnds == UNION {{IinRanges[i].lo - 1, IinRanges[i].lo, IinRanges[i].hi, IinRanges[i].hi + 1} : i \in DOMAIN IinRanges}
MCNumbers == {NumberText(n) : n \in RangeEnds} \cup {NumberText(n) \o <<"0", "9", "5">> : n \in RangeEnds}
             \cup {NumberText(n \div 10) : n \in {r \in RangeEnds : r > 9}}
             \cup {<<a, b, c>> : a, b, c \in DigitChars}
MCDates == {t \in {Ymd(y, m, d) : y \in {1, 4, 100, 400, 1600, 1850, 1900, 1969, 1970, 1972, 1999, 2000, 2023, 2024, 2100}, m \in 1..12, d \in 1..31} : ParsesYmd(t)}

-----------------------------------------------------------------------------
(* The other constants.                                                     *)

\* Writes at the limits of the server and of the client.
Batch(n, o, d) == [n |-> n, overview |-> o, details |-> d]
MCBatches == {Batch(1, 30, 8388608), Batch(1, 6291456, 6291456), Batch(2, 30, 6291000),
              Batch(500, 30, 30), Batch(500, 12000, 12480), Batch(501, 30, 30), Batch(1, 30, 8388609)}

Asker(p, c, g) == [pkg |-> p, cert |-> c, page |-> g]
MCAsks ==
    "c" :> {"fill", "signIn", "bind"} \X {Asker("app", "good", "none")}
           \cup {"matches", "totp", "search", "cards", "cardValues", "identity", "identityValues",
                 "passkeyOffers", "createPlan", "passwordOffers", "password", "save", "saveCard", "create"}
                \X {Asker("own", "good", "none"), Asker("browser", "good", "h")}
    @@ "d" :> {<<"fill", Asker("app", "other", "none")>>}

Url(s, h) == [scheme |-> s, host |-> h]
LoginOf(p, score, urls, key, ignored) ==
    [password |-> p, score |-> score, changed |-> 0, urls |-> urls, totp |-> FALSE, passkey |-> FALSE,
     ignored |-> ignored, key |-> key, opens |-> TRUE]
Ex == <<"www", "ex", "com">>
Two == <<"two", "org">>
MCContents ==
    {LoginOf("p", 4, <<Url("https", Ex)>>, "k", {}),
     LoginOf("p", 1, <<Url("ssh", Ex), Url("http", Two)>>, "k", {"twoFactor", "leaked"}),
     LoginOf("", 0, <<Url("http", <<"nas", "internal">>)>>, "l", {}),
     [LoginOf("q", 3, <<Url("https", Ex)>>, "l", {}) EXCEPT !.passkey = TRUE],
     [LoginOf("p", 3, <<>>, "l", {}) EXCEPT !.opens = FALSE]}
SiteEntry(n, alone, hosts, help) ==
    [name |-> n, passwordless |-> alone, domains |-> {[host |-> h, clean |-> TRUE] : h \in hosts}, help |-> help]
MCPasskeySites == <<SiteEntry("clean", FALSE, {Two}, "https"), SiteEntry("clean", TRUE, {<<"ex", "com">>}, "https"),
                    SiteEntry("clean", TRUE, {<<"ex", "com">>}, "none")>>
MCTwoFactorSites == <<SiteEntry("bad", FALSE, {Two}, "https"), SiteEntry("clean", FALSE, {Two, <<"ex", "com">>}, "https")>>
MCDismissals == {{"reused", "twoFactor"}}

Query(t, l, long) == [text |-> t, lower |-> l, long |-> long]
MCQueries == {Query("a", "a", FALSE), Query("A", "a", FALSE), Query("", "", FALSE), Query("c", "c", TRUE)}

-----------------------------------------------------------------------------
(* One part at work, the others at rest.                                    *)

\* bounds: websites change what they publish on the first day, and no time
\* passes for the report once the vault was locked
PhoneBound == sites' = sites \/ day = 0
HealthBound == time' = 0 \/ session'.epoch = 0

AtRest(part, choice) == IF scene = part THEN TRUE ELSE choice

MCInit ==
  /\ scene \in Scenes
  /\ IF scene = "pull" THEN PullPageInit ELSE table = <<>> /\ since = 0 /\ sent = <<>>
  /\ IF scene = "import" THEN ImportInit
     ELSE file = <<>> /\ before = <<>> /\ vault = <<>> /\ queue = <<>> /\ phase = "idle" /\ imports = 0
  /\ EditInit /\ AtRest("editing", local.type = "note" /\ editor = "mobile")
  /\ BackupInit /\ AtRest("backup", \A i \in BackupIds \ {"identity"} : rows[i] = None)
  /\ RequestInit /\ AtRest("requests", site = "closed" /\ confirmed)
  /\ PhoneInit /\ AtRest("phone", \A h \in LinkHosts : sites[h] = "none")
  /\ HealthInit /\ AtRest("health", \A i \in LoginIds : logins[i] = Nothing)
  /\ ActivityInit /\ ValuesInit
  /\ IF scene = "reading" THEN ReadInit
     ELSE /\ readApp = "phone" /\ reader = "open" /\ whereabouts = "live" /\ changes = 0
          /\ entry = Filled("note", {}, NoFields) /\ screen = NoScreen /\ given = NoAnswer

MCNext ==
  \/ /\ scene = "editing" /\ EditNext
     /\ UNCHANGED <<scene, importVars, backupVars, requestVars, pullVars, phoneVars, healthVars, activityVars, readVars, valueVars>>
  \/ /\ scene = "import" /\ ImportNext
     /\ UNCHANGED <<scene, editVars, backupVars, requestVars, pullVars, phoneVars, healthVars, activityVars, readVars, valueVars>>
  \/ /\ scene = "backup" /\ BackupNext
     /\ UNCHANGED <<scene, editVars, importVars, requestVars, pullVars, phoneVars, healthVars, activityVars, readVars, valueVars>>
  \/ /\ scene = "requests" /\ RequestNext
     /\ UNCHANGED <<scene, editVars, importVars, backupVars, pullVars, phoneVars, healthVars, activityVars, readVars, valueVars>>
  \/ /\ scene = "pull" /\ PullPageNext
     /\ UNCHANGED <<scene, editVars, importVars, backupVars, requestVars, phoneVars, healthVars, activityVars, readVars, valueVars>>
  \/ /\ scene = "phone" /\ PhoneNext /\ PhoneBound
     /\ UNCHANGED <<scene, editVars, importVars, backupVars, requestVars, pullVars, healthVars, activityVars, readVars, valueVars>>
  \/ /\ scene = "health" /\ HealthNext /\ HealthBound
     /\ UNCHANGED <<scene, editVars, importVars, backupVars, requestVars, pullVars, phoneVars, activityVars, readVars, valueVars>>
  \/ /\ scene = "activity" /\ ActivityNext
     /\ UNCHANGED <<scene, editVars, importVars, backupVars, requestVars, pullVars, phoneVars, healthVars, readVars, valueVars>>
  \/ /\ scene = "reading" /\ ReadNext
     /\ UNCHANGED <<scene, editVars, importVars, backupVars, requestVars, pullVars, phoneVars, healthVars, activityVars, valueVars>>
  \/ /\ scene = "values" /\ ValuesNext
     /\ UNCHANGED <<scene, editVars, importVars, backupVars, requestVars, pullVars, phoneVars, healthVars, activityVars, readVars>>

MCSpec == MCInit /\ [][MCNext]_allVars

-----------------------------------------------------------------------------
\* The variables of the part at work have their types.
TypesOK == CASE scene = "editing" -> EditTypeOK [] scene = "import" -> ImportTypeOK
             [] scene = "backup" -> BackupTypeOK [] scene = "requests" -> RequestTypeOK
             [] scene = "phone" -> PhoneTypeOK [] scene = "health" -> HealthTypeOK
             [] scene = "activity" -> ActivityTypeOK [] scene = "reading" -> ReadTypeOK
             [] scene = "values" -> ValuesTypeOK
             [] scene = "pull" -> since \in Nat

\* Neither an edit on the phone nor a restore takes back what another device
\* wrote since the editor was opened or the backup's items were looked up
\* (mobile edit.rs; client restore.rs).
OthersWritesStay == PhoneEditsKeepOthers /\ NeverOverwrites

\* What the app shows of the items without reading them all anew is what
\* reading them all would give: the health report it holds, the score of an
\* item's uses and the rows of its screen; and what it derives from what was
\* typed is what typing that again would give (client health.rs, core
\* health.rs; core activity.rs; mobile items.rs against core vault.rs; core
\* identity.rs, card.rs, bank.rs, totp.rs).
DerivedIsTrue ==
  /\ scene = "health" => CachedIsTrue
  /\ scene = "activity" => ScoresAreHistory
  /\ scene = "reading" => ReadingIsTrue
  /\ scene = "values" => ValuesHold
=============================================================================
