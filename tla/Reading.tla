------------------------------ MODULE Reading ------------------------------
(***************************************************************************)
(* What an app shows of one item and hands out of it: the rows of the      *)
(* item's screen, the values it asks for one at a time, the copies, and    *)
(* what the list and the search go by.  The item is read anew at every     *)
(* call, so a screen may be older than the item: another device may have   *)
(* changed it, moved it to the trash or deleted it, and the vault may have *)
(* been locked.  A value is the key of its field and a version.            *)
(***************************************************************************)
EXTENDS Naturals, FiniteSets, Sequences

CONSTANTS ReadApps,         \* of "phone", "desktop"
          ReadNames,        \* the identity's values that the instance looks at
          CustomIds,        \* identifiers of custom fields
          ReadFieldKinds,   \* kinds of custom fields that the instance looks at
          MaxItemChanges,
          Sealed            \* in the place of a value that does not travel

ReadTypes == {"login", "note", "identity", "card", "bank"}

\* The identity's values by name, as the core lists those that are filled,
\* and the names for which the phone knows the core's field.
FilledNames == {"first_name", "middle_name", "last_name", "gender", "birth_date", "occupation", "company",
                "job_title", "cpf", "rg", "passport", "drivers_license", "email", "mobile_phone", "home_phone",
                "work_phone", "street", "number", "complement", "neighborhood", "city", "state", "postal_code",
                "country", "username", "website", "notes"}
IdentityField == FilledNames
Documents == {"cpf", "rg", "passport", "drivers_license"}
AddressOf == {"street", "number", "complement", "neighborhood", "city", "state", "postal_code", "country"}

\* The values an item of each kind keeps in its sealed part.
OwnKeys(t) ==
    CASE t = "login" -> {"password", "totp", "notes"}
      [] t = "note" -> {"content"}
      [] t = "identity" -> ReadNames \cap FilledNames
      [] t = "card" -> {"card.holder", "card.number", "card.code", "card.expiry", "card.notes"}
      [] t = "bank" -> {"bank", "holder", "branch", "branchDigit", "account", "accountDigit", "password", "notes"}

\* A custom field's identifier is like no other key (it is a random one).
OtherKeys == {"title", "tag", "provider", "last4", "username", "website", "address", "password", "totp", "notes", "content", "card.holder", "card.number", "card.code",
              "card.expiry", "card.notes", "bank", "holder", "branch", "branchDigit", "account", "accountDigit"} \cup FilledNames

ASSUME ReadingAssumption == MaxItemChanges \in Nat /\ CustomIds \cap OtherKeys = {}

FieldKinds == ReadFieldKinds \cap {"text", "url", "email", "phone", "date", "address", "password", "otp"}
IsConcealed(kind) == kind \in {"password", "otp"}
CarriesFields(t) == t \in {"login", "note", "bank"}
NoFields == [i \in {} |-> Sealed]

NoText == <<>>
Is(v) == v # NoText
Version(k, n) == <<k, n>>
Code(k) == <<"code", k>>

\* A row without a value is told apart from every value it could have.
ASSUME SealedAssumption ==
    LET versions == (OtherKeys \cup CustomIds) \X (0..MaxItemChanges)
    IN Sealed # NoText /\ Sealed \notin versions /\ Sealed \notin {"address"} \X SUBSET versions

-----------------------------------------------------------------------------
\* The open part of an item, kept in memory while the vault is unlocked.  Of
\* the numbers it keeps the last digits of those that are long enough.
MinForLast4 == 12
MinForLast3 == 4

\* Characters of a number of n digits, and its check digit of d, that the
\* overview shows.
CardSummary(n) == IF n >= MinForLast4 THEN 4 ELSE 0
BankSummary(n, d) == IF n >= MinForLast3 THEN (IF d >= 3 THEN 0 ELSE 3 - d) + d ELSE 0

Overview(it) ==
    [type |-> it.type, title |-> it.title, tag |-> it.tag,
     username |-> CASE it.type = "login" -> it.username
                    [] it.type = "identity" /\ "email" \in DOMAIN it.own -> it.own["email"]
                    [] OTHER -> NoText,
     site |-> IF it.type \in {"login", "bank"} THEN it.site ELSE NoText,
     provider |-> IF it.type = "login" THEN it.provider ELSE NoText,
     has |-> {k \in DOMAIN it.own : Is(it.own[k])} \cap {"password", "totp", "notes"},
     last4 |-> IF it.type = "card" /\ Is(it.own["card.number"]) THEN <<"last4", 0>> ELSE NoText,
     bank |-> IF it.type = "bank" THEN {it.own["bank"], it.own["branch"]} ELSE {}]

\* The words a search goes by; digits alone also find a card by its last four.
SearchWords(o) == {w \in {o.title, o.username, o.tag, o.site, o.provider, o.last4} \cup o.bank : Is(w)}

\* The line of an item in the phone's list.
Summary(o) == [kind |-> o.type, title |-> o.title, website |-> o.site, bank |-> o.bank,
               subtitle |-> CASE o.type = "login" -> o.username [] o.type = "card" -> o.last4 [] OTHER -> NoText]

-----------------------------------------------------------------------------
\* Rows of a screen: their keys, whether the value is masked, whether the
\* screen says that there is one, and the value where the row carries it.
ScreenRow(k, masked, has, v) == [key |-> k, masked |-> masked, has |-> has, value |-> v]

\* custom_rows of the phone: no value travels.
PhoneCustomRows(it) ==
    {ScreenRow(i, IsConcealed(it.custom[i].kind), FALSE, Sealed) : i \in DOMAIN it.custom}

\* custom_field::views, for the desktop: the plain values, and of the others
\* whether there is one.
Views(it) ==
    {LET f == it.custom[i] IN
     ScreenRow(i, IsConcealed(f.kind), Is(f.value), IF IsConcealed(f.kind) THEN Sealed ELSE f.value) :
         i \in DOMAIN it.custom}

OwnRows(o, masked) == {ScreenRow(k, k \in masked, TRUE, Sealed) : k \in o.has}

OpenRows(it, ks) == {ScreenRow(k, FALSE, Is(it.own[k]), it.own[k]) : k \in ks}
MaskedRows(it, ks) == {ScreenRow(k, TRUE, Is(it.own[k]), Sealed) : k \in ks}

\* bank_view of the phone; its item_view of an account has no rows.
BankView(it) == OpenRows(it, {"bank", "holder", "branch", "branchDigit"}) \cup MaskedRows(it, {"account", "password", "notes"})
                \cup PhoneCustomRows(it)

\* item_view of the phone.
ItemView(it) ==
    LET o == Overview(it) IN
    CASE it.type = "login" ->
           {ScreenRow(p[1], FALSE, TRUE, p[2]) : p \in {q \in {<<"username", o.username>>, <<"website", o.site>>} : Is(q[2])}}
           \cup OwnRows(o, {"password", "notes"}) \cup PhoneCustomRows(it)
      [] it.type = "note" -> {ScreenRow("content", FALSE, TRUE, Sealed)} \cup PhoneCustomRows(it)
      [] it.type = "card" -> {ScreenRow(k, k \in {"card.number", "card.code", "card.notes"}, FALSE, Sealed) : k \in OwnKeys("card")}
      [] it.type = "identity" -> {ScreenRow(k, k \in Documents, TRUE, Sealed) : k \in {n \in FilledNames \cap DOMAIN it.own : Is(it.own[n])}}
      [] it.type = "bank" -> BankView(it)

\* The address as one block: nothing when no part is filled.
FormattedAddress(it) ==
    LET parts == {k \in AddressOf \cap DOMAIN it.own : Is(it.own[k])}
    IN IF parts = {} THEN NoText ELSE <<"address", {it.own[k] : k \in parts}>>

\* The desktop's screens: reveal_card, reveal_bank, reveal_identity, and the
\* overview and item_fields of a login or a note.
RevealCard(it) == OpenRows(it, {"card.holder", "card.expiry", "card.notes"}) \cup MaskedRows(it, {"card.number", "card.code"})
RevealBank(it) == OpenRows(it, {"bank", "holder", "branch", "branchDigit", "notes"}) \cup MaskedRows(it, {"account", "password"})
                  \cup Views(it)
RevealIdentity(it) == OpenRows(it, DOMAIN it.own)
                      \cup {ScreenRow("address", FALSE, Is(FormattedAddress(it)), FormattedAddress(it))}
DesktopView(it) ==
    LET o == Overview(it) IN
    CASE it.type = "login" -> {ScreenRow("username", FALSE, Is(o.username), o.username)} \cup OwnRows(o, {"password", "notes"}) \cup Views(it)
      [] it.type = "note" -> {ScreenRow("content", FALSE, TRUE, Sealed)} \cup Views(it)
      [] it.type = "card" -> RevealCard(it)
      [] it.type = "identity" -> RevealIdentity(it)
      [] it.type = "bank" -> RevealBank(it)

View(a, it) == IF a = "phone" THEN ItemView(it) ELSE DesktopView(it)

-----------------------------------------------------------------------------
\* What a call hands out: a value, or why there is none.
HandsOut(v) == [value |-> v, why |-> "ok"]
Refuses(e) == [value |-> Sealed, why |-> e]
OrNotFound(v) == IF Is(v) THEN HandsOut(v) ELSE Refuses("not_found")

\* VaultService::reveal: a login's password or notes, a note's content.
RevealSecret(it, k) ==
    IF <<it.type, k>> \in {<<"login", "password">>, <<"login", "notes">>} THEN OrNotFound(it.own[k])
    ELSE IF <<it.type, k>> = <<"note", "content">> THEN HandsOut(it.own[k]) ELSE Refuses("invalid")

TotpCode(it) == IF it.type = "login" /\ Is(it.own["totp"]) THEN HandsOut(Code("totp")) ELSE Refuses("not_found")

\* card_value, identity_value, bank_fields: of an item of that kind only.
ValueOf(it, kind, k) == IF it.type # kind THEN Refuses("denied") ELSE OrNotFound(it.own[k])

\* item_field: by its identifier, of the items that have custom fields.
ItemField(it, i) == [found |-> CarriesFields(it.type) /\ i \in DOMAIN it.custom,
                     field |-> IF i \in DOMAIN it.custom THEN it.custom[i] ELSE Sealed]

\* A one-time password's secret stays in the core: its code leaves.
FieldTotp(f) == IF f.kind # "otp" THEN Refuses("invalid") ELSE IF Is(f.value) THEN HandsOut(Code(f.id)) ELSE Refuses("not_found")
Concealed(f) == IF f.kind # "password" THEN Refuses("invalid") ELSE OrNotFound(f.value)
CopyValue(f) == IF f.kind = "otp" THEN FieldTotp(f) ELSE OrNotFound(f.value)
FieldUrl(f) == IF f.kind # "url" THEN Refuses("invalid") ELSE OrNotFound(f.value)
IntoText(f) == IF f.kind = "otp" THEN FieldTotp(f) ELSE HandsOut(f.value)

OnField(it, i, Op(_)) == LET r == ItemField(it, i) IN IF r.found THEN Op(r.field) ELSE Refuses("not_found")

\* A number with its check digit, and the transfer details: bank, branch,
\* account and holder, each if it has a value.
Joined(it, k, digit) ==
    IF Is(it.own[k]) THEN <<k, {it.own[k]} \cup {v \in {it.own[digit]} : Is(v)}>> ELSE NoText
BankDetails(it) ==
    LET lines == {l \in {it.own["bank"], Joined(it, "branch", "branchDigit"), Joined(it, "account", "accountDigit"), it.own["holder"]} : Is(l)}
    IN IF lines = {} THEN NoText ELSE <<"details", lines>>

\* The phone's reveal, totp, reveal_bank_field: the call a row's screen makes.
PhoneReveal(it, k) ==
    IF k \in CustomIds THEN OnField(it, k, IntoText)
    ELSE IF k = "totp" THEN TotpCode(it)
    ELSE IF it.type = "bank" THEN ValueOf(it, "bank", k)
    ELSE IF k \in OwnKeys("card") THEN ValueOf(it, "card", k)
    ELSE IF it.type = "identity" THEN (IF k \in IdentityField THEN ValueOf(it, "identity", k) ELSE Refuses("invalid"))
    ELSE RevealSecret(it, k)

\* The desktop's reveals, each from a row whose value did not travel.
DesktopReveal(it, k) ==
    IF k \in CustomIds THEN OnField(it, k, LAMBDA f : IF f.kind = "otp" THEN FieldTotp(f) ELSE Concealed(f))
    ELSE IF k = "totp" THEN TotpCode(it)
    ELSE IF it.type \in {"card", "bank"} THEN ValueOf(it, it.type, k)
    ELSE RevealSecret(it, k)

Reveal(a, it, k) == IF a = "phone" THEN PhoneReveal(it, k) ELSE DesktopReveal(it, k)

\* copy_secret, copy_item_field, copy_card_field, copy_identity_field and
\* copy_bank_field; bank_details_text on the phone.
Copy(it, k) ==
    CASE k \in CustomIds -> OnField(it, k, CopyValue)
      [] k = "username" -> OrNotFound(Overview(it).username)
      [] k = "totp" -> TotpCode(it)
      [] k = "address" -> OrNotFound(FormattedAddress(it))
      [] k = "details" -> OrNotFound(BankDetails(it))
      [] k = "branch" -> OrNotFound(Joined(it, "branch", "branchDigit"))
      [] k = "account" -> OrNotFound(Joined(it, "account", "accountDigit"))
      [] it.type \in {"card", "identity", "bank"} -> ValueOf(it, it.type, k)
      [] OTHER -> RevealSecret(it, k)

-----------------------------------------------------------------------------
VARIABLES readApp,          \* the app that runs
          reader,          \* "open" or "locked"
          entry,           \* the item
          whereabouts,      \* "live", "trash" or "gone"
          screen,           \* the rows on the screen, and the passwords in its history
          given,            \* the last answer: to which key, and what
          changes           \* changes so far

readVars == <<readApp, reader, entry, whereabouts, screen, given, changes>>

NoScreen == [rows |-> {}, previous |-> 0]
NoAnswer == [key |-> Sealed, how |-> "none", answer |-> Refuses("none")]

\* An item of type t in which the keys there have values, with one custom
\* field of the kind given, with and without a value.
Filled(t, there, fields) ==
    [type |-> t, title |-> Version("title", 0), username |-> Version("username", 0), site |-> Version("website", 0),
     tag |-> Version("tag", 0), provider |-> Version("provider", 0),
     own |-> [k \in OwnKeys(t) |-> IF k \in there \cup {"content"} THEN Version(k, 0) ELSE NoText],
     custom |-> fields, ids |-> DOMAIN fields, history |-> <<>>]

FieldOf(i, kind, v) == [id |-> i, kind |-> kind, value |-> v]
SomeFields(t) ==
    {NoFields} \cup
    IF ~CarriesFields(t) THEN {}
    ELSE UNION {{[j \in {i} |-> FieldOf(i, kind, v)] : v \in {NoText, Version(i, 0)}} : i \in CustomIds, kind \in FieldKinds}

\* Nearly nothing or nearly everything is filled in.
Fillings(t) == {s \in SUBSET OwnKeys(t) : Cardinality(s) <= 1 \/ Cardinality(OwnKeys(t) \ s) <= 1}

ReadInit ==
    /\ readApp \in ReadApps /\ reader = "open" /\ whereabouts = "live"
    /\ \E t \in ReadTypes : \/ \E s \in Fillings(t) : entry = Filled(t, s, NoFields)
                            \/ \E c \in SomeFields(t) : entry = Filled(t, OwnKeys(t), c)
    /\ screen = NoScreen /\ given = NoAnswer /\ changes = 0
-----------------------------------------------------------------------------
\* item_view, bank_view and the desktop's reads of an item that opens: of a
\* live item, while the vault is unlocked.
OpenScreen ==
    /\ reader = "open" /\ whereabouts = "live"
    /\ screen' = [rows |-> View(readApp, entry), previous |-> IF readApp = "desktop" THEN Len(entry.history) ELSE 0]
    /\ given' = NoAnswer /\ UNCHANGED <<readApp, reader, entry, whereabouts, changes>>

\* Every call looks at the session first and then for a live item.
Answered(k, how, got) ==
    /\ given' = [key |-> k, how |-> how,
                 answer |-> IF reader = "locked" THEN Refuses("locked")
                            ELSE IF whereabouts # "live" THEN Refuses("not_found") ELSE got]
    /\ UNCHANGED <<readApp, reader, entry, whereabouts, screen, changes>>

\* The account's check digit is asked for with the account.
AskKeys == {row.key : row \in {r \in screen.rows : r.value = Sealed}}
AskValue == \E k \in AskKeys \cup {d \in {"accountDigit"} : "account" \in AskKeys} :
    Answered(k, "reveal", Reveal(readApp, entry, k))

\* Notes and a branch's digit have no copy of their own.
CopyKeys == ({row.key : row \in screen.rows} \cup {k \in {"details"} : entry.type = "bank"})
            \ ({"branchDigit", "card.notes"} \cup {k \in {"notes"} : entry.type # "identity"})

AskCopy == /\ readApp = "desktop" /\ screen # NoScreen
           /\ \E k \in CopyKeys : Answered(k, "copy", Copy(entry, k))

AskDetails == /\ readApp = "phone" /\ screen # NoScreen /\ entry.type = "bank"
              /\ Answered("details", "copy", OrNotFound(BankDetails(entry)))

\* A custom field with an address opens in the browser.
OpenFieldUrl == /\ readApp = "desktop"
                /\ \E row \in screen.rows : row.key \in CustomIds /\ Answered(row.key, "open", OnField(entry, row.key, FieldUrl))

\* A previous password is asked for by its place in the list on the screen.
RevealPrevious == \E i \in 1..screen.previous :
    Answered("password", "previous",
             IF i <= Len(entry.history) THEN HandsOut(entry.history[i]) ELSE Refuses("not_found"))

\* The lock may come while the screen is up; an unlocked app starts anew.
LockReader ==
    /\ reader' = (IF reader = "open" THEN "locked" ELSE "open")
    /\ screen' = (IF reader = "open" THEN screen ELSE NoScreen)
    /\ given' = NoAnswer /\ UNCHANGED <<readApp, entry, whereabouts, changes>>

\* The custom fields after an edit: one less, one more (with an identifier
\* of its own), or one with another value or none.  None changes its kind.
ChangedFields(old) ==
    {[j \in DOMAIN old \ {i} |-> old[j]] : i \in DOMAIN old}
    \cup (UNION {{[old EXCEPT ![i].value = v] : v \in {NoText, Version(i, changes + 1)}} : i \in DOMAIN old})
    \cup {[j \in DOMAIN old \cup {i} |-> IF j = i THEN FieldOf(i, kind, Version(i, changes + 1)) ELSE old[j]] :
              i \in CustomIds \ entry.ids, kind \in FieldKinds}

\* Another device changes the item, or the owner here.
ChangeItem ==
    /\ changes < MaxItemChanges /\ changes' = changes + 1
    /\ \/ \E k \in DOMAIN entry.own : \E v \in {NoText, Version(k, changes + 1)} :
            /\ k = "content" => Is(v)
            /\ entry' = [entry EXCEPT !.own[k] = v,
                            !.history = IF entry.type = "login" /\ k = "password" /\ Is(entry.own[k]) THEN <<entry.own[k]>> \o @ ELSE @]
       \/ CarriesFields(entry.type) /\ \E c \in ChangedFields(entry.custom) : entry' = [entry EXCEPT !.custom = c, !.ids = @ \cup DOMAIN c]
    /\ given' = NoAnswer /\ UNCHANGED <<readApp, reader, whereabouts, screen>>

\* The item goes to the trash, comes back, or is deleted.
MoveItem ==
    /\ \/ whereabouts = "live" /\ whereabouts' = "trash"
       \/ whereabouts = "trash" /\ whereabouts' \in {"live", "gone"}
    /\ given' = NoAnswer /\ UNCHANGED <<readApp, reader, entry, screen, changes>>

ReadNext == OpenScreen \/ AskValue \/ AskCopy \/ AskDetails \/ OpenFieldUrl \/ RevealPrevious
            \/ LockReader \/ ChangeItem \/ MoveItem

ReadSpec == ReadInit /\ [][ReadNext]_readVars

-----------------------------------------------------------------------------
ReadTypeOK ==
    /\ readApp \in ReadApps /\ reader \in {"open", "locked"} /\ whereabouts \in {"live", "trash", "gone"}
    /\ entry.type \in ReadTypes /\ DOMAIN entry.own = OwnKeys(entry.type) /\ changes \in 0..MaxItemChanges

\* Every row of an item's screen can be asked for: the call the app makes is
\* one that its kind of item answers, and a row that says there is a value
\* gets it.
RowsAreAnswered ==
    \A row \in {r \in View(readApp, entry) : r.value = Sealed} :
        LET a == Reveal(readApp, entry, row.key) IN
        /\ a.why \in {"ok", "not_found"}
        /\ row.has => a.why = "ok"

\* A value comes from the field that was asked for, however old the screen.
AnswersTheAsked ==
    given.how \in {"reveal", "previous"} /\ given.answer.why = "ok" /\ Is(given.answer.value) =>
        given.answer.value[1] = given.key \/ given.answer.value = Code(given.key)

\* Of a password or a one-time password no screen carries the value, and
\* each stays masked, or not, as long as it is the item's.
MasksStay ==
    \A row \in screen.rows : row.key \in DOMAIN entry.custom =>
        LET secret == entry.custom[row.key].kind \in {"password", "otp"} IN
        row.masked = secret /\ (secret => row.value = Sealed)

\* No one-time password secret, no document and no number leaves with the
\* list or the search, and none of a masked row with its screen.
SealedStaySealed ==
    LET o == Overview(entry)
        secret == {Version(k, n) : k \in {"password", "totp", "account", "accountDigit", "card.number", "card.code", "content"}
                                           \cup Documents \cup CustomIds, n \in 0..MaxItemChanges}
    IN /\ SearchWords(o) \cap secret = {} /\ {Summary(o).subtitle} \cap secret = {}
       /\ \A row \in screen.rows : row.masked => row.value = Sealed

\* The summaries of card and account numbers keep back all but the last
\* characters, whatever the lengths.
SummariesHide ==
    \A n \in 1..20, d \in 0..2 : CardSummary(n) \in {0, 4} /\ CardSummary(n) + 8 <= (IF CardSummary(n) = 0 THEN 8 ELSE n)
                                 /\ BankSummary(n, d) <= 3 /\ (BankSummary(n, d) > 0 => n + d - BankSummary(n, d) >= 1)

ReadingIsTrue == RowsAreAnswered /\ AnswersTheAsked /\ MasksStay /\ SealedStaySealed /\ SummariesHide
=============================================================================
