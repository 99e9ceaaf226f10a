-------------------------------- MODULE Wire --------------------------------
(***************************************************************************)
(* One request of the browser extension on its way: the extension writes a *)
(* frame to the native messaging host, the host validates it and sends it  *)
(* to the desktop app, the desktop gates it, asks the vault and answers,   *)
(* and the host validates the answer before the extension sees it.  A text *)
(* is its size in bytes; Absent is a key that is missing, Null a null.     *)
(***************************************************************************)
EXTENDS Integers, FiniteSets, FiniteSetsExt, Sequences, SequencesExt, TLC

CONSTANTS Counts,           \* how many items the vault finds for the page
          NoRequest         \* no request under way; also no bank values

Absent == -1
Null == -2
Missing == {Absent, Null}

\* The protocol's limits: sizes in bytes, and how many of a kind.
MaxBytes == [request |-> 16 * 1024, response |-> 256 * 1024, url |-> 4096, secret |-> 4 * 4096,
             username |-> 4 * 512, title |-> 4 * 256, account |-> 4 * 254, card_value |-> 4 * 256]
MaxCount == [matches |-> 50, identity_roles |-> 40, card_frames |-> 8, card_roles |-> 8,
             credential_list |-> 64]
CredentialIdBytes == 16
PasswordLengths == 8..128

-----------------------------------------------------------------------------
(* Requests: the texts that each kind carries.                              *)

Page == {"url", "top_url"}
PageItem == Page \cup {"item_id"}

FillFields ==
    [k \in {"status", "lock", "generator_options"} |-> {}] @@ ("generate_password" :> {"options"})
    @@ [k \in {"find_matches", "check_lookalike"} |-> Page] @@ [k \in {"fill_item", "get_totp"} |-> PageItem]

LoginFields ==
    ("check_login" :> Page \cup {"username", "password", "current_password"})
    @@ ("save_login" :> PageItem \cup {"username", "password", "title"})

PasskeyFields ==
    ("find_passkeys" :> Page \cup {"rp_id"})
    @@ ("passkey_get" :> PageItem \cup {"credential_id", "rp_id", "challenge"})
    @@ ("check_passkey_create" :> Page \cup {"rp_id", "user_name"})
    @@ ("passkey_create" :> PageItem \cup {"rp_id", "challenge", "user_handle", "user_name", "display_name"})
    @@ ("passkey_status" :> Page)

SsoFields ==
    [k \in {"open_item", "start_sso"} |-> PageItem]
    @@ ("check_sso" :> Page \cup {"account"}) @@ ("save_sso" :> PageItem \cup {"account", "title"})

CardFields ==
    [k \in {"find_identity", "fill_identity", "open_identity", "find_cards"} |-> Page]
    @@ ("fill_card" :> {"item_id", "top_url"})
    @@ ("save_card" :> Page \cup {"title", "cardholder_name", "number", "verification_number", "expiry"})
    @@ ("show_unlock" :> {})

Fields == FillFields @@ LoginFields @@ PasskeyFields @@ SsoFields @@ CardFields
Kinds == DOMAIN Fields

\* The texts that may be null, and of these the ones whose key may be missing.
Nullable(k) ==
    {"username", "current_password", "title", "account", "display_name", "cardholder_name",
     "verification_number", "expiry", "options"}
    \cup (IF k = "fill_card" THEN {} ELSE {"top_url"})
    \cup (IF k \in {"save_login", "passkey_create", "save_sso"} THEN {"item_id"} ELSE {})
Omittable(k) == Nullable(k) \ {"account"}

IdentityRole == <<"fullName", "firstName", "middleName", "lastName", "email", "phone", "birthDate",
                  "birthDay", "birthMonth", "birthYear", "company", "street", "number", "complement",
                  "addressLine1", "addressLine2", "neighborhood", "city", "state", "postalCode",
                  "country", "username", "cpf", "rg", "passport", "driversLicense">>
CardRole == <<"cardholderName", "cardholderGivenName", "cardholderFamilyName", "number",
              "verificationNumber", "expiryMonth", "expiryYear", "brand">>

\* Bytes that a base64url text of n characters stands for, and the reverse.
B64urlLen(n) == IF n % 4 = 1 THEN Absent ELSE (n \div 4) * 3 + <<0, 0, 1, 2>>[(n % 4) + 1]
EncodeB64url(n) == (4 * n + 2) \div 3

TextOk(n, max) == 1 <= n /\ n <= max
NameOk(n) == n <= MaxBytes.username
CredentialOk(n) == B64urlLen(n) = CredentialIdBytes
AllUnique(s) == Cardinality(ToSet(s)) = Len(s)
OptionsOk(length, some) == length \in PasswordLengths /\ some      \* some kind of character is on

\* odd holds the texts with a character or a shape they may not have: outside
\* base64url, no YYYY-MM, no kind of character on.
FieldOk(r, f) ==
    LET n == r.text[f]
        odd == f \in r.odd IN
    CASE n \in Missing -> TRUE
      [] f \in {"url", "top_url"} -> TextOk(n, MaxBytes.url)
      [] f \in {"password", "current_password"} -> TextOk(n, MaxBytes.secret)
      [] f \in {"username", "user_name", "display_name"} -> NameOk(n)
      [] f = "title" -> TextOk(n, MaxBytes.title)
      [] f = "account" -> TextOk(n, MaxBytes.account)
      [] f = "rp_id" -> TextOk(n, 253)
      [] f = "credential_id" -> ~odd /\ CredentialOk(n)
      [] f = "challenge" -> ~odd /\ B64urlLen(n) \in 1..4096
      [] f = "user_handle" -> ~odd /\ B64urlLen(n) \in 1..64
      [] f = "number" -> TextOk(n, 64)
      [] f = "verification_number" -> TextOk(n, 16)
      [] f = "cardholder_name" -> TextOk(n, MaxBytes.card_value)
      [] f = "expiry" -> ~odd /\ n = 7
      [] f = "options" -> OptionsOk(n, ~odd)
      [] f = "item_id" -> TRUE

\* A title names a new item only.
TitleOk(r) ==
    {"title", "item_id"} \subseteq DOMAIN r.text /\ r.text["title"] \notin Missing => r.text["item_id"] \in Missing

\* The credentials a site sent, the roles asked for, or the frames with theirs.
ListOk(r) ==
    CASE r.kind \in {"find_passkeys", "check_passkey_create"} ->
            Len(r.list) <= MaxCount.credential_list /\ \A i \in 1..Len(r.list) : CredentialOk(r.list[i])
      [] r.kind = "fill_identity" -> Len(r.list) \in 1..MaxCount.identity_roles /\ AllUnique(r.list)
      [] r.kind = "fill_card" ->
            /\ Len(r.list) \in 1..MaxCount.card_frames
            /\ \A i \in 1..Len(r.list) : LET frame == r.list[i] IN
                  TextOk(frame.url, MaxBytes.url) /\ Len(frame.roles) \in 1..MaxCount.card_roles /\ AllUnique(frame.roles)
      [] OTHER -> TRUE

FieldSizesOk(r) == (\A f \in DOMAIN r.text : FieldOk(r, f)) /\ TitleOk(r) /\ ListOk(r)

Readable(r) ==
    /\ r.broken = "no"
    /\ \A f \in DOMAIN r.text : /\ r.text[f] = Null => f \in Nullable(r.kind)
                                /\ r.text[f] = Absent => f \in Omittable(r.kind)

ParseRequest(r) ==
    IF r.broken = "version" THEN "unsupported_version"
    ELSE IF ~Readable(r) THEN "malformed"
    ELSE IF ~FieldSizesOk(r) THEN "invalid_input" ELSE "ok"

\* Bytes of a frame: what is there has its name and quotes, about 20 bytes, and a
\* text its own.
EntryLen(k, e) == IF k = "fill_card" THEN 20 + e.url + 20 * Len(e.roles) ELSE 25
FrameLen(r) ==
    100 + MapThenSumSet(LAMBDA f : IF r.text[f] = Absent THEN 0 ELSE 20 + Max({0, r.text[f]}), DOMAIN r.text)
        + MapThenSumSet(LAMBDA i : EntryLen(r.kind, r.list[i]), 1..Len(r.list))

\* The host writes a request again: some values without anything as a null,
\* the others not at all.
WrittenAsNull(k) == {"username", "item_id", "display_name", "account"} \cap Fields[k]
Canonical(r) ==
    [r EXCEPT !.text = [f \in DOMAIN @ |-> IF @[f] \notin Missing THEN @[f]
                                          ELSE IF f \in WrittenAsNull(r.kind) THEN Null ELSE Absent]]

\* A small request of each kind, and the same with one text or list at an edge.
Small == [f \in UNION {Fields[k] : k \in Kinds} |->
            CASE f = "item_id" -> 36 [] f \in {"credential_id", "challenge", "user_handle"} -> 22
              [] f = "expiry" -> 7 [] f = "options" -> 8 [] OTHER -> 1]
Edges == [f \in DOMAIN Small |->
    CASE f = "item_id" -> {36} [] f \in {"url", "top_url"} -> {0, MaxBytes.url, MaxBytes.url + 1}
      [] f \in {"password", "current_password"} -> {0, MaxBytes.secret + 1} \cup {MaxBytes.request - n : n \in {140, 141, 161, 181}}
      [] f \in {"username", "user_name", "display_name"} -> {0, MaxBytes.username, MaxBytes.username + 1}
      [] f \in {"title", "cardholder_name"} -> {0, MaxBytes.title, MaxBytes.title + 1}
      [] f = "account" -> {0, MaxBytes.account, MaxBytes.account + 1} [] f = "rp_id" -> {0, 253, 254}
      [] f \in {"credential_id", "challenge", "user_handle"} -> {0, 21, 22, 23, 86, 87, 5462, 5463}
      [] f = "number" -> {0, 64, 65} [] f = "verification_number" -> {0, 16, 17}
      [] f = "expiry" -> {6, 7, 8} [] f = "options" -> {7, 8, 128, 129}]
Oddities == {"credential_id", "challenge", "user_handle", "expiry", "options"}
Repeat(n, e) == [i \in 1..n |-> e]
ListsOf(k) ==
    CASE k \in {"find_passkeys", "check_passkey_create"} ->
            {<<>>, <<22>>, <<22, 23>>, Repeat(MaxCount.credential_list, 22), Repeat(MaxCount.credential_list + 1, 22)}
      [] k = "fill_identity" -> {<<>>, <<"email">>, <<"email", "email">>, IdentityRole}
      [] k = "fill_card" ->
            {<<>>} \cup {Repeat(n, [url |-> u, roles |-> s]) : n \in {1, MaxCount.card_frames, MaxCount.card_frames + 1}, u \in {0, 1, MaxBytes.url, MaxBytes.url + 1},
                                        s \in {<<>>, <<"number">>, <<"number", "number">>, CardRole}}
      [] OTHER -> {<<>>}
Plain(k) == [kind |-> k, broken |-> "no", odd |-> {},
             text |-> [f \in Fields[k] |-> IF f \in Omittable(k) THEN Absent ELSE IF f \in Nullable(k) THEN Null ELSE Small[f]],
             list |-> CASE k = "fill_identity" -> <<"email">>
                        [] k = "fill_card" -> <<[url |-> 1, roles |-> <<"number">>]>> [] OTHER -> <<>>]
Requests == UNION {
    {Plain(k)} \cup {[Plain(k) EXCEPT !.broken = x] : x \in {"version", "syntax"}}
        \cup (UNION {{[Plain(k) EXCEPT !.text[f] = n] : n \in Edges[f] \cup Missing} : f \in Fields[k]})
        \cup {[Plain(k) EXCEPT !.text[f] = Small[f], !.odd = {f}] : f \in Fields[k] \cap Oddities}
        \cup {[Plain(k) EXCEPT !.list = s] : s \in ListsOf(k)}
        \cup (IF {"title", "item_id"} \subseteq Fields[k]
              THEN {[Plain(k) EXCEPT !.text["title"] = 1, !.text["item_id"] = 36]} ELSE {}) : k \in Kinds}

ASSUME WireAssumption == NoRequest \notin Requests

-----------------------------------------------------------------------------
(* What the vault holds, as far as the answers can tell: a text of c        *)
(* characters has at most 4c bytes.                                         *)

Texts(c) == {1, 4 * c}

\* Numbers and check digits of a bank account as an item keeps them: a digit
\* may have been typed without its number.
BankFields == [bank : {Absent, 64}, branch : {Absent, 8}, branchDigit : {Absent, 1},
               account : {Absent, 3, 4, 20}, accountDigit : {Absent, 1, 2}]

\* The last three characters of account and digit, with a dash before the
\* digit; none of a short account.
BankSummary(b) ==
    [bank |-> b.bank, branch |-> b.branch,
     last3 |-> IF b.account < 4 THEN Absent ELSE IF b.accountDigit = Absent THEN 3 ELSE 4]

BankMatchOk(m) == m.bank <= 64 /\ m.branch \in {Absent} \cup 1..8 /\ m.last3 <= 6

\* A digit travels only with its number; nothing without either.
BankValues(b) ==
    IF b.branch = Absent /\ b.account = Absent THEN NoRequest
    ELSE [branch |-> b.branch, branchDigit |-> IF b.branch = Absent THEN Absent ELSE b.branchDigit,
          account |-> b.account, accountDigit |-> IF b.account = Absent THEN Absent ELSE b.accountDigit]

BankFillOk(b) ==
    /\ b.branch # Absent \/ b.account # Absent
    /\ b.branch # Absent => b.branch \in 1..8
    /\ b.account # Absent => b.account \in 1..20
    /\ b.branchDigit # Absent => b.branch # Absent /\ b.branchDigit = 1
    /\ b.accountDigit # Absent => b.account # Absent /\ b.accountDigit \in 1..2

\* The longest value of each identity role, and of each card role.
FillValue(role) ==
    CASE role = "fullName" -> 3 * 4 * 256 + 2
      [] role = "addressLine1" -> 4 * 256 + 2 + 4 * 32
      [] role \in {"email", "username"} -> 4 * 512
      [] role \in {"cpf", "rg", "passport", "driversLicense"} -> 4 * 64
      [] role \in {"phone", "number", "postalCode"} -> 4 * 32
      [] role \in {"birthDate", "birthDay", "birthMonth", "birthYear"} -> 10
      [] OTHER -> 4 * 256
RoleValue(role) ==
    CASE role = "number" -> 19 [] role \in {"verificationNumber", "expiryYear"} -> 4
      [] role = "expiryMonth" -> 2 [] role = "brand" -> 10 [] OTHER -> 4 * 256

\* A title of an identity or a card is cut to what a summary may carry.
TruncateBytes(n) == Min({n, MaxBytes.title})

\* Origins of a provider's sign-in pages.
ProviderOrigins == {1, 2}

-----------------------------------------------------------------------------
(* Answers.  A list is its length and one entry, the entries being alike.   *)

Error(c) == [kind |-> "error", code |-> c]
Done(k) == [kind |-> k]                  \* an answer whose size is within bounds whatever it says

EntryBytes(m) == 190 + MapThenSumSet(LAMBDA f : IF m[f] < 0 THEN 4 ELSE m[f], DOMAIN m \ {"tags", "kind", "bank"})
                     + (IF "bank" \in DOMAIN m /\ m.bank # NoRequest THEN 60 + 4 * 64 + 8 + 6 ELSE 0)
\* Ten accounts, a password or a challenge with its origin: no other answer has
\* more than a few such texts.
SmallAnswer == 24 * 1024

ValuesLen(values) == MapThenSumSet(LAMBDA i : 40 + values[i].bytes, 1..Len(values))
WireLen(a) ==
    150 + CASE a.kind = "find_matches" -> a.n * EntryBytes(a.each) + a.tagged * a.each.tags * (4 * 32 + 3)
            [] a.kind \in {"find_passkeys", "check_passkey_create", "find_cards"} -> a.n * EntryBytes(a.each)
            [] a.kind = "fill_identity" -> ValuesLen(a.values)
            [] a.kind = "fill_card" -> a.n * (15 + ValuesLen(a.values))
            [] OTHER -> SmallAnswer

\* A find_matches answer loses tags, last match first, until it fits.
FitFrame(a) ==
    IF a.kind # "find_matches" THEN a
    ELSE LET fits == {t \in 0..a.tagged : WireLen([a EXCEPT !.tagged = t]) <= MaxBytes.response}
         IN [a EXCEPT !.tagged = IF fits = {} THEN 0 ELSE Max(fits)]

LookalikeSiteOk(site) == site.plain /\ TextOk(site.bytes, 253)

RolesOf(values) == [i \in 1..Len(values) |-> values[i].role]

\* What the other side accepts as an answer.
IsValid(a) ==
    CASE a.kind = "check_lookalike" -> a.site # NoRequest => LookalikeSiteOk(a.site)
      [] a.kind = "fill_item" -> a.bank # NoRequest => BankFillOk(a.bank)
      [] a.kind = "find_matches" ->
            /\ a.n <= MaxCount.matches
            /\ a.n > 0 => /\ (a.each.kind = "bankAccount") = (a.each.bank # NoRequest)
                          /\ a.each.bank # NoRequest => BankMatchOk(a.each.bank)
                          /\ a.each.tags <= 20
      [] a.kind = "generator_options" -> OptionsOk(a.length, a.some)
      [] a.kind = "check_login" -> (a.action = "update") = a.item
      [] a.kind = "find_passkeys" -> a.n <= MaxCount.matches /\ (a.n > 0 => CredentialOk(a.each.credential))
      [] a.kind = "check_passkey_create" -> a.n <= MaxCount.matches /\ (a.excluded => a.n = 0 /\ a.upgrade = "none")
      [] a.kind \in {"passkey_get", "passkey_create"} -> CredentialOk(a.credential)
      [] a.kind = "start_sso" -> a.n \in 1..4
      [] a.kind = "check_sso" ->
            (a.action = "update") = a.item /\ a.n <= 10 /\ (a.n > 0 => TextOk(a.each, MaxBytes.account))
      [] a.kind = "find_identity" ->
            a.title <= MaxBytes.title /\ a.email <= MaxBytes.username /\ Len(a.roles) <= MaxCount.identity_roles /\ AllUnique(a.roles)
      [] a.kind = "fill_identity" ->
            /\ Len(a.values) <= MaxCount.identity_roles /\ AllUnique(RolesOf(a.values))
            /\ \A i \in 1..Len(a.values) : TextOk(a.values[i].bytes, 4096)
      [] a.kind = "find_cards" ->
            /\ a.n <= MaxCount.matches /\ (a.insecure => a.n = 0)
            /\ a.n > 0 => a.each.title <= MaxBytes.title /\ a.each.last4 \in {Absent, 4} /\ a.each.expiry \in {Absent, 7}
      [] a.kind = "fill_card" ->
            /\ a.n <= MaxCount.card_frames /\ Len(a.values) <= MaxCount.card_roles /\ AllUnique(RolesOf(a.values))
            /\ \A i \in 1..Len(a.values) : TextOk(a.values[i].bytes, MaxBytes.card_value)
      [] OTHER -> TRUE

-----------------------------------------------------------------------------
(* The answers the vault gives to each kind, as the desktop builds them.    *)

Offered == {Min({n, MaxCount.matches}) : n \in Counts}

\* A suggestion is a login or a bank account, which shows its summary.
Suggestions ==
    [title : Texts(256), username : {Absent} \cup Texts(512), kind : {"login"}, bank : {NoRequest}, tags : {0, 20}]
    \cup {[title |-> 4 * 256, username |-> Absent, kind |-> "bankAccount", bank |-> BankSummary(b), tags |-> 20] : b \in BankFields}
FindMatches == {[kind |-> "find_matches", n |-> n, each |-> s, tagged |-> n] : n \in Offered, s \in Suggestions}

\* A site the protocol would refuse is not sent.
CheckLookalike == {[kind |-> "check_lookalike", site |-> IF LookalikeSiteOk(s) THEN s ELSE NoRequest] :
                   s \in [bytes : {1, 253, 254}, plain : BOOLEAN]}

FillItem ==
    {[kind |-> "fill_item", bank |-> NoRequest]} \cup {[kind |-> "fill_item", bank |-> BankValues(b)] : b \in BankFields}

GeneratorPolicy == {[kind |-> "generator_options", length |-> n, some |-> TRUE] : n \in {8, 128}}

FindPasskeys == {[kind |-> "find_passkeys", n |-> n, each |-> [title |-> t, userName |-> u, credential |-> EncodeB64url(16)]] :
                 n \in Offered, t \in Texts(256), u \in Texts(512)}

PasskeyGet(r) == {[kind |-> r.kind, credential |-> EncodeB64url(16)]}

CheckCreate ==
    {[kind |-> "check_passkey_create", excluded |-> x, n |-> IF x THEN 0 ELSE n,
      upgrade |-> IF x THEN "none" ELSE hint, each |-> [title |-> t, username |-> u]] :
        x \in BOOLEAN, n \in Offered, hint \in {"none", "ask", "auto"}, t \in Texts(256), u \in {Absent, 4 * 512}}

FindCards ==
    {[kind |-> "find_cards", insecure |-> x, n |-> IF x THEN 0 ELSE n,
      each |-> [title |-> TruncateBytes(t), last4 |-> l, expiry |-> e]] :
        x \in BOOLEAN, n \in Offered, t \in Texts(256), l \in {Absent, 4}, e \in {Absent, 7}}

SaveAction(k) == {[kind |-> k, action |-> x, item |-> x = "update"] : x \in {"add", "update", "unchanged"}}

\* The accounts that are offered: at most ten, and none when nothing changes.
\* They are usernames of the provider's logins, as long as an item allows.
CheckSso ==
    {a @@ [n |-> IF a.action = "unchanged" THEN 0 ELSE Min({n, 10}), each |-> u] :
        a \in SaveAction("check_sso"), n \in Counts, u \in {MaxBytes.account} \cup Texts(512)}

FindIdentity ==
    {[kind |-> "find_identity", title |-> TruncateBytes(t), email |-> e, roles |-> s] :
        t \in {0, 3 * 4 * 256 + 2}, e \in {Absent, 4 * 512}, s \in {<<>>, IdentityRole}}

\* The values of the roles asked for, in their order, of those that have one;
\* documents only when they were asked for and over https.
IdentityValues(roles, has) ==
    LET kept == SelectSeq(roles, LAMBDA x : x \in has) IN [i \in 1..Len(kept) |-> [role |-> kept[i], bytes |-> FillValue(kept[i])]]
Documents == {"cpf", "rg", "passport", "driversLicense"}
FillIdentity(r) == {[kind |-> "fill_identity", values |-> IdentityValues(r.list, has)] :
                    has \in {{}, ToSet(IdentityRole) \ Documents, ToSet(IdentityRole)}}

ValuesOf(roles, has) ==
    LET kept == SelectSeq(roles, LAMBDA x : x \in has) IN [i \in 1..Len(kept) |-> [role |-> kept[i], bytes |-> RoleValue(kept[i])]]
\* The frames of a request are alike, so each gets the values of the first.
FillCard(r) == {[kind |-> "fill_card", n |-> Len(r.list), values |-> ValuesOf(r.list[1].roles, has)] :
                has \in {{"brand"}, ToSet(CardRole)}}

StartSso == {[kind |-> "start_sso", n |-> n] : n \in ProviderOrigins}

Results(r) ==
    CASE r.kind = "find_matches" -> FindMatches
      [] r.kind = "check_lookalike" -> CheckLookalike
      [] r.kind = "fill_item" -> FillItem
      [] r.kind = "generator_options" -> GeneratorPolicy
      [] r.kind = "check_login" -> SaveAction("check_login")
      [] r.kind = "find_passkeys" -> FindPasskeys
      [] r.kind \in {"passkey_get", "passkey_create"} -> PasskeyGet(r)
      [] r.kind = "check_passkey_create" -> CheckCreate
      [] r.kind = "find_identity" -> FindIdentity
      [] r.kind = "fill_identity" -> FillIdentity(r)
      [] r.kind = "find_cards" -> FindCards
      [] r.kind = "fill_card" -> FillCard(r)
      [] r.kind = "start_sso" -> StartSso
      [] r.kind = "check_sso" -> CheckSso
      [] OTHER -> {Done(r.kind)}

\* What a call into an open vault may fail with.  An item request hides
\* whether the item exists.
ItemRequests == {"fill_item", "get_totp", "save_login", "passkey_get", "passkey_create", "start_sso", "save_sso"}
Code(e) ==
    IF e \in {"locked", "busy", "no_vault", "not_found", "denied", "invalid_input", "decryption", "corrupted", "offline"}
    THEN e ELSE "internal"
ItemCode(e) == IF e = "not_found" THEN "denied" ELSE Code(e)
CoreErrors == {"not_found", "denied", "invalid_input", "decryption", "corrupted", "store"}
VaultErrors(k) == {IF k \in ItemRequests THEN ItemCode(e) ELSE Code(e) : e \in CoreErrors}

\* What sending a staged write may fail with.
BridgeErrors == {"offline", "locked", "denied", "not_found", "invalid_input", "rate_limited", "frozen", "internal"}

ChangesItems == {"save_login", "passkey_create", "save_sso", "save_card"}
MayWaitForUser(r) == r.kind = "save_login" /\ r.text["item_id"] \notin Missing

\* Of a dispatched request: an update may wait for the user, and be refused or
\* find another waiting; a write must reach the server.  The clean-up after
\* find_passkeys may fail without changing the answer.
HandleLimited(r) ==
    {Error(c) : c \in VaultErrors(r.kind)} \cup Results(r)
    \cup (IF r.kind \in ChangesItems THEN {Error(c) : c \in BridgeErrors} ELSE {})
    \cup (IF MayWaitForUser(r) THEN {Error("denied"), Error("busy")} ELSE {})

RefusedWhenFrozen == {"check_login", "save_login", "check_passkey_create", "passkey_create", "start_sso",
                      "check_sso", "save_sso", "find_identity", "fill_identity", "find_cards", "fill_card", "save_card"}

RequireEnabled(desk) ==
    IF desk.state # "unlocked" THEN "locked" ELSE IF ~desk.enabled THEN "integration_disabled" ELSE "ok"

\* A fill of a frozen account is refused once the item is known to match.
DispatchWith(r, desk) ==
    IF r.kind # "status" /\ RequireEnabled(desk) # "ok" THEN {Error(RequireEnabled(desk))}
    ELSE IF desk.frozen /\ r.kind \in RefusedWhenFrozen THEN {Error("frozen")}
    ELSE IF desk.frozen /\ r.kind = "fill_item" THEN {Error("denied"), Error("frozen")}
    ELSE HandleLimited(r)

RequestClass(k) ==
    CASE k \in {"status", "lock"} -> "none"
      [] k \in {"find_matches", "check_lookalike", "generator_options", "generate_password", "find_passkeys",
                "check_passkey_create", "passkey_status", "find_identity", "find_cards"} -> "lookup"
      [] OTHER -> "secret"

\* handle: the answers of the desktop in each state of it.
Handle(r, desk) ==
    IF r.kind = "lock" THEN {Done("lock")}
    ELSE (IF RequestClass(r.kind) = "none" THEN {} ELSE {Error("rate_limited")})
         \cup (IF r.kind = "show_unlock" THEN {Done("show_unlock")} ELSE DispatchWith(r, desk))

-----------------------------------------------------------------------------
VARIABLES at,               \* where the request is
          req, ans,
          link              \* the host's connection to the desktop

wireVars == <<at, req, ans, link>>

Stages == {"page", "host", "desktop", "return", "answered", "told", "lost"}

WireInit == at = "page" /\ req = NoRequest /\ ans = NoRequest /\ link = "none"

Goes(stage, a) == at' = stage /\ ans' = a

Send == \E r \in Requests : at = "page" /\ req' = r /\ Goes("host", NoRequest) /\ UNCHANGED link

\* The host refuses what is too large or not a request it knows, and sends
\* the rest on, connecting first when the connection is gone.
HostRefuses ==
    /\ at = "host"
    /\ \/ FrameLen(req) > MaxBytes.request /\ Goes("answered", Error("too_large"))
       \/ FrameLen(req) <= MaxBytes.request /\ ParseRequest(req) # "ok" /\ Goes("answered", Error(ParseRequest(req)))
    /\ UNCHANGED <<req, link>>

HostAccepts == at = "host" /\ FrameLen(req) <= MaxBytes.request /\ ParseRequest(req) = "ok"
FitsAgain == FrameLen(Canonical(req)) <= MaxBytes.request

HostForwards ==
    /\ HostAccepts /\ FitsAgain /\ link \in {"none", "open", "ended"}
    /\ link' = "open" /\ Goes("desktop", NoRequest) /\ UNCHANGED req

\* Mutant of HostCannot: a request that was not sent gets no answer.
ForgottenRequest ==
    /\ HostAccepts
    /\ ~FitsAgain \/ link # "open"
    /\ link' = (IF link = "open" THEN "gone" ELSE "none") /\ Goes("lost", NoRequest) /\ UNCHANGED req

\* The connection cannot be opened, the frame cannot be written to it, or it
\* grew past the limit when it was written again.  The connection is dropped;
\* its downstream thread ends later.
HostCannot ==
    /\ HostAccepts
    /\ ~FitsAgain \/ link # "open"
    /\ link' = (IF link = "open" THEN "gone" ELSE "none") /\ Goes("answered", Error("desktop_unavailable")) /\ UNCHANGED req

\* The desktop app ends or drops the connection.
DesktopCloses == link = "open" /\ link' = "closed" /\ UNCHANGED <<at, req, ans>>

\* The downstream thread meets the end of the stream and says so.
HostNotices ==
    /\ link \in {"closed", "gone"}
    /\ link' = (IF link = "closed" THEN "ended" ELSE "none")
    /\ IF at \in {"desktop", "return", "lost"} THEN Goes("told", ans) ELSE UNCHANGED <<at, ans>>
    /\ UNCHANGED req

Desk == [state : {"locked", "unlocking", "unlocked", "locking"}, enabled : BOOLEAN, frozen : BOOLEAN]

Dispatch ==
    /\ at = "desktop" /\ link = "open"
    /\ \E desk \in Desk : \E a \in Handle(req, desk) : Goes("return", FitFrame(a))
    /\ UNCHANGED <<req, link>>

\* The desktop's writer refuses a frame that is too large, and the host drops
\* an answer that is not valid: either way nothing arrives.
Deliver ==
    /\ at = "return" /\ link = "open"
    /\ IF WireLen(ans) <= MaxBytes.response /\ IsValid(ans) THEN Goes("answered", ans) ELSE Goes("lost", ans)
    /\ UNCHANGED <<req, link>>

Settled == at \in {"answered", "told"} /\ req' = NoRequest /\ Goes("page", NoRequest) /\ UNCHANGED link

WireNext == Send \/ HostRefuses \/ HostForwards \/ HostCannot \/ DesktopCloses \/ HostNotices
            \/ Dispatch \/ Deliver \/ Settled

WireFairness ==
    /\ WF_wireVars(HostRefuses) /\ WF_wireVars(HostForwards)
    /\ WF_wireVars(HostCannot) /\ WF_wireVars(HostNotices)
    /\ WF_wireVars(Dispatch) /\ WF_wireVars(Deliver)

WireSpec == WireInit /\ [][WireNext]_wireVars /\ WireFairness

-----------------------------------------------------------------------------
WireTypeOK ==
    /\ at \in Stages
    /\ link \in {"none", "open", "closed", "ended", "gone"}
    /\ at = "page" <=> req = NoRequest

\* The one answer the host refuses: check_sso offers the usernames of a
\* provider's logins, and the protocol allows an account fewer bytes than an
\* item allows a username (message.rs is_valid, vault.rs provider_accounts).
LongAccountOffered(a) ==
    a # NoRequest /\ a.kind = "check_sso" /\ a.n > 0 /\ a.each > MaxBytes.account

\* Whatever else the vault holds, the desktop answers with a frame the writer
\* sends and the host forwards: no other answer is dropped on the way or costs
\* the connection.
AnswersFit == at = "lost" => LongAccountOffered(ans)

\* Every request the extension sends is answered, or the extension is told
\* that the connection was lost, unless its answer offers such an account.
RequestsAreAnswered ==
    at = "host" ~> at \in {"answered", "told"} \/ (at = "lost" /\ LongAccountOffered(ans))
=============================================================================
