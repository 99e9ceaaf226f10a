------------------------------- MODULE Values -------------------------------
(***************************************************************************)
(* What the core makes of what is typed into an identity, a card, a bank   *)
(* account, a website or a one-time-password setup, before it is stored.   *)
(* The editors send the values they show back whole, and a restore rebuilds *)
(* an item "as if it were typed in" (export/restore.rs), so what is stored *)
(* has to pass again.                                                      *)
(*                                                                         *)
(* A text is a sequence of characters; a character stands for its class.   *)
(* Unset is a value that is absent or blank.                              *)
(***************************************************************************)
EXTENDS Integers, Sequences, FiniteSets, FiniteSetsExt, SequencesExt

CONSTANTS MaxNameChars, MaxDocumentChars, MaxEmailChars, MaxPhoneChars, MaxShortChars,
          MaxTitleChars, MaxCustomChars, MaxCustomFields,
          MaxNotesBytes, MaxWebsiteLen, MaxUrlLen, MaxRules, MaxEncoded,
          MinNumberDigits, MaxNumberDigits, MinCodeDigits, MaxCodeDigits, MinDigitsForLast4,
          MaxBranchDigits, MaxAccountDigits, MaxDigitChars, MaxBankChars,
          MinSecretBytes, MaxSecretBytes, MaxPeriod, MaxUriLen, MaxLabelLen,
          Identities, Cards, Banks, Websites, Setups,    \* what may be typed
          Updates,                                       \* what may be done to a kept value
          Numbers,                                       \* card numbers looked at
          Dates,                                         \* dates looked at
          Moments,                                       \* times a code is asked for
          FirstDay, LastDay                              \* bound: days the clock shows

\* Texts, and what stands for one that was not given at all.
Characters == {"0", "1", "2", "3", "4", "5", "6", "7", "8", "9", "a", "x", "X", " ", "nl", "bell", ":", "-", "."}
Texts == Seq(Characters)
NotGiven == <<"not given">>

ASSUME ValuesAssumption ==
    /\ {MaxNameChars, MaxDocumentChars, MaxEmailChars, MaxPhoneChars, MaxShortChars,
        MaxTitleChars, MaxCustomChars, MaxCustomFields, MaxNotesBytes, MaxUrlLen, MaxRules, MaxEncoded, MinSecretBytes, MaxPeriod,
        MaxLabelLen} \subseteq Nat
    /\ MaxUrlLen <= MaxWebsiteLen /\ MaxBankChars <= MaxTitleChars
    /\ 0 < MinNumberDigits /\ MinNumberDigits <= MaxNumberDigits
    /\ 0 < MinCodeDigits /\ MinCodeDigits <= MaxCodeDigits
    /\ FirstDay <= LastDay
    /\ 30 <= MaxPeriod /\ Moments \subseteq Nat
    /\ \A f \in Setups : f.uri => f.issuer \in Texts \cup {NotGiven} /\ f.label \in Texts

VARIABLES saved,       \* [kind, v, day]: what is stored, of which kind and since when
          dayNow       \* the day the clock shows, counted from 1970-01-01

valueVars == <<saved, dayNow>>

-----------------------------------------------------------------------------
(* Texts (identity.rs).                                                     *)

Decimal == <<"0", "1", "2", "3", "4", "5", "6", "7", "8", "9">>
DigitChars == ToSet(Decimal)
SpaceChars == {" ", "nl"}
ControlChars == {"nl", "bell"}

Unset == <<>>
Refused == <<"refused">>

Trim(t) == LET solid == {i \in DOMAIN t : t[i] \notin SpaceChars}
           IN  IF solid = {} THEN Unset ELSE SubSeq(t, Min(solid), Max(solid))

Allowed(t, allow) ==
    \A i \in DOMAIN t :
        CASE allow = "line" -> t[i] \notin ControlChars
          [] allow = "text" -> t[i] \notin ControlChars \ {"nl"}
          [] allow = "phone" -> t[i] \in DigitChars \cup {" ", "+", "(", ")", "-", "."}

CleanValue(t, max, allow) ==
    LET v == Trim(t)
    IN  IF v # Unset /\ (Len(v) > max \/ ~Allowed(v, allow)) THEN Refused ELSE v

\* Notes are kept as typed; only a card's are looked at for control characters.
CleanNotes(t, checked) ==
    CASE Trim(t) = Unset -> Unset
      [] Len(t) > MaxNotesBytes \/ (checked /\ ~Allowed(t, "text")) -> Refused
      [] OTHER -> t

-----------------------------------------------------------------------------
(* Dates: [y, m, d], or NoDate; a text of another form is one with m = 0.   *)

NoDate == [y |-> 0, m |-> 0, d |-> 0]

DaysInMonth(y, m) ==
    IF m \in {1, 3, 5, 7, 8, 10, 12} THEN 31
    ELSE IF m \in {4, 6, 9, 11} THEN 30
    ELSE IF (y % 4 = 0 /\ y % 100 # 0) \/ y % 400 = 0 THEN 29 ELSE 28

ParsesYmd(t) == t.y >= 1 /\ t.m \in 1..12 /\ t.d \in 1..DaysInMonth(t.y, t.m)

DaysFromCivil(t) ==
    LET y == IF t.m <= 2 THEN t.y - 1 ELSE t.y
        era == y \div 400
        yoe == y - era * 400
        doy == (153 * ((t.m + 9) % 12) + 2) \div 5 + t.d - 1
        doe == yoe * 365 + yoe \div 4 - yoe \div 100 + doy
    IN  era * 146097 + doe - 719468

MinBirthYear == 1850

BirthDateOk(t, today) == ParsesYmd(t) /\ t.y >= MinBirthYear /\ DaysFromCivil(t) <= today

-----------------------------------------------------------------------------
(* Websites: a URL as typed, [scheme, host, creds, frag, odd, len].  odd is *)
(* how much longer its own form is (encoded, a host in ASCII, a slash), frag *)
(* how long its fragment; "later" is "://" after a first part without one.  *)

NoUrl == [scheme |-> "none", host |-> FALSE, creds |-> FALSE, frag |-> 0, odd |-> 0, len |-> 0]

NormalizedLen(u) == u.len + (IF u.scheme = "none" THEN 8 ELSE 0) + u.odd - u.frag

NormalizeOk(u) ==
    /\ u.len \in 1..MaxUrlLen
    /\ u.scheme \in {"none", "http", "https"}
    /\ u.host /\ ~u.creds
    /\ NormalizedLen(u) <= MaxUrlLen

NormalizeUrl(u) ==
    [u EXCEPT !.scheme = IF @ = "none" THEN "https" ELSE @, !.frag = 0, !.odd = 0, !.len = NormalizedLen(u)]

\* A login's websites: blank ones are left out.
CleanUrlsOk(urls) == Len(urls) <= MaxRules /\ \A i \in DOMAIN urls : urls[i] = NoUrl \/ NormalizeOk(urls[i])
CleanUrls(urls) ==
    LET present == SelectSeq(urls, LAMBDA u : u # NoUrl) IN [i \in DOMAIN present |-> NormalizeUrl(present[i])]

-----------------------------------------------------------------------------
(* An identity: texts by name, birth date, website, own fields and notes.   *)

AddressNames == {"street", "number", "complement", "neighborhood", "city", "state", "postal_code", "country"}

TextRule(name) ==
    CASE name \in {"cpf", "rg", "passport", "drivers_license"} -> [max |-> MaxDocumentChars, allow |-> "line"]
      [] name \in {"mobile_phone", "home_phone", "work_phone"} -> [max |-> MaxPhoneChars, allow |-> "phone"]
      [] name \in {"number", "postal_code"} -> [max |-> MaxShortChars, allow |-> "line"]
      [] name \in {"email", "username"} -> [max |-> MaxEmailChars, allow |-> "line"]
      [] OTHER -> [max |-> MaxNameChars, allow |-> "line"]

CleanText(f, name) == CleanValue(f.text[name], TextRule(name).max, TextRule(name).allow)

\* A row without a value is dropped; one with a value needs a label.
CleanRow(row) == [label |-> CleanValue(row.label, MaxCustomChars, "line"),
                  value |-> CleanValue(row.value, MaxCustomChars, "text")]
RowOk(row) == LET r == CleanRow(row) IN
    r.value = Unset \/ (r.value # Refused /\ r.label \notin {Unset, Refused})

IdentityOk(f, today) ==
    /\ \A name \in DOMAIN f.text : CleanText(f, name) # Refused
    /\ f.birth = NoDate \/ BirthDateOk(f.birth, today)
    /\ f.website = NoUrl \/ (f.website.len <= MaxWebsiteLen /\ NormalizeOk(f.website))
    /\ CleanNotes(f.notes, FALSE) # Refused
    /\ Len(f.custom) <= MaxCustomFields /\ \A i \in DOMAIN f.custom : RowOk(f.custom[i])

IdentityClean(f) ==
    [text |-> [name \in DOMAIN f.text |-> CleanText(f, name)],
     birth |-> f.birth,
     website |-> IF f.website = NoUrl THEN NoUrl ELSE NormalizeUrl(f.website),
     notes |-> CleanNotes(f.notes, FALSE),
     custom |-> SelectSeq([i \in DOMAIN f.custom |-> CleanRow(f.custom[i])], LAMBDA r : r.value # Unset)]

\* The lines of an address, each the names of its parts; Brazil has its own
\* order.  An address among a login's own fields has the third.
AddressLayout(style) ==
    CASE style = "brazil" -> <<<<"street", "number", "complement">>, <<"neighborhood">>, <<"city", "state">>,
                               <<"postal_code">>, <<"country">>>>
      [] style = "abroad" -> <<<<"street", "number", "complement">>, <<"neighborhood">>,
                               <<"city", "state", "postal_code">>, <<"country">>>>
      [] style = "field" -> <<<<"street", "number">>, <<"complement">>, <<"neighborhood">>, <<"city", "state">>,
                              <<"postal_code">>, <<"country">>>>

AddressLines(present, style) ==
    LET layout == AddressLayout(style)
        lines == [i \in DOMAIN layout |-> SelectSeq(layout[i], LAMBDA part : part \in present)]
    IN  SelectSeq(lines, LAMBDA line : line # <<>>)

-----------------------------------------------------------------------------
(* Cards (card.rs, card_page.rs): [title, holder, number, code, notes,      *)
(* brand, expiry]; brand "auto" is left to the number.                      *)

IinRow(brand, lo, hi) == [brand |-> brand, lo |-> lo, hi |-> hi]
EloRanges == <<
    <<401178, 401179>>, <<431274, 431274>>, <<438935, 438935>>, <<451416, 451416>>, <<457393, 457393>>,
    <<457631, 457632>>, <<504175, 504175>>, <<506699, 506778>>, <<509000, 509999>>, <<627780, 627780>>,
    <<636297, 636297>>, <<636368, 636368>>, <<650031, 650033>>, <<650035, 650051>>, <<650057, 650081>>,
    <<650405, 650439>>, <<650485, 650538>>, <<650541, 650598>>, <<650700, 650718>>, <<650720, 650727>>,
    <<650901, 650978>>, <<651652, 651704>>, <<655000, 655019>>, <<655021, 655058>>>>
HipercardRanges == <<606282, 384100, 384140, 384160, 637095, 637568, 637599, 637609, 637612>>
OtherRanges == <<
    IinRow("visa", 4, 4), IinRow("mastercard", 51, 55), IinRow("mastercard", 2221, 2720),
    IinRow("amex", 34, 34), IinRow("amex", 37, 37), IinRow("diners", 300, 305), IinRow("diners", 3095, 3095),
    IinRow("diners", 36, 36), IinRow("diners", 38, 39), IinRow("discover", 6011, 6011),
    IinRow("discover", 644, 649), IinRow("discover", 65, 65), IinRow("jcb", 3528, 3589),
    IinRow("unionpay", 62, 62), IinRow("unionpay", 8100, 8171), IinRow("maestro", 50, 50),
    IinRow("maestro", 56, 58), IinRow("maestro", 6304, 6304), IinRow("maestro", 67, 67)>>

IinRanges == [i \in DOMAIN EloRanges |-> IinRow("elo", EloRanges[i][1], EloRanges[i][2])]
             \o [i \in DOMAIN HipercardRanges |-> IinRow("hipercard", HipercardRanges[i], HipercardRanges[i])]
             \o OtherRanges

\* How many digits a bound has, and the number the first n digits make.
Width(limit) == CHOOSE n \in 1..6 : limit \in 10^(n - 1)..(10^n - 1)
DigitValue(c) == (CHOOSE k \in DOMAIN Decimal : Decimal[k] = c) - 1
Prefix(digits, n) == LET upTo[k \in 0..n] == IF k = 0 THEN 0 ELSE 10 * upTo[k - 1] + DigitValue(digits[k]) IN upTo[n]

InRange(digits, row) ==
    LET n == Width(row.lo) IN Len(digits) >= n /\ Prefix(digits, n) \in row.lo..row.hi

AllDigits(t) == t # Unset /\ \A i \in DOMAIN t : t[i] \in DigitChars

DetectBrand(digits) ==
    LET hits == {i \in DOMAIN IinRanges : InRange(digits, IinRanges[i])}
    IN  IF ~AllDigits(digits) \/ hits = {} THEN "none" ELSE IinRanges[Min(hits)].brand

\* The check digit: every second digit from the right counts double.
CheckDigitOk(digits) ==
    LET counts(i) == LET d == DigitValue(digits[i])
                     IN  IF (Len(digits) - i) % 2 = 0 THEN d ELSE IF 2 * d > 9 THEN 2 * d - 9 ELSE 2 * d
        upTo[k \in 0..Len(digits)] == IF k = 0 THEN 0 ELSE upTo[k - 1] + counts(k)
    IN  AllDigits(digits) /\ upTo[Len(digits)] % 10 = 0

\* Spaces and dashes are taken out of a number; a line break is not.
CleanCardNumber(t) ==
    LET digits == SelectSeq(t, LAMBDA c : c \notin {" ", "-"})
    IN  CASE Trim(t) = Unset -> Unset
          [] AllDigits(digits) /\ Len(digits) \in MinNumberDigits..MaxNumberDigits -> digits
          [] OTHER -> Refused

CleanCode(t) ==
    LET v == Trim(t)
    IN  IF v # Unset /\ (~AllDigits(v) \/ Len(v) \notin MinCodeDigits..MaxCodeDigits) THEN Refused ELSE v

ExpiryOk(e) == e = NoDate \/ (e.y \in 1970..2099 /\ e.m \in 1..12)

EffectiveBrand(brand, number) == CASE brand # "auto" -> brand
                                   [] DetectBrand(number) # "none" -> DetectBrand(number)
                                   [] OTHER -> "other"

\* A card without a title is named by its brand, if it has a number.
CardTitle(f, number) ==
    CASE Trim(f.title) # Unset -> CleanValue(f.title, MaxTitleChars, "line")
      [] number = Unset -> Refused
      [] OTHER -> <<EffectiveBrand(f.brand, number)>>

CardClean(f) ==
    [f EXCEPT !.holder = CleanValue(@, MaxNameChars, "line"), !.number = CleanCardNumber(@),
              !.code = CleanCode(@), !.notes = CleanNotes(@, TRUE), !.title = CardTitle(f, CleanCardNumber(f.number))]
CardOk(f) ==
    LET c == CardClean(f) IN Refused \notin {c.title, c.holder, c.number, c.code, c.notes} /\ ExpiryOk(f.expiry)

Last4(number) == IF Len(number) >= MinDigitsForLast4 THEN SubSeq(number, Len(number) - 3, Len(number)) ELSE Unset

\* A card from a page's form or an app's is stored with its check digit right.
NewCardOk(f) == /\ CleanCardNumber(f.number) # Refused /\ CheckDigitOk(CleanCardNumber(f.number))
                /\ f.brand = "auto" /\ f.notes = Unset
                /\ CardOk(f)

-----------------------------------------------------------------------------
(* Bank accounts (bank.rs): a number and its check digit, also typed as one. *)

Upper(c) == IF c = "x" THEN "X" ELSE c
Compact(t) == LET kept == SelectSeq(t, LAMBDA c : c \notin SpaceChars \cup {"."}) IN [i \in DOMAIN kept |-> Upper(kept[i])]

CleanDigit(t, max) ==
    LET d == Compact(t)
    IN  IF Len(d) > max \/ \E i \in DOMAIN d : d[i] \notin DigitChars \cup {"X"} THEN Refused ELSE d

\* The number before the last dash, and the check digit after it.
CleanBankNumber(t, max, digitMax) ==
    LET c == Compact(t)
        dashes == {i \in DOMAIN c : c[i] = "-"}
        at == IF dashes = {} THEN Len(c) + 1 ELSE Max(dashes)
        number == SubSeq(c, 1, at - 1)
        digit == CleanDigit(SubSeq(c, at + 1, Len(c)), digitMax)
    IN  IF c = Unset THEN <<Unset, Unset>>
        ELSE IF AllDigits(number) /\ Len(number) <= max /\ digit # Refused THEN <<number, digit>>
        ELSE <<Refused, Refused>>

\* A digit may be typed once: with the number, or in its own field.
CleanPair(number, digit, max, digitMax) ==
    LET split == CleanBankNumber(number, max, digitMax)
        own == CleanDigit(digit, digitMax)
    IN  IF Refused \in {split[1], own} \/ (split[2] # Unset /\ own # Unset) THEN <<Refused, Refused>>
        ELSE <<split[1], IF split[2] # Unset THEN split[2] ELSE own>>

\* An account without a title is named by its bank.
BankTitle(f) ==
    CASE Trim(f.title) # Unset -> CleanValue(f.title, MaxTitleChars, "line")
      [] Trim(f.bank) # Unset -> CleanValue(f.bank, MaxBankChars, "line")
      [] Compact(f.account) = Unset -> Refused
      [] OTHER -> <<"Bank account">>

BankClean(f) ==
    LET branch == CleanPair(f.branch, f.branchDigit, MaxBranchDigits, 1)
        account == CleanPair(f.account, f.accountDigit, MaxAccountDigits, MaxDigitChars)
    IN  [title |-> BankTitle(f), bank |-> CleanValue(f.bank, MaxBankChars, "line"), holder |-> CleanValue(f.holder, MaxNameChars, "line"),
         branch |-> branch[1], branchDigit |-> branch[2],
         account |-> account[1], accountDigit |-> account[2]]
BankOk(f) == \A k \in DOMAIN f : BankClean(f)[k] # Refused

\* The end of the account that the list shows.
AccountLast3(f) ==
    LET keep == IF Len(f.accountDigit) > 3 THEN 0 ELSE 3 - Len(f.accountDigit)
    IN  IF Len(f.account) < 4 THEN Unset
        ELSE SubSeq(f.account, Len(f.account) - keep + 1, Len(f.account))
             \o (IF f.accountDigit = Unset THEN Unset ELSE <<"-">> \o f.accountDigit)

-----------------------------------------------------------------------------
(* One-time passwords (totp.rs).  What is typed is a bare secret or a URI,  *)
(* [uri, len, type, secret, algorithm, digits, period, issuer, label]; a    *)
(* secret is [base32, bytes].                                               *)

LabelCut(t) == SubSeq(t, 1, Min({Len(t), MaxLabelLen}))

SecretOk(s) == s.base32 /\ s.bytes \in MinSecretBytes..MaxSecretBytes

ValidSetup(s) == s.digits \in {6, 8} /\ s.period \in 1..MaxPeriod /\ SecretOk(s.secret)

\* The label is "issuer:account" or "account"; the issuer may be given twice.
LabelParts(label) ==
    LET colons == {i \in DOMAIN label : label[i] = ":"}
    IN  IF colons = {} THEN <<Unset, LabelCut(Trim(label))>>
        ELSE <<LabelCut(Trim(SubSeq(label, 1, Min(colons) - 1))),
               LabelCut(Trim(SubSeq(label, Min(colons) + 1, Len(label))))>>

ParseTotp(in) ==
    IF ~in.uri
    THEN [secret |-> in.secret, algorithm |-> "SHA1", digits |-> 6, period |-> 30, issuer |-> Unset, account |-> Unset]
    ELSE [secret |-> in.secret, algorithm |-> in.algorithm, digits |-> in.digits, period |-> in.period,
          issuer |-> IF in.issuer # NotGiven THEN LabelCut(in.issuer) ELSE LabelParts(in.label)[1],
          account |-> LabelParts(in.label)[2]]

ParseTotpOk(in) ==
    /\ in.len <= MaxUriLen
    /\ IF in.uri THEN in.type = "totp" /\ in.algorithm \in {"SHA1", "SHA256", "SHA512"} /\ ValidSetup(ParseTotp(in))
       ELSE SecretOk(in.secret)

\* Everything but letters and digits is encoded, MaxEncoded bytes a character.
EncodedLen(t) ==
    LET upTo[k \in 0..Len(t)] == IF k = 0 THEN 0
                                 ELSE upTo[k - 1] + (IF t[k] \in DigitChars \cup {"x", "X"} THEN 1 ELSE MaxEncoded)
    IN  upTo[Len(t)]

\* The URI of a setup: its fixed part, the secret in Base32, the label and the
\* issuer once more.
UriFixed == 68

ToOtpauthUri(s) ==
    LET label == IF s.issuer # Unset /\ s.account # Unset THEN s.issuer \o <<":">> \o s.account ELSE s.issuer \o s.account
    IN  [uri |-> TRUE, type |-> "totp", secret |-> s.secret, algorithm |-> s.algorithm, digits |-> s.digits,
         period |-> s.period, issuer |-> IF s.issuer = Unset THEN NotGiven ELSE s.issuer, label |-> label,
         len |-> UriFixed + (8 * s.secret.bytes + 4) \div 5 + EncodedLen(label) + EncodedLen(s.issuer)]

\* The code of a moment is that of its period, and lasts to its end.
CodeAt(s, t) == [counter |-> t \div s.period, left |-> s.period - (t % s.period)]

-----------------------------------------------------------------------------
(* Saving, editing and restoring.                                           *)

FormOk(kind, f, today) ==
    CASE kind = "identity" -> IdentityOk(f, today) [] kind = "card" -> CardOk(f) [] kind = "bank" -> BankOk(f)
      [] kind = "urls" -> CleanUrlsOk(f) [] kind = "otp" -> ParseTotpOk(f)

FormClean(kind, f) ==
    CASE kind = "identity" -> IdentityClean(f) [] kind = "card" -> CardClean(f) [] kind = "bank" -> BankClean(f)
      [] kind = "urls" -> CleanUrls(f) [] kind = "otp" -> ParseTotp(f)

\* What goes back in of what is stored: itself, or a setup as its URI.
Typed(kind, v) == IF kind = "otp" THEN ToOtpauthUri(v) ELSE v

Forms(kind) ==
    CASE kind = "identity" -> Identities [] kind = "card" -> Cards [] kind = "bank" -> Banks
      [] kind = "urls" -> Websites [] kind = "otp" -> Setups

ValueKinds == {"identity", "card", "bank", "urls", "otp"}

ValuesInit == saved = [kind |-> "none"] /\ dayNow = FirstDay

\* A new item: what was typed, cleaned, or nothing at all.
Save ==
    /\ saved.kind = "none"
    /\ \E kind \in ValueKinds : \E f \in Forms(kind) :
        /\ FormOk(kind, f, dayNow)
        /\ saved' = [kind |-> kind, v |-> FormClean(kind, f), day |-> dayNow]
    /\ UNCHANGED dayNow

\* A card a page or an app hands over.
SaveFromPage ==
    /\ saved.kind = "none"
    /\ \E f \in Cards :
        /\ NewCardOk(f)
        /\ saved' = [kind |-> "card", v |-> CardClean(f), day |-> dayNow]
    /\ UNCHANGED dayNow

\* Of a bank account's number and digit an editor sends keep, set or clear.
Updated(u, now) == CASE u.op = "keep" -> now [] u.op = "clear" -> Unset [] OTHER -> u.to

EditBank ==
    /\ saved.kind = "bank"
    /\ \E a, d \in Updates :
         LET f == [saved.v EXCEPT !.account = Updated(a, @), !.accountDigit = Updated(d, @)]
         IN  BankOk(f) /\ saved' = [saved EXCEPT !.v = BankClean(f), !.day = dayNow]
    /\ UNCHANGED dayNow

EditCard ==
    /\ saved.kind = "card"
    /\ \E n, c \in Updates :
         LET f == [saved.v EXCEPT !.number = Updated(n, @), !.code = Updated(c, @)]
         IN  CardOk(f) /\ saved' = [saved EXCEPT !.v = CardClean(f), !.day = dayNow]
    /\ UNCHANGED dayNow

\* A restore of a backup types in what was stored, as on the day it was.
RestoreValue ==
    /\ saved.kind # "none"
    /\ FormOk(saved.kind, Typed(saved.kind, saved.v), saved.day)
    /\ saved' = [saved EXCEPT !.v = FormClean(saved.kind, Typed(saved.kind, saved.v))]
    /\ UNCHANGED dayNow

DayPasses == dayNow < LastDay /\ dayNow' = dayNow + 1 /\ UNCHANGED saved

ValuesNext == Save \/ SaveFromPage \/ EditBank \/ EditCard \/ RestoreValue \/ DayPasses

ValuesSpec == ValuesInit /\ [][ValuesNext]_valueVars

-----------------------------------------------------------------------------
(* Properties.                                                              *)

\* What is stored passes unchanged when an editor sends it back or a restore
\* types it in, then as now: an identity, a card, a bank account or a website that could
\* not be saved again could not be edited at all, nor brought back from a
\* backup.  Of a setup, the codes stay and so does the issuer, unless its URI
\* has become too long (clean of identity.rs, card.rs and bank.rs, normalize_url,
\* parse_totp_input of to_otpauth_uri).
StoredPassesAgain ==
    CASE saved.kind = "none" -> TRUE
      [] saved.kind = "otp" ->
           LET uri == ToOtpauthUri(saved.v) IN
           uri.len <= MaxUriLen =>
             /\ ParseTotpOk(uri)
             /\ \A k \in {"secret", "algorithm", "digits", "period"} : ParseTotp(uri)[k] = saved.v[k]
             /\ saved.v.issuer # Unset => ParseTotp(uri).issuer = saved.v.issuer
      [] OTHER -> /\ \A day \in {saved.day, dayNow} : FormOk(saved.kind, saved.v, day)
                  /\ FormClean(saved.kind, saved.v) = saved.v

\* What the list shows of a card or an account is the end of what is stored
\* and not the whole of it (summary of card.rs and bank.rs).
ListShowsTheEnd ==
    /\ saved.kind = "card" =>
         LET n == saved.v.number IN
         Last4(n) # Unset => Len(Last4(n)) < Len(n) /\ Last4(n) = SubSeq(n, Len(n) - 3, Len(n))
    /\ saved.kind = "bank" =>
         LET f == saved.v IN
         AccountLast3(f) # Unset =>
             \E k \in 1..Len(f.account) :
                 SubSeq(f.account, k + 1, Len(f.account)) \o (IF f.accountDigit = Unset THEN <<>> ELSE <<"-">> \o f.accountDigit)
                     = AccountLast3(f)

\* A code lasts to the second its successor starts (generate of totp.rs).
CodesFollowOn ==
    saved.kind = "otp" =>
        \A t \in Moments :
            LET c == CodeAt(saved.v, t) IN
            /\ c.left \in 1..saved.v.period
            /\ CodeAt(saved.v, t + c.left - 1).counter = c.counter
            /\ CodeAt(saved.v, t + c.left).counter = c.counter + 1

\* The table of brands and the check digit on the numbers looked at: the
\* first range that matches is the narrowest one, as the comment on
\* IIN_RANGES wants it, and one wrong digit, or two neighbours swapped
\* other than 0 and 9, never passes the check (detect_brand, check_digit_ok).
NumbersAreChecked ==
    \A n \in Numbers :
        /\ \A i \in DOMAIN IinRanges : InRange(n, IinRanges[i]) =>
             \E j \in DOMAIN IinRanges : /\ IinRanges[j].brand = DetectBrand(n) /\ InRange(n, IinRanges[j])
                                         /\ Width(IinRanges[j].lo) >= Width(IinRanges[i].lo)
        /\ CheckDigitOk(n) =>
             /\ \A i \in DOMAIN n : \A d \in DigitChars \ {n[i]} : ~CheckDigitOk([n EXCEPT ![i] = d])
             /\ \A i \in 1..(Len(n) - 1) :
                  n[i] # n[i + 1] /\ {n[i], n[i + 1]} # {"0", "9"} =>
                      ~CheckDigitOk([n EXCEPT ![i] = n[i + 1], ![i + 1] = n[i]])

\* Counting days by the formula and one by one agree (days_from_civil).
NextDate(t) == IF t.d < DaysInMonth(t.y, t.m) THEN [y |-> t.y, m |-> t.m, d |-> t.d + 1]
               ELSE IF t.m < 12 THEN [y |-> t.y, m |-> t.m + 1, d |-> 1]
               ELSE [y |-> t.y + 1, m |-> 1, d |-> 1]
DaysCount == /\ DaysFromCivil([y |-> 1970, m |-> 1, d |-> 1]) = 0
             /\ \A t \in Dates : DaysFromCivil(NextDate(t)) = DaysFromCivil(t) + 1

\* No layout of an address leaves a part out or has one twice.
AddressesAreWhole ==
    \A present \in SUBSET AddressNames, style \in {"brazil", "abroad", "field"} :
        LET parts == FlattenSeq(AddressLines(present, style))
        IN  ToSet(parts) = present /\ Len(parts) = Cardinality(present)

\* The facts about tables and formulas do not depend on what is stored: they
\* are looked at once, in the first state.
ValuesHold ==
    /\ StoredPassesAgain /\ ListShowsTheEnd /\ CodesFollowOn
    /\ saved.kind = "none" /\ dayNow = FirstDay => NumbersAreChecked /\ DaysCount /\ AddressesAreWhole

ValuesTypeOK == saved.kind \in ValueKinds \cup {"none"} /\ dayNow \in FirstDay..LastDay
=============================================================================
