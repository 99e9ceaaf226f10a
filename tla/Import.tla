------------------------------ MODULE Import ------------------------------
(***************************************************************************)
(* Importing another program's export: each entry of the file is converted *)
(* to an item, the items already in the vault are left out, and the rest   *)
(* is sent in batches.  An entry is the sequence of the values it holds;   *)
(* converting it finds every value a place.                                *)
(***************************************************************************)
EXTENDS Naturals, Sequences, FiniteSets, Functions

CONSTANTS Files,            \* the files an owner may import: sequences of entries
          Vaults,           \* what the vault may hold before: sets of items
          MaxUrls, MaxFields, MaxBatch, MaxImports

\* An item of the vault, as far as imports tell items apart.
IsVaultItem(x) == x = [key |-> x.key, sso |-> x.sso, secret |-> x.secret]

ASSUME ImportAssumption ==
    /\ {MaxUrls, MaxFields, MaxBatch, MaxImports} \subseteq Nat \ {0}
    /\ \A f \in Files : f \in Seq(Range(f)) /\ \A e \in Range(f) : e.vals \in Seq(Range(e.vals))
    /\ \A v \in Vaults : v \in Seq(Range(v)) /\ \A x \in Range(v) : IsVaultItem(x)

CsvSources == {"bitwarden-csv", "chrome", "firefox", "keepassxc", "lastpass"}
ImportSources == CsvSources \cup {"1password", "bitwarden"}

\* A value: what the file has it as, whether it is of its format (and, if it
\* is a line, as short as the vault's), and a name to tell it from others.
Value(as, good, v) == [as |-> as, good |-> good, v |-> v]

\* The columns that a source's rows have.
CsvColumns(src) ==
    CASE src = "chrome" -> {"title", "username", "password", "url", "notes"}
      [] src = "firefox" -> {"username", "password", "url"}
      [] src = "keepassxc" -> {"title", "username", "password", "url", "totp", "notes"}
      [] src = "lastpass" -> {"title", "username", "password", "url", "totp", "notes", "folder"}
      [] src = "bitwarden-csv" -> {"title", "username", "password", "url", "totp", "notes", "more", "folder"}

Reads(src, as) == src \in CsvSources => as \in CsvColumns(src)

-----------------------------------------------------------------------------
\* The values of an entry in the order of the file.  A KeePassXC row with
\* nothing but notes is a note.
Has(e, as) == \E i \in DOMAIN e.vals : e.vals[i].as = as

KindOf(e) ==
    CASE e.source = "keepassxc" /\ Has(e, "notes") /\ ~\E as \in {"username", "password", "url", "totp"} : Has(e, as) -> "note"
      [] e.kind = "bank" /\ e.source # "1password" -> "login"
      [] OTHER -> e.kind

\* The slots an item of a kind has of its own; each takes one value.
LoginSlots == {"username", "password", "totp", "sso"}
CardSlots == {"holder", "number", "code", "brand", "expiry"}
BankSlots == {"bank", "holder", "accountType", "branch", "account"}
Slots(kind) == CASE kind = "login" -> LoginSlots [] kind = "card" -> CardSlots [] kind = "bank" -> BankSlots [] OTHER -> {}

\* The slots that take a value which is not of their format and change it: a
\* username and a cardholder are cut (clean_line), an account type that is
\* not known becomes Other.
ChangedSlots(kind) == CASE kind = "login" -> {"username"} [] kind = "card" -> {"holder"} [] kind = "bank" -> {"accountType"} [] OTHER -> {}

\* The parts of an entry that are read of a login only.
LoginParts(src) ==
    CASE src = "1password" -> {"username", "password", "form-text", "form-secret"}
      [] src = "bitwarden" -> {"username", "password", "totp", "url", "passkey"}
      [] OTHER -> {"username", "password", "totp", "url"}

NotRead(e, v) ==
    \/ KindOf(e) # "login" /\ v.as \in LoginParts(e.source)
    \/ KindOf(e) = "note" /\ v.as = "url"

\* A form field of a 1Password login: the designated ones come first, then
\* the first of its type, then a custom field.
FormSlot(e, v) ==
    CASE v.as = "form-text" /\ ~Has(e, "username") -> "username"
      [] v.as = "form-secret" /\ ~Has(e, "password") -> "password"
      [] v.as \in {"form-text", "form-secret"} -> "custom"
      [] OTHER -> v.as

\* Custom fields: a login, a note and what becomes a note take them; a card
\* and a bank account keep theirs in the notes.
TakesFields(kind) == kind \notin {"card", "bank"}

Empty == [slots |-> {}, urls |-> 0, fields |-> 0, places |-> <<>>]

Put(acc, place) == [acc EXCEPT !.places = Append(@, place)]

CustomField(e, acc) ==
    IF TakesFields(KindOf(e)) /\ acc.fields < MaxFields THEN Put([acc EXCEPT !.fields = @ + 1], "field") ELSE Put(acc, "notes")

\* Websites: valid ones become rules, up to the limit, anything else is text
\* in the notes.  What becomes a note keeps them as fields.
PutUrl(e, acc, v) ==
    LET next == [acc EXCEPT !.urls = @ + 1] IN
    IF ~v.good THEN Put(acc, "notes")
    ELSE IF acc.urls = MaxUrls THEN Put(acc, "past the limit")
    ELSE IF KindOf(e) \in {"login", "bank"} THEN Put(next, "own")
    ELSE IF KindOf(e) = "other" THEN CustomField(e, next)
    ELSE Put(next, "notes")

\* A value without a slot, or not of its slot's format.
BitwardenRest(e, acc, v) == IF v.as = "custom" THEN CustomField(e, acc) ELSE Put(acc, "notes")

OnePasswordRest(e, acc, v) ==
    IF v.as \in {"username", "password"} THEN Put(acc, "second designated") ELSE CustomField(e, acc)

\* Mutant of Rest: a value that is not of its slot's format is left out.
LeftOut(e, acc, v) == IF v.as = "custom" THEN CustomField(e, acc) ELSE Put(acc, "dropped")

Rest(e, acc, v) ==
    IF e.source = "1password" THEN OnePasswordRest(e, acc, v)
    ELSE IF e.source = "bitwarden" THEN BitwardenRest(e, acc, v)
    ELSE Put(acc, "notes")

\* A line is kept, or what is over its limit is cut off.
WholeOrCut(v) == IF v.good THEN "own" ELSE "changed"

PutValue(e, acc, v) ==
    LET as == FormSlot(e, v) IN
    IF NotRead(e, v) THEN Put(acc, "not read")
    ELSE IF as = "title" THEN Put(acc, WholeOrCut(v))
    ELSE IF as \in {"notes", "more"} THEN Put(acc, "own")
    ELSE IF as = "folder" THEN Put(acc, IF v.good THEN "own" ELSE "notes")
    ELSE IF as = "url" THEN PutUrl(e, acc, v)
    ELSE IF as \in {"history", "passkey", "file"} THEN Put(acc, "counted")
    ELSE IF as \in {"ui", "linked"} THEN Put(acc, "not a value")
    ELSE IF as \in Slots(KindOf(e)) \ acc.slots /\ (v.good \/ as \in ChangedSlots(KindOf(e)))
    THEN Put([acc EXCEPT !.slots = @ \cup {as}], WholeOrCut(v))
    ELSE Rest(e, acc, v)

\* One value after the other, in the order of the file.
Placed(e) ==
    LET upTo[n \in 0..Len(e.vals)] == IF n = 0 THEN Empty ELSE PutValue(e, upTo[n - 1], e.vals[n])
    IN  upTo[Len(e.vals)].places

-----------------------------------------------------------------------------
\* The item an entry becomes: its kind, and the values that tell whether the
\* vault has it already.
At(e, as, places) ==
    {e.vals[i].v : i \in {j \in DOMAIN e.vals : FormSlot(e, e.vals[j]) = as /\ Placed(e)[j] \in places}}

TitleOf(e) == IF Has(e, "title") THEN At(e, "title", {"own", "changed"})
              ELSE IF e.source \in CsvSources /\ KindOf(e) = "login" /\ At(e, "url", {"own"}) # {} THEN {"host of " \o u : u \in At(e, "url", {"own"})}
              ELSE {"Untitled"}

\* What an item's notes and custom fields say.
Said(e) == {e.vals[j].v : j \in {i \in DOMAIN e.vals : Placed(e)[i] \in {"notes", "field"}}} \cup At(e, "notes", {"own"}) \cup At(e, "more", {"own"})

DedupeKey(e) ==
    CASE KindOf(e) = "login" -> <<"login", TitleOf(e), At(e, "username", {"own", "changed"}), At(e, "url", {"own"})>>
      [] KindOf(e) = "card" -> <<"card", IF At(e, "number", {"own"}) # {} THEN At(e, "number", {"own"}) ELSE TitleOf(e), At(e, "expiry", {"own"})>>
      [] KindOf(e) = "bank" -> <<"bank", At(e, "bank", {"own"}), At(e, "branch", {"own"}),
                                 IF At(e, "account", {"own"}) # {} THEN At(e, "account", {"own"}) ELSE TitleOf(e)>>
      [] OTHER -> <<"note", TitleOf(e), Said(e)>>

ItemOf(e) == [key |-> DedupeKey(e), sso |-> At(e, "sso", {"own"}) # {}, secret |-> At(e, "password", {"own"})]

\* Entries of the trash or the archive are skipped, one that is no object or
\* has values the vault refuses has failed.
Parsed(e) == e.state = "active"

-----------------------------------------------------------------------------
VARIABLES file,         \* the export being imported
          before,       \* the vault before the first attempt
          vault,        \* its items; a sequence, as two may be alike
          queue,        \* staged writes that were not sent yet
          phase,        \* "idle", "sending" or "done"
          imports       \* attempts made

importVars == <<file, before, vault, queue, phase, imports>>

ImportInit ==
    /\ file \in Files /\ before \in Vaults /\ vault = before
    /\ queue = <<>> /\ phase = "idle" /\ imports = 0

\* The logins without a provider that have this key.
PlainLogins(items, key) == {i \in DOMAIN items : items[i].key = key /\ key[1] = "login" /\ ~items[i].sso}

\* The one login an entry with a provider brings up to date: not one of two.
Upgradable(items, key) == IF Cardinality(PlainLogins(items, key)) = 1 THEN PlainLogins(items, key) ELSE {}

\* stage_import: an item the vault has is left out; entries of the file that
\* repeat one another are not.
StageItem(items, acc, it) ==
    LET target == {i \in Upgradable(items, it.key) : \A w \in Range(acc) : w.op = "upgrade" => w.at # i} IN
    IF it.sso /\ target # {} THEN Append(acc, [op |-> "upgrade", at |-> CHOOSE i \in target : TRUE, item |-> it])
    ELSE IF \E i \in DOMAIN items : items[i].key = it.key THEN acc
    ELSE Append(acc, [op |-> "add", at |-> 0, item |-> it])

StageOne(items, acc, e) == StageItem(items, acc, ItemOf(e))

StageImport(items, f) ==
    LET upTo[n \in 0..Len(f)] ==
          IF n = 0 THEN <<>>
          ELSE IF Parsed(f[n]) THEN StageOne(items, upTo[n - 1], f[n]) ELSE upTo[n - 1]
    IN  upTo[Len(f)]

StartImport ==
    /\ phase # "sending" /\ imports < MaxImports
    /\ imports' = imports + 1
    /\ queue' = StageImport(vault, file)
    /\ phase' = "sending" /\ UNCHANGED <<file, before, vault>>

Written(items, w) ==
    IF w.op = "add" THEN Append(items, w.item) ELSE [items EXCEPT ![w.at].sso = TRUE]

\* The first n writes of the queue, one after the other.
AllWritten(items, n) ==
    LET upTo[k \in 0..n] == IF k = 0 THEN items ELSE Written(upTo[k - 1], queue[k])
    IN  upTo[n]

BatchLen == IF Len(queue) < MaxBatch THEN Len(queue) ELSE MaxBatch

\* A batch is accepted and recorded, write by write.
SendBatch ==
    /\ phase = "sending" /\ queue # <<>>
    /\ vault' = AllWritten(vault, BatchLen)
    /\ queue' = SubSeq(queue, BatchLen + 1, Len(queue))
    /\ UNCHANGED <<file, before, phase, imports>>

\* A batch is refused, its answer is lost or the vault is locked: the rest is
\* not sent.  What the server took comes with the next pull.
BatchFails ==
    /\ phase = "sending" /\ queue # <<>>
    /\ vault' \in {vault, AllWritten(vault, BatchLen)}
    /\ queue' = <<>> /\ phase' = "idle" /\ UNCHANGED <<file, before, imports>>

ImportEnds == phase = "sending" /\ queue = <<>> /\ phase' = "done" /\ UNCHANGED <<file, before, vault, queue, imports>>

ImportNext == StartImport \/ SendBatch \/ BatchFails \/ ImportEnds
ImportSpec == ImportInit /\ [][ImportNext]_importVars

-----------------------------------------------------------------------------
\* The vault holds items.
ImportTypeOK ==
    /\ phase \in {"idle", "sending", "done"} /\ imports \in 0..MaxImports
    /\ \A i \in DOMAIN vault : DOMAIN vault[i] = {"key", "sso", "secret"}

\* Whether a value with this place is accounted for.  Not kept whole are a
\* website past the limit, a second designated field, a line over its limit,
\* an account type that is not known, and the login's parts of an entry that
\* is none.
Accounted(e, v, place) ==
    \/ place \in {"own", "notes", "field", "counted", "not a value", "past the limit", "second designated"}
    \/ place = "changed" /\ ~v.good /\ v.as \in {"title", "username", "form-text", "holder", "accountType"}
    \/ /\ place = "not read" /\ KindOf(e) # "login"
       /\ v.as \in {"username", "password", "form-text", "form-secret", "totp", "url", "passkey"}

\* Every value of every entry is kept in the item, in its notes or in its
\* custom fields, or is counted in the report, however full the item is,
\* but for the losses that Accounted lists.
EveryValueIsKept ==
    \A i \in DOMAIN file : \A j \in DOMAIN file[i].vals :
        Accounted(file[i], file[i].vals[j], Placed(file[i])[j])

\* Importing a file again adds no item, whatever became of the attempts
\* before the one that went through.  (It may still give a provider to one
\* of two like logins the file held.)
ImportAgainAddsNothing ==
    phase = "done" => \A w \in Range(StageImport(vault, file)) : w.op # "add"

\* An import loses no value but the listed ones and repeats nothing
\* (import/*.rs, stage_import).
ImportIsWhole == EveryValueIsKept /\ ImportAgainAddsNothing
=============================================================================
