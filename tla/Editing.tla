------------------------------ MODULE Editing ------------------------------
(***************************************************************************)
(* One item of the vault and the editors that change it: the phone's and   *)
(* the desktop's, the browser's password changes and another device, whose *)
(* changes arrive by a pull.  An editor shows some values and sends them   *)
(* back whole; of the secrets it sends only what to do with each (keep,    *)
(* set or clear).  The core merges that into the item it holds when the    *)
(* edit is staged and the server accepts the result if the item is still   *)
(* at the revision it was staged from.                                     *)
(***************************************************************************)
EXTENDS Naturals, Sequences, FiniteSets

CONSTANTS ItemTypes,        \* types of item the instance looks at
          Editors,          \* of "mobile", "desktop": the apps looked at
          Words,            \* values an owner types
          FieldIds,         \* identifiers of custom fields
          MaxHistory, MaxEdits, NoEdit

ASSUME EditingAssumption ==
    /\ ItemTypes \subseteq {"login", "note", "identity", "card", "bank"}
    /\ Editors \subseteq {"mobile", "desktop"}
    /\ MaxHistory \in Nat \ {0} /\ MaxEdits \in Nat

Blank == ""
TypedTexts == Words \cup {Blank, "bad"}      \* "bad": too long, or not of its format
Passwords == TypedTexts \cup {"old"}

Plain(t) == {"title", "tags"} \cup
    CASE t = "login" -> {"username", "urls", "sso"} [] t = "note" -> {} [] t = "identity" -> {"name", "custom"}
      [] t = "card" -> {"holder", "expiry", "notes"} [] t = "bank" -> {"urls", "bank", "branch"}
Secret(t) ==
    CASE t = "login" -> {"password", "totp", "notes"} [] t = "note" -> {"content"} [] t = "identity" -> {"cpf"}
      [] t = "card" -> {"number", "code"} [] t = "bank" -> {"account", "password", "notes"}
KeysOf(t) == Plain(t) \cup Secret(t)

\* The values an editor sends back as it shows them.  The phone asks for the
\* changes of every field but the title, the websites and the tags.
FormKeys(e, t) == IF e = "desktop" THEN IF t = "identity" THEN KeysOf(t) ELSE Plain(t)
                  ELSE IF t = "bank" THEN Plain(t) ELSE {"title", "tags", "urls"} \cap KeysOf(t)

HasSections(t) == t \in {"login", "note", "bank"}

\* What an edit does with a value.
Change == [op : {"keep", "clear"}] \cup [op : {"set"}, to : TypedTexts]
KeepIt == [op |-> "keep"]

Applied(c, v) == CASE c.op = "keep" -> v [] c.op = "clear" -> Blank [] OTHER -> c.to

\* The phone's form clears a setup key with a change of its own: leaving
\* the field blank keeps it.
Asked(e, k, c) == IF e = "mobile" /\ k = "totp" /\ c.op = "set" /\ c.to = Blank THEN KeepIt ELSE c

-----------------------------------------------------------------------------
\* The brand of a card number, and the name an item goes by.
Brand(number) == "brand " \o number

TitleFor(t, val) ==
    CASE t = "identity" -> val["name"]
      [] t = "card" /\ val["title"] = Blank -> Brand(val["number"])
      [] t = "bank" /\ val["title"] = Blank -> IF val["bank"] = Blank THEN "Bank account" ELSE val["bank"]
      [] OTHER -> val["title"]

\* An item without a title needs something to be named by.
Nameable(t, val) ==
    CASE t \in {"login", "note"} -> val["title"] # Blank
      [] t = "card" -> val["title"] # Blank \/ val["number"] # Blank
      [] t = "bank" -> \E k \in {"title", "bank", "account"} : val[k] # Blank
      [] t = "identity" -> TRUE

WellFormed(val) == \A k \in DOMAIN val : val[k] # "bad"

\* The passwords a history has room for.
Newest(h) == SubSeq(h, 1, IF Len(h) < MaxHistory THEN Len(h) ELSE MaxHistory)

\* Mutant of HistoryAfter: only a password that another replaces is kept.
HistoryOfSet(it, new) ==
    IF it.type # "login" \/ it.val["password"] \in {Blank, new} \/ new = Blank THEN it.history
    ELSE Newest(<<it.val["password"]>> \o it.history)

\* Mutant of HistoryAfter: the history grows with every edit.
HistoryUntrimmed(it, new) ==
    IF it.type # "login" \/ it.val["password"] \in {Blank, new} THEN it.history
    ELSE <<it.val["password"]>> \o it.history

\* A login keeps the passwords an edit replaced, newest first.
HistoryAfter(it, new) ==
    IF it.type # "login" \/ it.val["password"] \in {Blank, new} THEN it.history
    ELSE Newest(<<it.val["password"]>> \o it.history)

\* build_item: the item with the values val and the custom fields sections;
\* passkeys, app bindings, attachments and unknown values stay.
BuildItem(it, val, sections) ==
    [it EXCEPT !.val = [val EXCEPT !["title"] = TitleFor(it.type, val)],
               !.sections = sections,
               !.history = IF it.type = "login" THEN HistoryAfter(it, val["password"]) ELSE @]

\* The edited custom fields: those the form knew, each kept, set or cleared,
\* and at most one new.  A field the item no longer has stops the edit.
KnownLayout(fields, sections) == IF fields = NoEdit THEN TRUE ELSE DOMAIN fields \subseteq DOMAIN sections
ApplySections(fields, fresh, sections) ==
    IF fields = NoEdit THEN sections
    ELSE [f \in DOMAIN fields \cup fresh |-> IF f \in DOMAIN fields THEN Applied(fields[f], sections[f]) ELSE "new"]

-----------------------------------------------------------------------------
VARIABLES editor,           \* the app this device runs
          local, remote,    \* the item here and at the server
          form,             \* what the editor was opened with
          staged,           \* the write on its way
          held              \* every password the item has had, newest first

editVars == <<editor, local, remote, form, staged, held>>

NewItem(t) == [type |-> t, rev |-> 1, kept |-> 0, history |-> <<>>, sections |-> [f \in {} |-> Blank],
               val |-> [k \in KeysOf(t) |-> CASE k = "title" -> IF t = "card" THEN Brand("a") ELSE "a"
                                              [] k \in {"number", "name"} -> "a"
                                              [] k = "password" /\ t = "login" -> "old" [] OTHER -> Blank]]

EditInit ==
    /\ \E t \in ItemTypes : local = NewItem(t)
    /\ remote = local
    /\ editor \in Editors /\ form = NoEdit /\ staged = NoEdit
    /\ held = <<>>

\* A card named by its brand shows no title on the phone, so that the name
\* follows the number.
Shown(e, it) == IF e = "mobile" /\ it.type = "card" /\ it.val["number"] # Blank /\ it.val["title"] = Brand(it.val["number"])
                THEN [it.val EXCEPT !["title"] = Blank] ELSE it.val

OpenEditor ==
    /\ form = NoEdit
    /\ form' = [rev |-> local.rev, val |-> Shown(editor, local), fields |-> DOMAIN local.sections]
    /\ UNCHANGED <<local, remote, staged, held>>

CloseEditor ==
    /\ form # NoEdit /\ staged = NoEdit
    /\ form' = NoEdit /\ UNCHANGED <<local, remote, staged, held>>

\* The values an edit asks for: one of them is the owner's.
Asks(k, c) ==
    [j \in KeysOf(local.type) |->
        IF j \in FormKeys(editor, local.type)
        THEN IF j = k THEN Applied(c, form.val[j]) ELSE form.val[j]
        ELSE IF j = k THEN Applied(Asked(editor, j, c), local.val[j]) ELSE local.val[j]]

\* Mutant of Unchanged: the phone does not look at the revision.
AnyRevision == TRUE

\* The phone refuses an edit of an item that changed since the form opened.
Unchanged == editor = "mobile" => form.rev = local.rev

Stage(k, c, fields, fresh) ==
    /\ form # NoEdit /\ staged = NoEdit
    /\ Unchanged
    /\ KnownLayout(fields, local.sections)
    /\ LET val == Asks(k, c) IN
       /\ WellFormed(val) /\ Nameable(local.type, val)
       /\ staged' =
              [item |-> BuildItem(local, val, ApplySections(fields, fresh, local.sections)),
               base |-> local.rev, touched |-> {k},
               fields |-> IF fields = NoEdit THEN {} ELSE {f \in form.fields : f \notin DOMAIN fields \/ fields[f] # KeepIt}]
    /\ UNCHANGED <<local, remote, form, held>>

EditValue == \E k \in KeysOf(local.type), c \in Change : Stage(k, c, NoEdit, {})

\* The desktop sends every custom field it showed, one of them changed,
\* removed or new.
EditFields ==
    /\ editor = "desktop" /\ HasSections(local.type) /\ form # NoEdit
    /\ \/ \E f \in form.fields, c \in Change :
              Stage("tags", KeepIt, [g \in form.fields |-> IF g = f THEN c ELSE KeepIt], {})
       \/ \E f \in form.fields : Stage("tags", KeepIt, [g \in form.fields \ {f} |-> KeepIt], {})
       \/ \E f \in FieldIds \ (form.fields \cup DOMAIN local.sections) :
              Stage("tags", KeepIt, [g \in form.fields |-> KeepIt], {f})

\* The item's next version, wherever it was made.
Becomes(new) ==
    /\ remote.rev <= MaxEdits
    /\ remote' = [new EXCEPT !.rev = remote.rev + 1]
    /\ held' = IF remote.type = "login" /\ remote.val["password"] # Blank /\ new.val["password"] # remote.val["password"]
               THEN <<remote.val["password"]>> \o held ELSE held

\* The server takes a write staged from its revision; else the write fails
\* and the form stays open.
SendEdit ==
    /\ staged # NoEdit
    /\ staged' = NoEdit
    /\ IF staged.base = remote.rev
       THEN /\ Becomes(staged.item) /\ local' = remote'
            /\ form' = NoEdit
       ELSE UNCHANGED <<local, remote, form, held>>

\* A password change the browser asked for: a login's password, no more.
BrowserEdit(v) ==
    /\ local.type = "login" /\ local.rev = remote.rev
    /\ Becomes(BuildItem(local, [local.val EXCEPT !["password"] = v], local.sections))
    /\ local' = remote' /\ UNCHANGED <<form, staged>>

\* Another device saves an edit, a custom field or a passkey.
OtherDevice ==
    /\ \/ \E k \in KeysOf(remote.type), v \in Words :
              Becomes(BuildItem(remote, [remote.val EXCEPT ![k] = v], remote.sections))
       \/ HasSections(remote.type) /\ \E f \in FieldIds \ DOMAIN remote.sections :
              Becomes(BuildItem(remote, remote.val, ApplySections([g \in DOMAIN remote.sections |-> KeepIt], {f}, remote.sections)))
       \/ remote.type = "login" /\ Becomes([remote EXCEPT !.kept = remote.kept + 1])
    /\ UNCHANGED <<local, form, staged>>

PullEdit == local # remote /\ local' = remote /\ UNCHANGED <<remote, form, staged, held>>

EditNext ==
    /\ UNCHANGED editor
    /\ \/ OpenEditor \/ CloseEditor \/ EditValue \/ EditFields \/ SendEdit
       \/ \E v \in Words : BrowserEdit(v)
       \/ OtherDevice \/ PullEdit

EditSpec == EditInit /\ [][EditNext]_editVars

-----------------------------------------------------------------------------
\* An item has the parts of its type.
IsItem(it) ==
    /\ DOMAIN it = {"type", "rev", "kept", "history", "sections", "val"}
    /\ it.type \in ItemTypes /\ it.rev \in Nat /\ it.kept \in Nat
    /\ it.history \in Seq(Passwords) /\ Len(it.history) <= MaxHistory
    /\ DOMAIN it.sections \subseteq FieldIds
    /\ DOMAIN it.val = KeysOf(it.type)
    /\ it.type = "login" => it.val["password"] \in Passwords

\* Items have their types, no history is longer than it may be and no copy
\* is ahead of the server's.
EditTypeOK ==
    /\ IsItem(local) /\ IsItem(remote) /\ remote.type = local.type
    /\ local.rev <= remote.rev /\ remote.rev <= MaxEdits + 1
    /\ held \in Seq(Passwords) /\ editor \in Editors

\* A login keeps the last passwords it had, newest first, whoever replaced
\* them and in whatever order the devices met (vault.rs, build_item).
PasswordsAreKept == remote.history = Newest(held)

\* What the owner did not touch, a save leaves as the server has it: the
\* other values, the custom fields, the passkeys and bindings.
OnlyTheOwners ==
    staged # NoEdit /\ staged' = NoEdit /\ remote' # remote =>
        /\ \A k \in KeysOf(remote.type) \ (staged.touched \cup {"title"}) : remote'.val[k] = remote.val[k]
        /\ remote'.val["title"] # remote.val["title"] =>
               staged.touched \cap {"title", "name", "number", "bank"} # {}
        /\ \A f \in DOMAIN remote.sections \ staged.fields :
               f \in DOMAIN remote'.sections /\ remote'.sections[f] = remote.sections[f]
        /\ remote'.kept = remote.kept

\* An edit made on the phone before a pull cannot overwrite what the pull
\* brought in, and changes nothing but what its owner changed.
PhoneEditsKeepOthers == [][editor = "mobile" => OnlyTheOwners]_editVars

\* The same of every editor, as the comment on item_revision has it: "An
\* editor compares it with the revision it was opened at, so an edit made
\* before a pull cannot overwrite what the pull brought in".
EditsKeepOthers == [][OnlyTheOwners]_editVars
=============================================================================
