--------------------------- MODULE ContentProofs ---------------------------
(***************************************************************************)
(* Proofs about what is written to a vault and filled from it: Editing,    *)
(* Requests, Backup and PhoneFill, scenes of the vault content model.      *)
(*                                                                         *)
(* Editing: the server's copy of an item changes in one way, by a version  *)
(* that was built from it: an editor builds its version from the copy here *)
(* and the server takes it only at the revision it was built from, when    *)
(* the two copies are the same.  The inductive invariant says so of the    *)
(* copies, of an open form and of the write on its way.                    *)
(*                                                                         *)
(* Requests: what the server did for an operation is told by the request   *)
(* the operation is at and by the answer on its way; the inductive         *)
(* invariant says which requests may be left, and that an answer tells no  *)
(* more than the server did.  That the answers are read is arithmetic on   *)
(* the limits of the two sides.                                            *)
(*                                                                         *)
(* Backup: a write of a restore names a revision at which the row is not   *)
(* live, and every item of the backup is waiting, brought back, skipped or *)
(* not valid; that a damaged file is refused follows from the places its   *)
(* records were sealed with.                                               *)
(*                                                                         *)
(* PhoneFill: what a website said is in every copy of the cache with a     *)
(* time at which, or after which, the website published it; copies that    *)
(* are written back in any order keep that.                                *)
(***************************************************************************)
EXTENDS MCVaultContent, FiniteSetTheorems, WellFoundedInduction, TLAPS

USE EditingAssumption

\* An item goes by the name its values give it.
Named(it) == TitleFor(it.type, it.val) = it.val["title"]

\* What the owner did not touch is in the write as it is in the item: the
\* condition OnlyTheOwners puts on a save.
LeavesTheRest(w, it) ==
    /\ \A k \in KeysOf(it.type) \ (w.touched \cup {"title"}) : w.item.val[k] = it.val[k]
    /\ w.item.val["title"] # it.val["title"] => w.touched \cap {"title", "name", "number", "bank"} # {}
    /\ w.item.sections = it.sections
    /\ w.item.kept = it.kept

\* Two copies at one revision are the same.
CopiesAgree == local.rev = remote.rev => local = remote

\* A form is of a version the server has had, and shows it.
FormShows ==
    form # NoEdit =>
        /\ form.rev \in Nat /\ form.rev <= remote.rev /\ form.fields \subseteq FieldIds
        /\ form.rev = remote.rev => form.val = Shown(editor, remote)

\* A write is an item, built from a version the server has had.
StagedIsItem ==
    staged # NoEdit =>
        /\ IsItem(staged.item) /\ staged.item.type = remote.type /\ Named(staged.item)
        /\ staged.base \in Nat /\ staged.base <= remote.rev

\* A write the server would take keeps the password it replaces and, from a
\* phone, what the owner did not touch.
StagedFits ==
    staged # NoEdit /\ staged.base = remote.rev =>
        /\ staged.item.history = HistoryAfter(remote, staged.item.val["password"])
        /\ editor = "mobile" => LeavesTheRest(staged, remote)

EditInv ==
    /\ EditTypeOK
    /\ PasswordsAreKept
    /\ Named(remote)
    /\ CopiesAgree
    /\ FormShows
    /\ StagedIsItem
    /\ StagedFits

-----------------------------------------------------------------------------
(* Lemmas about the operators.                                              *)

\* The newest of a history are a history, of what it has room for.
LEMMA NewestType ==
    ASSUME NEW h \in Seq(Passwords)
    PROVE  /\ Newest(h) \in Seq(Passwords)
           /\ Len(Newest(h)) = IF Len(h) < MaxHistory THEN Len(h) ELSE MaxHistory
           /\ \A i \in 1 .. Len(Newest(h)) : Newest(h)[i] = h[i]
  BY DEF Newest

\* A password put before a trimmed history pushes out the same one as put
\* before the whole: trimming at every edit loses nothing more
\* (build_item: insert, then truncate).
LEMMA NewestOfPushed ==
    ASSUME NEW h \in Seq(Passwords), NEW p \in Passwords
    PROVE  Newest(<<p>> \o Newest(h)) = Newest(<<p>> \o h)
  <1> DEFINE a == <<p>> \o Newest(h)
             b == <<p>> \o h
  <1>1. a \in Seq(Passwords) /\ b \in Seq(Passwords)
    BY NewestType
  <1>2. /\ Len(a) = 1 + Len(Newest(h)) /\ Len(b) = 1 + Len(h)
        /\ \A i \in 1 .. Len(a) : a[i] = IF i = 1 THEN p ELSE Newest(h)[i - 1]
        /\ \A i \in 1 .. Len(b) : b[i] = IF i = 1 THEN p ELSE h[i - 1]
    BY NewestType, SMTT(30)
  <1> HIDE DEF a, b
  <1>3. /\ Newest(a) \in Seq(Passwords)
        /\ Len(Newest(a)) = IF Len(a) < MaxHistory THEN Len(a) ELSE MaxHistory
        /\ \A i \in 1 .. Len(Newest(a)) : Newest(a)[i] = a[i]
    BY <1>1, NewestType
  <1>4. /\ Newest(b) \in Seq(Passwords)
        /\ Len(Newest(b)) = IF Len(b) < MaxHistory THEN Len(b) ELSE MaxHistory
        /\ \A i \in 1 .. Len(Newest(b)) : Newest(b)[i] = b[i]
    BY <1>1, NewestType
  <1>5. /\ Newest(h) \in Seq(Passwords) /\ Len(h) \in Nat
        /\ Len(Newest(h)) = IF Len(h) < MaxHistory THEN Len(h) ELSE MaxHistory
        /\ \A i \in 1 .. Len(Newest(h)) : Newest(h)[i] = h[i]
    BY NewestType
  <1>6. Len(Newest(a)) = Len(Newest(b))
    BY <1>2, <1>3, <1>4, <1>5
  <1>7. ASSUME NEW i \in 1 .. Len(Newest(a))
        PROVE  Newest(a)[i] = Newest(b)[i]
    <2>1. i \in 1 .. Len(a) /\ i \in 1 .. Len(b)
      BY <1>2, <1>3, <1>4, <1>5
    <2>2. i # 1 => i - 1 \in 1 .. Len(Newest(h))
      BY <1>2, <1>5, <2>1
    <2>3. Newest(a)[i] = a[i] /\ Newest(b)[i] = b[i]
      BY <1>3, <1>4, <1>6
    <2>4. CASE i = 1
      BY <1>2, <2>1, <2>3, <2>4
    <2>5. CASE i # 1
      <3>1. a[i] = Newest(h)[i - 1] /\ b[i] = h[i - 1]
        BY <1>2, <2>1, <2>5
      <3>2. Newest(h)[i - 1] = h[i - 1]
        BY <1>5, <2>2, <2>5
      <3> QED BY <2>3, <3>1, <3>2
    <2> QED BY <2>4, <2>5
  <1>8. Newest(a) = Newest(b)
    BY <1>3, <1>4, <1>6, <1>7
  <1> QED BY <1>8 DEF a, b

\* Every item has a title, and a login a password.
LEMMA KeysKnown ==
    ASSUME NEW t \in ItemTypes
    PROVE  /\ "title" \in KeysOf(t)
           /\ t = "login" => "password" \in KeysOf(t)
           /\ t = "identity" => "name" \in KeysOf(t)
           /\ t = "card" => "number" \in KeysOf(t)
           /\ t = "bank" => "bank" \in KeysOf(t)
  BY DEF KeysOf, Plain, Secret

\* The history after an edit is one.
LEMMA HistoryAfterType ==
    ASSUME NEW it, IsItem(it), NEW new
    PROVE  /\ HistoryAfter(it, new) \in Seq(Passwords)
           /\ Len(HistoryAfter(it, new)) <= MaxHistory
  <1>1. it.type = "login" => <<it.val["password"]>> \o it.history \in Seq(Passwords)
    BY DEF IsItem
  <1>2. CASE it.type # "login" \/ it.val["password"] \in {Blank, new}
    BY <1>2 DEF HistoryAfter, IsItem
  <1>3. CASE it.type = "login" /\ it.val["password"] \notin {Blank, new}
    <2> DEFINE h == <<it.val["password"]>> \o it.history
    <2>1. h \in Seq(Passwords) /\ HistoryAfter(it, new) = Newest(h)
      BY <1>1, <1>3 DEF HistoryAfter
    <2> HIDE DEF h
    <2> QED BY <2>1, NewestType
  <1> QED BY <1>2, <1>3

\* What an edit makes of an item: its type, revision and passkeys stay, and
\* the title follows the values.
LEMMA BuildItemIs ==
    ASSUME NEW it, IsItem(it), NEW val, DOMAIN val = KeysOf(it.type),
           it.type = "login" => val["password"] \in Passwords,
           NEW sections, DOMAIN sections \subseteq FieldIds
    PROVE  LET new == BuildItem(it, val, sections) IN
           /\ IsItem(new)
           /\ new.type = it.type /\ new.rev = it.rev /\ new.kept = it.kept
           /\ new.sections = sections
           /\ \A k \in KeysOf(it.type) \ {"title"} : new.val[k] = val[k]
           /\ new.val["title"] = TitleFor(it.type, val)
           /\ new.history = HistoryAfter(it, new.val["password"])
           /\ Named(new)
  <1> DEFINE new == BuildItem(it, val, sections)
             history == IF it.type = "login" THEN HistoryAfter(it, val["password"]) ELSE it.history
             titled == [val EXCEPT !["title"] = TitleFor(it.type, val)]
  <1>1. /\ DOMAIN new = DOMAIN it
        /\ new.type = it.type /\ new.rev = it.rev /\ new.kept = it.kept
        /\ new.sections = sections /\ new.history = history /\ new.val = titled
    BY DEF BuildItem, IsItem
  <1>2. /\ DOMAIN titled = KeysOf(it.type)
        /\ titled["title"] = TitleFor(it.type, val)
        /\ \A k \in KeysOf(it.type) \ {"title"} : titled[k] = val[k]
    BY KeysKnown DEF IsItem
  <1>3. history \in Seq(Passwords) /\ Len(history) <= MaxHistory
    BY HistoryAfterType DEF IsItem
  <1>4. it.type = "login" => titled["password"] = val["password"]
    BY <1>2, KeysKnown DEF IsItem
  <1>5. history = HistoryAfter(it, titled["password"])
    BY <1>4 DEF HistoryAfter
  <1>6. TitleFor(it.type, titled) = titled["title"]
    <2> HIDE DEF titled
    <2> QED BY <1>2, KeysKnown DEF TitleFor, IsItem
  <1> HIDE DEF new, history, titled
  <1>7. IsItem(new)
    BY <1>1, <1>2, <1>3, <1>4 DEF IsItem
  <1>8. Named(new)
    BY <1>1, <1>6 DEF Named
  <1>9. new.history = HistoryAfter(it, new.val["password"])
    BY <1>1, <1>5
  <1> QED BY <1>1, <1>2, <1>7, <1>8, <1>9 DEF new

-----------------------------------------------------------------------------
(* The steps.                                                               *)

\* A next version that was built from the server's copy, keeping its history,
\* keeps the invariant, wherever it was made.
LEMMA BecomesKeeps ==
    ASSUME EditInv, NEW new, IsItem(new), new.type = remote.type, Named(new),
           new.history = HistoryAfter(remote, new.val["password"]),
           Becomes(new), editor' = editor,
           local' \in {local, remote'},
           form' \in {form, NoEdit}, staged' \in {staged, NoEdit}
    PROVE  EditInv'
  <1> USE DEF EditInv, EditTypeOK
  <1>1. /\ IsItem(remote') /\ remote'.type = remote.type /\ remote'.rev = remote.rev + 1
        /\ remote'.val = new.val /\ remote'.history = new.history
    BY SMTT(30) DEF Becomes, IsItem
  <1>2. Named(remote)'
    BY <1>1 DEF Named
  <1>3. held' \in Seq(Passwords) /\ PasswordsAreKept'
    <2>1. CASE remote.type = "login" /\ remote.val["password"] \notin {Blank, new.val["password"]}
      <3> DEFINE p == remote.val["password"]
      <3>1. p \in Passwords /\ held' = <<p>> \o held
        BY <2>1 DEF Becomes, IsItem
      <3>2. remote'.history = Newest(<<p>> \o Newest(held))
        BY <1>1, <2>1 DEF HistoryAfter, PasswordsAreKept
      <3> HIDE DEF p
      <3>3. remote'.history = Newest(<<p>> \o held)
        BY <3>1, <3>2, NewestOfPushed
      <3>4. <<p>> \o held \in Seq(Passwords)
        BY <3>1
      <3> QED BY <3>1, <3>3, <3>4 DEF PasswordsAreKept, Newest
    <2>2. CASE remote.type # "login" \/ remote.val["password"] \in {Blank, new.val["password"]}
      BY <1>1, <2>2 DEF Becomes, HistoryAfter, PasswordsAreKept, Newest
    <2> QED BY <2>1, <2>2
  <1>4. EditTypeOK'
    <2>1. remote.rev \in Nat /\ local.rev \in Nat /\ remote.rev <= MaxEdits
      BY DEF Becomes, IsItem
    <2>2. IsItem(local') /\ local'.type = remote'.type /\ local'.rev <= remote'.rev
      BY <1>1, <2>1
    <2> QED BY <1>1, <1>3, <2>1, <2>2
  <1>5. CopiesAgree'
    BY <1>1 DEF CopiesAgree, IsItem
  <1>6. FormShows'
    BY <1>1, SMTT(30) DEF FormShows, IsItem
  <1>7. remote.rev \in Nat
    BY DEF IsItem
  <1>8. StagedIsItem'
    BY <1>1, <1>7 DEF StagedIsItem
  <1>9. StagedFits'
    BY <1>1, <1>7 DEF StagedIsItem, StagedFits
  <1> QED BY <1>2, <1>3, <1>4, <1>5, <1>6, <1>8, <1>9

\* An edit of the server's copy by its owner keeps the history.
LEMMA EditedKeeps ==
    ASSUME EditInv, NEW val, DOMAIN val = KeysOf(remote.type),
           remote.type = "login" => val["password"] \in Passwords,
           NEW sections, DOMAIN sections \subseteq FieldIds,
           Becomes(BuildItem(remote, val, sections)), editor' = editor,
           local' \in {local, remote'}, form' = form, staged' = staged
    PROVE  EditInv'
  <1> DEFINE new == BuildItem(remote, val, sections)
  <1>1. /\ IsItem(new) /\ new.type = remote.type /\ Named(new)
        /\ new.history = HistoryAfter(remote, new.val["password"])
    BY BuildItemIs DEF EditInv, EditTypeOK
  <1>2. Becomes(new)
    OBVIOUS
  <1> HIDE DEF new
  <1> QED BY <1>1, <1>2, BecomesKeeps

\* The value an edit asks for is one that was typed or the one there was.
LEMMA AppliedIn ==
    ASSUME NEW c \in Change, NEW v \in Passwords
    PROVE  Applied(c, v) \in Passwords
  BY DEF Applied, Change, Passwords, TypedTexts

\* The form of a phone gives back what it showed, but for what was touched;
\* the title a card shows as blank is the one its number gives.
LEMMA PhoneAsks ==
    ASSUME EditInv, editor = "mobile", local = remote, form.val = Shown(editor, remote),
           NEW k \in KeysOf(local.type), NEW c \in Change
    PROVE  /\ \A j \in KeysOf(local.type) \ {k, "title"} : Asks(k, c)[j] = local.val[j]
           /\ k \notin {"title", "name", "number", "bank"}
                => TitleFor(local.type, Asks(k, c)) = local.val["title"]
  <1> DEFINE val == Asks(k, c)
             shown == Shown(editor, remote)
  <1>1. local.type \in ItemTypes /\ DOMAIN local.val = KeysOf(local.type)
    BY DEF EditInv, EditTypeOK, IsItem
  <1>2. /\ \A j \in KeysOf(local.type) \ {"title"} : shown[j] = local.val[j]
        /\ \/ shown["title"] = local.val["title"]
           \/ local.type = "card" /\ shown["title"] = Blank /\ local.val["title"] = Brand(local.val["number"])
    BY <1>1, KeysKnown DEF Shown
  <1> HIDE DEF shown
  <1>3. \A j \in KeysOf(local.type) \ {k} :
            val[j] = IF j \in FormKeys(editor, local.type) THEN shown[j] ELSE local.val[j]
    BY DEF Asks, shown
  <1>4. "title" \in FormKeys(editor, local.type)
    BY <1>1 DEF FormKeys, Plain, Secret, KeysOf
  <1> HIDE DEF val
  <1>5. \A j \in KeysOf(local.type) \ {k, "title"} : val[j] = local.val[j]
    BY <1>2, <1>3
  <1>6. ASSUME k \notin {"title", "name", "number", "bank"}
        PROVE  TitleFor(local.type, val) = local.val["title"]
    <2>1. val["title"] = shown["title"]
      BY <1>1, <1>3, <1>4, <1>6, KeysKnown
    <2>2. TitleFor(local.type, local.val) = local.val["title"]
      BY DEF EditInv, Named
    <2>3. CASE local.type = "identity"
      BY <1>1, <1>5, <1>6, <2>2, <2>3, KeysKnown DEF TitleFor
    <2>4. CASE local.type = "card"
      BY <1>1, <1>2, <1>5, <1>6, <2>1, <2>2, <2>4, KeysKnown DEF TitleFor
    <2>5. CASE local.type = "bank"
      BY <1>1, <1>2, <1>5, <1>6, <2>1, <2>2, <2>5, KeysKnown DEF TitleFor
    <2>6. CASE local.type \in {"login", "note"}
      BY <1>1, <1>2, <2>1, <2>2, <2>6 DEF TitleFor
    <2> QED BY <1>1, <2>3, <2>4, <2>5, <2>6
  <1> QED BY <1>5, <1>6 DEF val

\* An edit is built from the copy here: if that is the server's, the write
\* keeps its password and, from a phone, what the owner did not touch.
LEMMA StageKeeps ==
    ASSUME EditInv, editor' = editor,
           NEW k \in KeysOf(local.type), NEW c \in Change,
           NEW fields, NEW fresh \in SUBSET FieldIds,
           fields = NoEdit \/ DOMAIN fields \subseteq FieldIds,
           editor = "mobile" => fields = NoEdit,
           Stage(k, c, fields, fresh)
    PROVE  EditInv'
  <1> DEFINE val == Asks(k, c)
             sections == ApplySections(fields, fresh, local.sections)
             new == BuildItem(local, val, sections)
  <1>1. IsItem(local) /\ IsItem(remote) /\ local.type = remote.type /\ local.rev <= remote.rev
    BY DEF EditInv, EditTypeOK
  <1>2. DOMAIN val = KeysOf(local.type) /\ (local.type = "login" => val["password"] \in Passwords)
    <2>1. DOMAIN val = KeysOf(local.type)
      BY DEF Asks
    <2>2. ASSUME local.type = "login" PROVE val["password"] \in Passwords
      <3>1. "password" \in KeysOf(local.type) /\ "password" \notin FormKeys(editor, local.type)
        BY <2>2 DEF KeysOf, Plain, Secret, FormKeys
      <3>2. local.val["password"] \in Passwords
        BY <1>1, <2>2 DEF IsItem
      <3>3. Asked(editor, "password", c) \in Change
        BY DEF Asked
      <3> QED BY <3>1, <3>2, <3>3, AppliedIn DEF Asks
    <2> QED BY <2>1, <2>2
  <1>3. DOMAIN sections \subseteq FieldIds
    BY <1>1 DEF ApplySections, IsItem
  <1>4. /\ IsItem(new) /\ new.type = local.type /\ new.kept = local.kept
        /\ new.sections = sections
        /\ \A j \in KeysOf(local.type) \ {"title"} : new.val[j] = val[j]
        /\ new.val["title"] = TitleFor(local.type, val)
        /\ new.history = HistoryAfter(local, new.val["password"])
        /\ Named(new)
    <2> HIDE DEF val, sections
    <2> QED BY <1>1, <1>2, <1>3, BuildItemIs
  <1>5. /\ staged'.item = new /\ staged'.base = local.rev /\ staged'.touched = {k}
        /\ form # NoEdit /\ Unchanged /\ UNCHANGED <<local, remote, form, held>>
    BY DEF Stage
  <1>6. ASSUME local.rev = remote.rev, editor = "mobile"
        PROVE  LeavesTheRest(staged', remote)
    <2>1. local = remote /\ form.val = Shown(editor, remote) /\ fields = NoEdit
      BY <1>1, <1>5, <1>6 DEF EditInv, CopiesAgree, FormShows, Unchanged
    <2>2. /\ \A j \in KeysOf(local.type) \ {k, "title"} : val[j] = local.val[j]
          /\ k \notin {"title", "name", "number", "bank"}
                => TitleFor(local.type, val) = local.val["title"]
      BY <1>6, <2>1, PhoneAsks
    <2>3. sections = remote.sections
      BY <2>1 DEF ApplySections
    <2> HIDE DEF val, sections, new
    <2> QED BY <1>4, <1>5, <2>1, <2>2, <2>3 DEF LeavesTheRest
  <1> HIDE DEF val, sections, new
  <1>7. StagedIsItem'
    BY <1>1, <1>4, <1>5 DEF StagedIsItem, IsItem, Named
  <1>8. StagedFits'
    BY <1>1, <1>4, <1>5, <1>6 DEF StagedFits, EditInv, CopiesAgree
  <1>9. EditTypeOK' /\ PasswordsAreKept' /\ Named(remote)' /\ CopiesAgree' /\ FormShows'
    BY <1>5 DEF EditInv, EditTypeOK, PasswordsAreKept, Newest, Named, CopiesAgree, FormShows, Shown, IsItem
  <1> QED BY <1>7, <1>8, <1>9 DEF EditInv

-----------------------------------------------------------------------------
(* The invariant, and what follows from it.                                 *)

\* A new item is one, named by its values, and nothing is under way.
LEMMA EditInitInv == EditInit => EditInv
  <1> SUFFICES ASSUME EditInit PROVE EditInv
    OBVIOUS
  <1>1. PICK t \in ItemTypes : local = NewItem(t)
    BY DEF EditInit
  <1>2. /\ remote = local /\ form = NoEdit /\ staged = NoEdit /\ held = <<>> /\ editor \in Editors
    BY DEF EditInit
  <1>3. /\ DOMAIN local = {"type", "rev", "kept", "history", "sections", "val"}
        /\ local.type = t /\ local.rev = 1 /\ local.kept = 0 /\ local.history = <<>>
        /\ DOMAIN local.sections = {} /\ DOMAIN local.val = KeysOf(t)
        /\ \A k \in KeysOf(t) :
              local.val[k] = CASE k = "title" -> IF t = "card" THEN Brand("a") ELSE "a"
                               [] k \in {"number", "name"} -> "a"
                               [] k = "password" /\ t = "login" -> "old" [] OTHER -> Blank
    BY <1>1 DEF NewItem
  <1>4. IsItem(local)
    BY <1>3, KeysKnown DEF IsItem, Passwords
  <1>5. Named(local)
    BY <1>3, KeysKnown DEF Named, TitleFor, Blank
  <1>6. Newest(held) = <<>>
    BY <1>2 DEF Newest
  <1>7. EditTypeOK
    BY <1>2, <1>3, <1>4 DEF EditTypeOK
  <1> QED BY <1>2, <1>3, <1>5, <1>6, <1>7
          DEF EditInv, PasswordsAreKept, CopiesAgree, FormShows, StagedIsItem, StagedFits

\* Every step keeps the invariant.
LEMMA EditNextInv == EditInv /\ [EditNext]_editVars => EditInv'
  <1> SUFFICES ASSUME EditInv, [EditNext]_editVars PROVE EditInv'
    OBVIOUS
  <1>0. /\ IsItem(local) /\ IsItem(remote) /\ local.type = remote.type
        /\ local.rev \in Nat /\ remote.rev \in Nat /\ local.rev <= remote.rev
        /\ local.type \in ItemTypes
    BY DEF EditInv, EditTypeOK, IsItem
  <1>1. CASE UNCHANGED editVars
    BY <1>1 DEF editVars, EditInv, EditTypeOK, PasswordsAreKept, Newest, Named, CopiesAgree, FormShows,
                StagedIsItem, StagedFits, LeavesTheRest, IsItem, Shown
  <1>2. CASE EditNext /\ OpenEditor
    <2>1. /\ UNCHANGED <<editor, local, remote, staged, held>>
          /\ form'.rev = local.rev /\ form'.val = Shown(editor, local)
          /\ form'.fields = DOMAIN local.sections
      BY <1>2 DEF EditNext, OpenEditor
    <2>2. FormShows'
      BY <1>0, <2>1 DEF EditInv, CopiesAgree, FormShows, IsItem, Shown
    <2> QED BY <2>1, <2>2 DEF EditInv, EditTypeOK, PasswordsAreKept, Newest, Named, CopiesAgree,
                              StagedIsItem, StagedFits, LeavesTheRest, IsItem
  <1>3. CASE EditNext /\ CloseEditor
    BY <1>3 DEF EditNext, CloseEditor, EditInv, EditTypeOK, PasswordsAreKept, Newest, Named, CopiesAgree,
                FormShows, StagedIsItem, StagedFits, LeavesTheRest, IsItem
  <1>4. CASE EditNext /\ EditValue
    <2>1. PICK k \in KeysOf(local.type), c \in Change : Stage(k, c, NoEdit, {})
      BY <1>4 DEF EditValue
    <2>2. editor' = editor
      BY <1>4 DEF EditNext
    <2> QED BY <2>1, <2>2, StageKeeps
  <1>5. CASE EditNext /\ EditFields
    <2>1. /\ editor' = editor /\ editor = "desktop" /\ form.fields \subseteq FieldIds
          /\ KeepIt \in Change /\ "tags" \in KeysOf(local.type)
      BY <1>5 DEF EditNext, EditFields, EditInv, FormShows, KeepIt, Change, KeysOf, Plain
    <2>2. CASE \E f \in form.fields, c \in Change :
                  Stage("tags", KeepIt, [g \in form.fields |-> IF g = f THEN c ELSE KeepIt], {})
      <3>1. PICK f \in form.fields, c \in Change :
                  Stage("tags", KeepIt, [g \in form.fields |-> IF g = f THEN c ELSE KeepIt], {})
        BY <2>2
      <3> DEFINE fields == [g \in form.fields |-> IF g = f THEN c ELSE KeepIt]
      <3>2. Stage("tags", KeepIt, fields, {}) /\ DOMAIN fields \subseteq FieldIds
        BY <2>1, <3>1
      <3> HIDE DEF fields
      <3> QED BY <2>1, <3>2, StageKeeps
    <2>3. CASE \E f \in form.fields : Stage("tags", KeepIt, [g \in form.fields \ {f} |-> KeepIt], {})
      <3>1. PICK f \in form.fields : Stage("tags", KeepIt, [g \in form.fields \ {f} |-> KeepIt], {})
        BY <2>3
      <3> DEFINE fields == [g \in form.fields \ {f} |-> KeepIt]
      <3>2. Stage("tags", KeepIt, fields, {}) /\ DOMAIN fields \subseteq FieldIds
        BY <2>1, <3>1
      <3> HIDE DEF fields
      <3> QED BY <2>1, <3>2, StageKeeps
    <2>4. CASE \E f \in FieldIds \ (form.fields \cup DOMAIN local.sections) :
                  Stage("tags", KeepIt, [g \in form.fields |-> KeepIt], {f})
      <3>1. PICK f \in FieldIds : Stage("tags", KeepIt, [g \in form.fields |-> KeepIt], {f})
        BY <2>4
      <3> DEFINE fields == [g \in form.fields |-> KeepIt]
      <3>2. Stage("tags", KeepIt, fields, {f}) /\ DOMAIN fields \subseteq FieldIds
        BY <2>1, <3>1
      <3> HIDE DEF fields
      <3> QED BY <2>1, <3>2, StageKeeps
    <2> QED BY <1>5, <2>2, <2>3, <2>4 DEF EditFields
  <1>6. CASE EditNext /\ SendEdit
    <2>1. staged # NoEdit /\ staged' = NoEdit /\ editor' = editor
      BY <1>6 DEF EditNext, SendEdit
    <2>2. CASE staged.base = remote.rev
      <3>1. /\ Becomes(staged.item) /\ local' = remote' /\ form' = NoEdit
        BY <1>6, <2>2 DEF SendEdit
      <3>2. /\ IsItem(staged.item) /\ staged.item.type = remote.type /\ Named(staged.item)
            /\ staged.item.history = HistoryAfter(remote, staged.item.val["password"])
        BY <2>1, <2>2 DEF EditInv, StagedIsItem, StagedFits
      <3> QED BY <2>1, <3>1, <3>2, BecomesKeeps
    <2>3. CASE staged.base # remote.rev
      <3>1. UNCHANGED <<local, remote, form, held>>
        BY <1>6, <2>3 DEF SendEdit
      <3> QED BY <2>1, <3>1 DEF EditInv, EditTypeOK, PasswordsAreKept, Newest, Named, CopiesAgree,
                                FormShows, StagedIsItem, StagedFits, IsItem, Shown
    <2> QED BY <2>2, <2>3
  <1>7. CASE EditNext /\ \E v \in Words : BrowserEdit(v)
    <2>1. PICK v \in Words : BrowserEdit(v)
      BY <1>7
    <2> DEFINE val == [local.val EXCEPT !["password"] = v]
    <2>2. local = remote /\ local.type = "login" /\ editor' = editor
      BY <1>7, <2>1 DEF BrowserEdit, EditInv, CopiesAgree, EditNext
    <2>3. DOMAIN val = KeysOf(remote.type) /\ val["password"] \in Passwords
      BY <1>0, <2>2, KeysKnown DEF IsItem, Passwords, TypedTexts
    <2>4. /\ Becomes(BuildItem(remote, val, remote.sections))
          /\ local' = remote' /\ form' = form /\ staged' = staged
      BY <2>1, <2>2 DEF BrowserEdit
    <2>5. DOMAIN remote.sections \subseteq FieldIds
      BY <1>0 DEF IsItem
    <2> HIDE DEF val
    <2> QED BY <2>2, <2>3, <2>4, <2>5, EditedKeeps
  <1>8. CASE EditNext /\ OtherDevice
    <2>1. UNCHANGED <<editor, local, form, staged>>
      BY <1>8 DEF EditNext, OtherDevice
    <2>2. DOMAIN remote.sections \subseteq FieldIds /\ DOMAIN remote.val = KeysOf(remote.type)
      BY <1>0 DEF IsItem
    <2>3. CASE \E k \in KeysOf(remote.type), v \in Words :
                  Becomes(BuildItem(remote, [remote.val EXCEPT ![k] = v], remote.sections))
      <3>1. PICK k \in KeysOf(remote.type), v \in Words :
                  Becomes(BuildItem(remote, [remote.val EXCEPT ![k] = v], remote.sections))
        BY <2>3
      <3> DEFINE val == [remote.val EXCEPT ![k] = v]
      <3>2. DOMAIN val = KeysOf(remote.type) /\ (remote.type = "login" => val["password"] \in Passwords)
        BY <1>0, <2>2, KeysKnown DEF IsItem, Passwords, TypedTexts
      <3>3. Becomes(BuildItem(remote, val, remote.sections))
        BY <3>1
      <3> HIDE DEF val
      <3> QED BY <2>1, <2>2, <3>2, <3>3, EditedKeeps
    <2>4. CASE \E f \in FieldIds \ DOMAIN remote.sections :
                  Becomes(BuildItem(remote, remote.val,
                      ApplySections([g \in DOMAIN remote.sections |-> KeepIt], {f}, remote.sections)))
      <3>1. PICK f \in FieldIds :
                  Becomes(BuildItem(remote, remote.val,
                      ApplySections([g \in DOMAIN remote.sections |-> KeepIt], {f}, remote.sections)))
        BY <2>4
      <3> DEFINE sections == ApplySections([g \in DOMAIN remote.sections |-> KeepIt], {f}, remote.sections)
      <3>2. DOMAIN sections \subseteq FieldIds
        BY <2>2 DEF ApplySections
      <3>3. Becomes(BuildItem(remote, remote.val, sections))
        BY <3>1
      <3>4. remote.type = "login" => remote.val["password"] \in Passwords
        BY <1>0 DEF IsItem
      <3> HIDE DEF sections
      <3> QED BY <2>1, <2>2, <3>2, <3>3, <3>4, EditedKeeps
    <2>5. CASE Becomes([remote EXCEPT !.kept = remote.kept + 1])
      <3> DEFINE new == [remote EXCEPT !.kept = remote.kept + 1]
      <3>1. /\ DOMAIN new = DOMAIN remote /\ new.kept \in Nat
            /\ new.type = remote.type /\ new.rev = remote.rev /\ new.val = remote.val
            /\ new.history = remote.history /\ new.sections = remote.sections
        BY <1>0 DEF IsItem
      <3>2. Becomes(new)
        BY <2>5
      <3> HIDE DEF new
      <3>3. IsItem(new) /\ Named(new)
        BY <1>0, <3>1 DEF IsItem, Named, EditInv
      <3>4. new.history = HistoryAfter(remote, new.val["password"])
        BY <3>1 DEF HistoryAfter
      <3> QED BY <2>1, <3>1, <3>2, <3>3, <3>4, BecomesKeeps
    <2> QED BY <1>8, <2>3, <2>4, <2>5 DEF OtherDevice
  <1>9. CASE EditNext /\ PullEdit
    <2>1. local' = remote /\ UNCHANGED <<editor, remote, form, staged, held>>
      BY <1>9 DEF EditNext, PullEdit
    <2> QED BY <1>0, <2>1 DEF EditInv, EditTypeOK, PasswordsAreKept, Newest, Named, CopiesAgree,
                              FormShows, StagedIsItem, StagedFits, LeavesTheRest, Shown
  <1> QED BY <1>1, <1>2, <1>3, <1>4, <1>5, <1>6, <1>7, <1>8, <1>9 DEF EditNext

LEMMA EditInvariant == EditSpec => []EditInv
  BY EditInitInv, EditNextInv, PTL DEF EditSpec

\* The item here and at the server keep the parts of their type, no history
\* is longer than MAX_PASSWORD_HISTORY and no copy is ahead of the server's
\* (vault.rs, build_item).
THEOREM EditTypeCorrect == EditSpec => []EditTypeOK
  <1>1. EditInv => EditTypeOK
    BY DEF EditInv
  <1> QED BY <1>1, EditInvariant, PTL

\* However many editors, browsers and devices replace or clear a password,
\* and in whatever order their writes meet, the login's history is the
\* passwords it has had, newest first, as many as there is room for
\* (vault.rs, build_item).
THEOREM PasswordsAreKeptHolds == EditSpec => []PasswordsAreKept
  <1>1. EditInv => PasswordsAreKept
    BY DEF EditInv
  <1> QED BY <1>1, EditInvariant, PTL

\* A save from a phone changes nothing but what its owner changed, whatever
\* pulls, other devices and browsers did since the form was opened (mobile
\* edit.rs compares the revision the form was opened at).
THEOREM PhoneEditsKeepOthersHolds == EditSpec => PhoneEditsKeepOthers
  <1>1. EditInv /\ [EditNext]_editVars => [editor = "mobile" => OnlyTheOwners]_editVars
    <2> SUFFICES ASSUME EditInv, EditNext, editor = "mobile",
                        staged # NoEdit, staged' = NoEdit, remote' # remote
                 PROVE  OnlyTheOwners
      BY DEF editVars, OnlyTheOwners
    <2>1. staged' # staged
      OBVIOUS
    <2>2. CASE SendEdit
      <3>1. staged.base = remote.rev /\ remote' = [staged.item EXCEPT !.rev = remote.rev + 1]
        BY <2>2 DEF SendEdit, Becomes
      <3>2. IsItem(staged.item) /\ LeavesTheRest(staged, remote)
        BY <3>1 DEF EditInv, StagedIsItem, StagedFits
      <3>3. /\ remote'.val = staged.item.val /\ remote'.sections = staged.item.sections
            /\ remote'.kept = staged.item.kept
        BY <3>1, <3>2 DEF IsItem
      <3> QED BY <3>2, <3>3 DEF LeavesTheRest, OnlyTheOwners
    <2>3. CASE EditValue \/ EditFields
      BY <2>3 DEF EditValue, EditFields, Stage
    <2> QED BY <2>1, <2>2, <2>3 DEF EditNext, OpenEditor, CloseEditor, BrowserEdit, OtherDevice, PullEdit
  <1> QED BY <1>1, EditInvariant, PTL DEF EditSpec, PhoneEditsKeepOthers

HIDE EditingAssumption

-----------------------------------------------------------------------------
(* Requests: where an operation may be                                      *)

\* The requests left of a sign-in that fell back, and of those the ones after
\* the legacy sign-in itself.
EnrolLegs == {<<"pake/register", "enroll">>, <<"enroll">>}
OldSignIn == {LegacyLoginLegs} \cup EnrolLegs

ActivateStages == {ActivateLegs, <<"activate">>, <<"activate legacy">>}
LoginStages == {LoginLegs, <<"pake/finish">>} \cup OldSignIn
ChangeStages == {<<"pake/reauth", "pake/register", "credentials">>, <<"pake/register", "credentials">>,
                 <<"credentials">>, <<"credentials legacy">>}
DeleteStages == {<<"pake/reauth", "erase">>, <<"erase">>, <<"erase legacy">>}

Stages(o) == CASE o = "activate" -> ActivateStages [] o = "login" -> LoginStages
               [] o = "change" -> ChangeStages [] o = "delete" -> DeleteStages
               [] OTHER -> {<<o>>}

\* A request that was sent was understood: its answer says what became of it.
Honest(r) == r.status = 200
Understood(r) == r.status \notin {0, 200, 502, 504}
NotDoneYet == \/ reply = NoReply
              \/ Understood(reply)
              \/ Honest(reply) /\ Route \notin Effects
Enrolling == op.of = "login" /\ op.legs \in EnrolLegs

\* A batch that the server took.
Storable(b) == /\ b \in [n : Nat, overview : Nat, details : Nat]
               /\ b.n \in 1..MaxChanges /\ b.overview <= MaxBlobBytes /\ b.details <= MaxBlobBytes
StoredFits(b) == Storable(b) /\ BodyBytes(b) <= MaxBodyBytes

RequestTyped ==
    /\ site \in {"old", "open", "closed"} /\ confirmed \in BOOLEAN /\ (confirmed => site # "old")
    /\ stored = NoOp \/ StoredFits(stored)
    /\ op = NoOp => reply = NoReply

OperationInv ==
    op # NoOp =>
      /\ op \in Operation /\ op.legs \in Stages(op.of) /\ heard = NoOp
      /\ op.of = "write" => Storable(op.batch)
      /\ op.legs = LegacyLoginLegs => op.first \in {"unauthorized", "not found"}
      /\ op.of = "login" /\ op.legs \in OldSignIn => ~confirmed

\* What the server did, told by where the operation is and by the answer.
EffectInv ==
    /\ op = NoOp /\ heard = NoOp => did = {}
    /\ op # NoOp /\ Enrolling => did # {}
    /\ op # NoOp /\ ~Enrolling /\ NotDoneYet => did = {}
    /\ op # NoOp /\ Honest(reply) /\ Route \in Effects => did # {}

\* An answer of the server is read, but for a city whose name is too long
\* for the client.
ReadAs(route, r, e) == e = "ok" \/ (LongPlace(route, r) /\ e = "protocol")

ReplyInv ==
    reply # NoReply =>
      /\ ~Understood(reply) /\ ~Honest(reply) => Outcome(Route, reply) = "unavailable"
      /\ Honest(reply) => /\ ReadAs(Route, reply, Outcome(Route, reply))
                          /\ Route \in PakeRoutes => site # "old"
      /\ Outcome(Route, reply) = "not found" /\ Route = "activate/register" => site = "old"

RequestInv ==
    /\ RequestTyped /\ OperationInv /\ EffectInv /\ ReplyInv
    /\ OutcomesAreTrue /\ AnswersAreRead

-----------------------------------------------------------------------------
(* The requests of an operation, one by one                                 *)

LEMMA Singles ==
    ASSUME NEW a
    PROVE  Head(<<a>>) = a /\ Len(<<a>>) = 1
OBVIOUS

LEMMA PairsOfLegs ==
    ASSUME NEW a, NEW b
    PROVE  Head(<<a, b>>) = a /\ Len(<<a, b>>) = 2 /\ Tail(<<a, b>>) = <<b>>
OBVIOUS

LEMMA TriplesOfLegs ==
    ASSUME NEW a, NEW b, NEW c
    PROVE  Head(<<a, b, c>>) = a /\ Len(<<a, b, c>>) = 3 /\ Tail(<<a, b, c>>) = <<b, c>>
OBVIOUS

\* What the client does next depends on the request it is at and on those left.
StageOK(o, l) ==
    /\ Len(l) \in {1, 2, 3}
    /\ Len(l) # 1 => /\ Tail(l) \in Stages(o) /\ Tail(l) # LegacyLoginLegs
                     /\ Head(l) \in Effects => o = "login" /\ Tail(l) \in EnrolLegs
                     /\ o = "login" /\ l \in EnrolLegs => Tail(l) \in EnrolLegs
                     /\ Head(Tail(l)) \in KeyRoutes => o = "login" /\ l \in OldSignIn
                     /\ o = "login" /\ Tail(l) \in OldSignIn => l \in OldSignIn
                     /\ o = "login" /\ Tail(l) \in EnrolLegs => l \in EnrolLegs \/ Head(l) \in Effects
    /\ Len(l) = 1 /\ o \in Effects \cup {"activate", "login", "change", "delete"} => Head(l) \in Effects
    /\ l = LegacyLoginLegs => o = "login"
    /\ o = "login" => (l \in EnrolLegs <=> Head(l) \in {"pake/register", "enroll"})
    /\ Head(l) = "login" => o = "login" /\ l = LegacyLoginLegs
    /\ Head(l) \in {"pake/start", "pake/finish"} => o = "login" /\ l \notin OldSignIn
    /\ Head(l) = "activate/register" => o = "activate"
    /\ Head(l) = "logout" => o = "logout" /\ Len(l) = 1
    /\ Head(l) = "write" <=> o = "write"

LEMMA LegacyLegs ==
    /\ Head(LegacyLoginLegs) = "login"
    /\ \A l \in EnrolLegs : Head(l) \in {"pake/register", "enroll"}
BY Singles, PairsOfLegs, TriplesOfLegs DEF LegacyLoginLegs, EnrolLegs

LEMMA StageFacts ==
    ASSUME NEW o \in Ops, NEW l \in Stages(o)
    PROVE  StageOK(o, l)
<1>1. CASE o \in PlainOps
  <2>1. l = <<o>>
    BY <1>1 DEF Stages, PlainOps
  <2>2. Head(l) = o /\ Len(l) = 1
    BY <1>1, <2>1, Singles DEF PlainOps
  <2>3. l # LegacyLoginLegs
    BY <1>1, <2>2, LegacyLegs DEF PlainOps
  <2>4. o \in Effects => Head(l) \in Effects
    BY <2>2
  <2> QED
    BY <1>1, <2>2, <2>3, <2>4 DEF StageOK, PlainOps
<1>2. CASE o = "activate"
  <2>0. Stages(o) = ActivateStages
    BY <1>2 DEF Stages
  <2>1. CASE l = <<"activate/register", "activate">>
    <3>1. Head(l) = "activate/register" /\ Len(l) = 2 /\ Len(l) # 1 /\ Tail(l) = <<"activate">>
          /\ Head(Tail(l)) = "activate"
      BY <2>1, Singles, PairsOfLegs, TriplesOfLegs
    <3>2. Tail(l) \in Stages(o) /\ Tail(l) # LegacyLoginLegs /\ l # LegacyLoginLegs
      BY <2>0, <3>1, LegacyLegs DEF ActivateStages
    <3> QED
      BY <1>2, <3>1, <3>2 DEF StageOK, Effects, KeyRoutes
  <2>2. CASE l = <<"activate">> \/ l = <<"activate legacy">>
    <3>1. Head(l) \in {"activate", "activate legacy"} /\ Len(l) = 1
      BY <2>2, Singles, PairsOfLegs, TriplesOfLegs
    <3>2. l # LegacyLoginLegs
      BY <3>1, LegacyLegs
    <3> QED
      BY <1>2, <3>1, <3>2 DEF StageOK, Effects
  <2> QED
    BY <2>0, <2>1, <2>2 DEF ActivateStages, ActivateLegs
<1>3. CASE o = "login"
  <2>0. Stages(o) = LoginStages
    BY <1>3 DEF Stages
  <2>1. CASE l = <<"pake/start", "pake/finish">>
    <3>1. Head(l) = "pake/start" /\ Len(l) = 2 /\ Len(l) # 1 /\ Tail(l) = <<"pake/finish">>
          /\ Head(Tail(l)) = "pake/finish" /\ Len(Tail(l)) = 1
      BY <2>1, Singles, PairsOfLegs, TriplesOfLegs
    <3>2. Tail(l) \in Stages(o) /\ Tail(l) \notin OldSignIn /\ l \notin OldSignIn
      BY <2>0, <3>1 DEF LoginStages, OldSignIn, LegacyLoginLegs, EnrolLegs
    <3> QED
      BY <1>3, <3>1, <3>2 DEF StageOK, OldSignIn, Effects, KeyRoutes
  <2>2. CASE l = <<"pake/finish">>
    <3>1. Head(l) = "pake/finish" /\ Len(l) = 1
      BY <2>2, Singles, PairsOfLegs, TriplesOfLegs
    <3>2. l \notin OldSignIn
      BY <3>1 DEF OldSignIn, LegacyLoginLegs, EnrolLegs
    <3> QED
      BY <1>3, <3>1, <3>2 DEF StageOK, OldSignIn, Effects
  <2>3. CASE l = LegacyLoginLegs
    <3>1. Head(l) = "login" /\ Len(l) = 3 /\ Len(l) # 1 /\ Tail(l) = <<"pake/register", "enroll">>
          /\ Head(Tail(l)) = "pake/register" /\ Len(Tail(l)) = 2
      BY <2>3, Singles, PairsOfLegs, TriplesOfLegs DEF LegacyLoginLegs
    <3>2. Tail(l) \in EnrolLegs /\ Tail(l) # LegacyLoginLegs /\ l \notin EnrolLegs /\ l \in OldSignIn
      BY <2>3, <3>1 DEF OldSignIn, LegacyLoginLegs, EnrolLegs
    <3>3. Tail(l) \in Stages(o)
      BY <2>0, <3>2 DEF LoginStages, OldSignIn
    <3> QED
      BY <1>3, <2>3, <3>1, <3>2, <3>3 DEF StageOK, Effects, KeyRoutes
  <2>4. CASE l = <<"pake/register", "enroll">>
    <3>1. Head(l) = "pake/register" /\ Len(l) = 2 /\ Len(l) # 1 /\ Tail(l) = <<"enroll">>
          /\ Head(Tail(l)) = "enroll" /\ Len(Tail(l)) = 1
      BY <2>4, Singles, PairsOfLegs, TriplesOfLegs
    <3>2. l \in EnrolLegs /\ l \in OldSignIn /\ Tail(l) \in EnrolLegs /\ Tail(l) # LegacyLoginLegs /\ l # LegacyLoginLegs
      BY <2>4, <3>1 DEF OldSignIn, LegacyLoginLegs, EnrolLegs
    <3>3. Tail(l) \in Stages(o)
      BY <2>0, <3>2 DEF LoginStages, OldSignIn
    <3> QED
      BY <1>3, <3>1, <3>2, <3>3 DEF StageOK, Effects
  <2>5. CASE l = <<"enroll">>
    <3>1. Head(l) = "enroll" /\ Len(l) = 1
      BY <2>5, Singles, PairsOfLegs, TriplesOfLegs
    <3>2. l \in EnrolLegs /\ l # LegacyLoginLegs
      BY <2>5, <3>1 DEF LegacyLoginLegs, EnrolLegs
    <3> QED
      BY <1>3, <3>1, <3>2 DEF StageOK, Effects
  <2> QED
    BY <2>0, <2>1, <2>2, <2>3, <2>4, <2>5 DEF LoginStages, LoginLegs, OldSignIn, EnrolLegs
<1>4. CASE o = "change"
  <2>0. Stages(o) = ChangeStages
    BY <1>4 DEF Stages
  <2>1. CASE l = <<"pake/reauth", "pake/register", "credentials">>
    <3>1. Head(l) = "pake/reauth" /\ Len(l) = 3 /\ Len(l) # 1 /\ Tail(l) = <<"pake/register", "credentials">>
          /\ Head(Tail(l)) = "pake/register" /\ Len(Tail(l)) = 2
      BY <2>1, Singles, PairsOfLegs, TriplesOfLegs
    <3>2. Tail(l) \in Stages(o) /\ Tail(l) # LegacyLoginLegs /\ l # LegacyLoginLegs
      BY <2>0, <3>1, LegacyLegs DEF ChangeStages
    <3> QED
      BY <1>4, <3>1, <3>2 DEF StageOK, Effects, KeyRoutes
  <2>2. CASE l = <<"pake/register", "credentials">>
    <3>1. Head(l) = "pake/register" /\ Len(l) = 2 /\ Len(l) # 1 /\ Tail(l) = <<"credentials">>
          /\ Head(Tail(l)) = "credentials" /\ Len(Tail(l)) = 1
      BY <2>2, Singles, PairsOfLegs, TriplesOfLegs
    <3>2. Tail(l) \in Stages(o) /\ Tail(l) # LegacyLoginLegs /\ l # LegacyLoginLegs
      BY <2>0, <3>1, LegacyLegs DEF ChangeStages
    <3> QED
      BY <1>4, <3>1, <3>2 DEF StageOK, Effects, KeyRoutes
  <2>3. CASE l = <<"credentials">> \/ l = <<"credentials legacy">>
    <3>1. Head(l) \in {"credentials", "credentials legacy"} /\ Len(l) = 1
      BY <2>3, Singles, PairsOfLegs, TriplesOfLegs
    <3>2. l # LegacyLoginLegs
      BY <3>1, LegacyLegs
    <3> QED
      BY <1>4, <3>1, <3>2 DEF StageOK, Effects
  <2> QED
    BY <2>0, <2>1, <2>2, <2>3 DEF ChangeStages
<1>5. CASE o = "delete"
  <2>0. Stages(o) = DeleteStages
    BY <1>5 DEF Stages
  <2>1. CASE l = <<"pake/reauth", "erase">>
    <3>1. Head(l) = "pake/reauth" /\ Len(l) = 2 /\ Len(l) # 1 /\ Tail(l) = <<"erase">>
          /\ Head(Tail(l)) = "erase" /\ Len(Tail(l)) = 1
      BY <2>1, Singles, PairsOfLegs, TriplesOfLegs
    <3>2. Tail(l) \in Stages(o) /\ Tail(l) # LegacyLoginLegs /\ l # LegacyLoginLegs
      BY <2>0, <3>1, LegacyLegs DEF DeleteStages
    <3> QED
      BY <1>5, <3>1, <3>2 DEF StageOK, Effects, KeyRoutes
  <2>2. CASE l = <<"erase">> \/ l = <<"erase legacy">>
    <3>1. Head(l) \in {"erase", "erase legacy"} /\ Len(l) = 1
      BY <2>2, Singles, PairsOfLegs, TriplesOfLegs
    <3>2. l # LegacyLoginLegs
      BY <3>1, LegacyLegs
    <3> QED
      BY <1>5, <3>1, <3>2 DEF StageOK, Effects
  <2> QED
    BY <2>0, <2>1, <2>2 DEF DeleteStages
<1> QED
  BY <1>1, <1>2, <1>3, <1>4, <1>5 DEF Ops

LEMMA TuplesAreSeqs ==
    ASSUME NEW S
    PROVE  /\ \A a \in S : <<a>> \in Seq(S)
           /\ \A a, b \in S : <<a, b>> \in Seq(S)
           /\ \A a, b, c \in S : <<a, b, c>> \in Seq(S)
OBVIOUS

LEMMA StagesAreSeqs ==
    ASSUME NEW o \in Ops, NEW l \in Stages(o)
    PROVE  l \in Seq(Routes)
<1>1. {"activate/register", "activate", "activate legacy", "pake/start", "pake/finish", "login",
       "pake/register", "enroll", "pake/reauth", "credentials", "credentials legacy", "erase",
       "erase legacy"} \subseteq Routes
  BY DEF Routes, PakeRoutes, KeyRoutes, Effects
<1>2. CASE o \in PlainOps
  <2>1. l = <<o>> /\ o \in Routes
    BY <1>2 DEF Stages, PlainOps, Routes
  <2> QED
    BY <2>1, TuplesAreSeqs
<1> HIDE DEF Routes
<1>3. CASE o = "activate"
  BY <1>1, <1>3, TuplesAreSeqs DEF Stages, ActivateStages, ActivateLegs
<1>4. CASE o = "login"
  <2>1. l \in {LoginLegs, <<"pake/finish">>, LegacyLoginLegs, <<"pake/register", "enroll">>, <<"enroll">>}
    BY <1>4 DEF Stages, LoginStages, OldSignIn, EnrolLegs
  <2>2. LoginLegs \in Seq(Routes) /\ LegacyLoginLegs \in Seq(Routes)
    BY <1>1, TuplesAreSeqs DEF LoginLegs, LegacyLoginLegs
  <2>3. <<"pake/finish">> \in Seq(Routes) /\ <<"pake/register", "enroll">> \in Seq(Routes) /\ <<"enroll">> \in Seq(Routes)
    BY <1>1, TuplesAreSeqs
  <2> QED
    BY <2>1, <2>2, <2>3
<1>5. CASE o = "change"
  BY <1>1, <1>5, TuplesAreSeqs, ZenonT(40) DEF Stages, ChangeStages
<1>6. CASE o = "delete"
  BY <1>1, <1>6, TuplesAreSeqs DEF Stages, DeleteStages
<1> QED
  BY <1>2, <1>3, <1>4, <1>5, <1>6 DEF Ops

LEMMA FirstLegs ==
    ASSUME NEW o \in Ops, NEW pake \in BOOLEAN
    PROVE  /\ Legs(o, pake) \in Stages(o)
           /\ Legs(o, pake) # LegacyLoginLegs
           /\ o = "login" => Legs(o, pake) \notin OldSignIn
           /\ Head(Legs(o, pake)) \in KeyRoutes => ~pake
<1> DEFINE l == Legs(o, pake)
<1>1. CASE o \in PlainOps
  <2>1. l = <<o>> /\ Stages(o) = {<<o>>} /\ Head(l) = o
    BY <1>1, Singles DEF Legs, Stages, PlainOps
  <2> QED
    BY <1>1, <2>1, LegacyLegs DEF PlainOps, KeyRoutes
<1>2. CASE o = "activate"
  <2>1. l = ActivateLegs /\ Stages(o) = ActivateStages
    BY <1>2 DEF Legs, Stages
  <2>2. Head(l) = "activate/register"
    BY <2>1, PairsOfLegs DEF ActivateLegs
  <2> QED
    BY <1>2, <2>1, <2>2, LegacyLegs DEF ActivateStages, KeyRoutes
<1>3. CASE o = "login"
  <2>1. l = LoginLegs /\ Stages(o) = LoginStages
    BY <1>3 DEF Legs, Stages
  <2>2. Head(l) = "pake/start"
    BY <2>1, PairsOfLegs DEF LoginLegs
  <2> QED
    BY <1>3, <2>1, <2>2, LegacyLegs DEF LoginStages, KeyRoutes, OldSignIn
<1>4. CASE o = "change"
  <2>1. l = ChangeLegs(pake) /\ Stages(o) = ChangeStages
    BY <1>4 DEF Legs, Stages
  <2>2. l \in ChangeStages /\ Head(l) \in {"pake/reauth", "credentials legacy"} /\ (pake => Head(l) = "pake/reauth")
    <3>1. CASE pake = TRUE
      <4>1. l = <<"pake/reauth", "pake/register", "credentials">>
        BY <2>1, <3>1 DEF ChangeLegs
      <4> QED
        BY <4>1, TriplesOfLegs DEF ChangeStages
    <3>2. CASE pake = FALSE
      <4>1. l = <<"credentials legacy">>
        BY <2>1, <3>2 DEF ChangeLegs
      <4>2. Head(l) = "credentials legacy"
        BY <4>1, Singles
      <4>3. l \in ChangeStages
        BY <4>1 DEF ChangeStages
      <4> QED
        BY <3>2, <4>2, <4>3
    <3> QED
      BY <3>1, <3>2
  <2> QED
    BY <1>4, <2>1, <2>2, LegacyLegs DEF KeyRoutes
<1>5. CASE o = "delete"
  <2>1. l = DeleteLegs(pake) /\ Stages(o) = DeleteStages
    BY <1>5 DEF Legs, Stages
  <2>2. l \in DeleteStages /\ Head(l) \in {"pake/reauth", "erase legacy"} /\ (pake => Head(l) = "pake/reauth")
    BY <2>1, Singles, PairsOfLegs, ZenonT(40) DEF DeleteLegs, DeleteStages
  <2> QED
    BY <1>5, <2>1, <2>2, LegacyLegs DEF KeyRoutes
<1> QED
  BY <1>1, <1>2, <1>3, <1>4, <1>5 DEF Ops

-----------------------------------------------------------------------------
(* What an answer tells, and the answers of the server                      *)

LEMMA OutcomeFacts ==
    ASSUME NEW route, NEW r
    PROVE  /\ Outcome(route, r) = "ok" => r.status = 200 \/ route = "logout"
           /\ r.code = "lost" => Outcome(route, r) = "unavailable"
           /\ r.code = "" /\ r.status \in {502, 504} => Outcome(route, r) = "unavailable"
           /\ Outcome(route, r) \in Outcomes
<1>1. ErrorFor(r.status) \in Outcomes \ {"ok"}
  BY DEF ErrorFor, Outcomes
<1>2. ErrorFrom(r.status, r.code) \in Outcomes \ {"ok"}
  BY <1>1 DEF ErrorFrom, Outcomes
<1>3. Accepts(route, r) \in {"ok", "protocol", "too_large"}
  BY DEF Accepts
<1>4. Outcome(route, r) \in Outcomes
  <2> DEFINE e == ErrorFrom(r.status, r.code)
             t == Accepts(route, r)
  <2>1. e \in Outcomes /\ t \in Outcomes /\ {"ok", "unavailable", "unsupported", "conflict", "protocol"} \subseteq Outcomes
    BY <1>2, <1>3 DEF Outcomes
  <2> HIDE DEF e, t
  <2>2. Outcome(route, r) \in {e, t, "ok", "unavailable", "unsupported", "conflict", "protocol"}
    BY DEF Outcome, e, t
  <2> QED
    BY <2>1, <2>2
<1>7. Outcome(route, r) = "ok" => r.status = 200 \/ route = "logout"
  <2> SUFFICES ASSUME r.status # 200, route # "logout" PROVE Outcome(route, r) # "ok"
    OBVIOUS
  <2>1. ErrorFrom(r.status, r.code) # "ok"
    BY <1>2
  <2> QED
    BY <2>1 DEF Outcome
<1>5. r.code = "lost" => Outcome(route, r) = "unavailable"
  BY DEF Outcome
<1>6. ASSUME r.code = "", r.status \in {502, 504} PROVE Outcome(route, r) = "unavailable"
  <2>1. \A s \in {502, 504} : ErrorFor(s) = "unavailable"
    BY DEF ErrorFor
  <2>2. ErrorFrom(r.status, r.code) = "unavailable"
    BY <1>6, <2>1, ZenonT(40) DEF ErrorFrom
  <2>3. r.status # 200 /\ r.status # 401 /\ r.status # 404 /\ r.status # 409
    <3>1. CASE r.status = 502
      <4>1. 502 # 200 /\ 502 # 401 /\ 502 # 404 /\ 502 # 409
        OBVIOUS
      <4> QED
        BY <3>1, <4>1
    <3>2. CASE r.status = 504
      <4>1. 504 # 200 /\ 504 # 401 /\ 504 # 404 /\ 504 # 409
        OBVIOUS
      <4> QED
        BY <3>2, <4>1
    <3> QED
      BY <1>6, <3>1, <3>2
  <2> QED
    BY <1>6, <2>2, <2>3, ZenonT(40) DEF Outcome
<1> QED
  BY <1>4, <1>5, <1>6, <1>7, ZenonT(40)

LEMMA Base64Grows ==
    ASSUME NEW n \in Nat, NEW m \in Nat, n <= m
    PROVE  Base64(n) \in Nat /\ Base64(n) <= Base64(m)
BY DEF Base64

\* A page holds a batch and a few bytes more per row.
LEMMA PagesFit ==
    ASSUME NEW b, StoredFits(b)
    PROVE  /\ PageBytes(b) \in Nat /\ PageBytes(b) <= MaxResponseBytes
           /\ PageBytes([b EXCEPT !.n = 1]) <= MaxResponseBytes /\ PageBytes([b EXCEPT !.n = 1]) \in Nat
           /\ BlobFits(b.overview) /\ BlobFits(b.details)
<1> DEFINE x == Base64(b.overview) + Base64(b.details)
<1>1. /\ b.n \in Nat /\ b.n >= 1 /\ b.n <= 500 /\ b.overview \in Nat /\ b.details \in Nat
      /\ b.overview <= MaxBlobBytes /\ b.details <= MaxBlobBytes
  BY DEF StoredFits, Storable, MaxChanges
<1>2. Base64(b.overview) \in Nat /\ Base64(b.overview) <= Base64(MaxBlobBytes)
      /\ Base64(b.details) \in Nat /\ Base64(b.details) <= Base64(MaxBlobBytes)
  BY <1>1, Base64Grows DEF MaxBlobBytes
<1>3. x \in Nat
  BY <1>2
<1>4. BodyBytes(b) = b.n * (x + 90) /\ PageBytes(b) = b.n * (x + 256)
  BY <1>2 DEF BodyBytes, PageBytes, RequestRowBytes, RowJsonBytes
<1>5. PageBytes([b EXCEPT !.n = 1]) = x + 256
  <2>1. [b EXCEPT !.n = 1].n = 1 /\ [b EXCEPT !.n = 1].overview = b.overview /\ [b EXCEPT !.n = 1].details = b.details
    BY DEF StoredFits, Storable
  <2> QED
    BY <1>2, <1>3, <2>1 DEF PageBytes, RowJsonBytes
<1>6. BodyBytes(b) <= 16777216
  BY DEF StoredFits, MaxBodyBytes
<1> HIDE DEF x
<1>7. \A n \in Nat, y \in Nat : n >= 1 => n * (y + 90) \in Nat /\ n * (y + 256) = n * (y + 90) + 166 * n /\ n * (y + 90) >= y + 90
  <2>1. \A n, y \in Nat : n * (y + 90) \in Nat /\ n * (y + 256) = n * (y + 90) + 166 * n
    OBVIOUS
  <2>2. \A n, y \in Nat : n >= 1 => n * (y + 90) >= y + 90
    <3> SUFFICES ASSUME NEW n \in Nat, NEW y \in Nat, n >= 1 PROVE n * (y + 90) >= y + 90
      OBVIOUS
    <3>1. n * (y + 90) = (n - 1) * (y + 90) + (y + 90)
      OBVIOUS
    <3>2. (n - 1) * (y + 90) \in Nat
      OBVIOUS
    <3> QED
      BY <3>1, <3>2
  <2> QED
    BY <2>1, <2>2
<1>8. PageBytes(b) = BodyBytes(b) + 166 * b.n /\ BodyBytes(b) \in Nat /\ BodyBytes(b) >= x + 90
  BY <1>1, <1>3, <1>4, <1>7
<1>9. PageBytes(b) \in Nat /\ PageBytes(b) <= 17825792 /\ x + 256 <= 17825792 /\ x + 256 \in Nat
  BY <1>1, <1>3, <1>6, <1>8
<1>10. Base64(MaxBlobBytes) = (MaxBlobBytes \div 3) * 4 + 4
  BY DEF Base64, MaxBlobBytes
<1>11. BlobFits(b.overview) /\ BlobFits(b.details)
  BY <1>1, <1>2, <1>10 DEF BlobFits
<1> QED
  BY <1>5, <1>9, <1>11 DEF MaxResponseBytes

LEMMA Status200 ==
    ASSUME NEW r, r.status = 200
    PROVE  r.status # 401 /\ r.status # 404 /\ r.status # 409
OBVIOUS

\* An answer with status 200 is read for what it holds.
LEMMA FineOutcome ==
    ASSUME NEW route, NEW r, r.status = 200, r.code # "lost",
           r.status # 401 /\ r.status # 404 /\ r.status # 409
    PROVE  Outcome(route, r) = IF route = "health" \/ route \in StatusOnly THEN "ok" ELSE Accepts(route, r)
<1>4. CASE route = "health"
  BY <1>4 DEF Outcome
<1>5. CASE route # "health"
  BY <1>5 DEF Outcome
<1> QED
  BY <1>4, <1>5

\* The shortest and the longest header a server may hold are both taken.
LEMMA HeaderEnds == HeaderOK(1) /\ HeaderOK(65536)
<1>1. 1 \in 1..65536 /\ 65536 \in 1..65536
  BY SMTT(30)
<1>2. MaxHeaderBytes = 65536
  BY SMTT(30) DEF MaxHeaderBytes
<1> QED
  BY <1>1, <1>2, SMTT(30) DEF HeaderOK

\* Whatever the server may answer with, the client takes, long places aside.
LEMMA AnswersRead ==
    ASSUME RequestTyped, NEW route, NEW len \in Lens(route)
    PROVE  ReadAs(route, Fine(len, AnswerBytes(route, len)), Outcome(route, Fine(len, AnswerBytes(route, len))))
<1> DEFINE n == AnswerBytes(route, len)
           r == Fine(len, n)
<1>1. r.len = len /\ r.bytes = n
  BY DEF Fine
<1>s. r.status = 200
  BY DEF Fine
<1>c. r.code # "lost"
  BY DEF Fine
<1> HIDE DEF n, r
<1>t. r.status # 401 /\ r.status # 404 /\ r.status # 409
  BY <1>s, Status200
<1>2. SUFFICES ASSUME route \notin StatusOnly, route # "health"
               PROVE  Accepts(route, r) = "ok" \/ (LongPlace(route, r) /\ Accepts(route, r) = "protocol")
  <2>1. Outcome(route, r) = IF route = "health" \/ route \in StatusOnly THEN "ok" ELSE Accepts(route, r)
    BY <1>s, <1>c, <1>t, FineOutcome
  <2> QED
    BY <2>1 DEF r, n, ReadAs
<1>n. \A m \in Nat : m <= MaxResponseBytes => ~(m > MaxResponseBytes)
  BY DEF MaxResponseBytes
<1>3. CASE route \in {"pake/start", "pake/reauth", "pake/finish", "login", "claim"}
  <2>1. len = 43
    BY <1>3 DEF Lens
  <2>2. n = RowJsonBytes \/ n = Base64(MaxEnvelopeBytes) + RowJsonBytes
    BY <1>3 DEF AnswerBytes, n
  <2>3. n \in Nat /\ n <= MaxResponseBytes
    BY <2>2 DEF RowJsonBytes, Base64, MaxEnvelopeBytes, MaxResponseBytes
  <2> QED
    <3>1. ~(n > MaxResponseBytes)
      BY <1>n, <2>3
    <3>2. IdOK(len) /\ TokenOK(len)
      BY <2>1 DEF IdOK, TokenOK
    <3> QED
      BY <1>1, <1>3, <3>1, <3>2 DEF Accepts
<1>4. CASE route = "header"
  <2>1. len \in {1, MaxHeaderBytes}
    BY <1>4 DEF Lens
  <2>2. n = Base64(len) + RowJsonBytes
    BY <1>4 DEF AnswerBytes, n
  <2>3. n \in Nat /\ n <= MaxResponseBytes /\ HeaderOK(len)
    <3>0. MaxHeaderBytes = 65536
      BY SMTT(30) DEF MaxHeaderBytes
    <3>a. len \in {1, 65536}
      BY <2>1, <3>0, SMTT(30)
    <3>1. len \in {1, 65536} /\ HeaderOK(len)
      BY <3>a, HeaderEnds, SMTT(30)
    <3>2. Base64(1) = 4 /\ Base64(65536) = 87384
      BY SMTT(20) DEF Base64
    <3>3. n = 4 + 256 \/ n = 87384 + 256
      BY <2>2, <3>1, <3>2, SMTT(20) DEF RowJsonBytes
    <3> HIDE DEF n
    <3> QED
      BY <3>1, <3>3, SMTT(20) DEF MaxResponseBytes
  <2> QED
    <3>1. ~(n > MaxResponseBytes)
      BY <1>n, <2>3
    <3> QED
      BY <1>1, <1>4, <2>3, <3>1 DEF Accepts
<1>5. CASE route = "details"
  <2>1. len \in {0, 64} \cup LocationChars
    BY <1>5 DEF Lens
  <2>2. n = RowJsonBytes
    BY <1>5 DEF AnswerBytes, n
  <2>3. n \in Nat /\ n <= MaxResponseBytes
    BY <2>2 DEF RowJsonBytes, MaxResponseBytes
  <2>4. LongPlace(route, r) <=> ~DetailsOK(len)
    BY <1>1, <1>5 DEF LongPlace
  <2> QED
    <3>1. ~(n > MaxResponseBytes)
      BY <1>n, <2>3
    <3> QED
      BY <1>1, <1>5, <2>4, <3>1 DEF Accepts
<1>6. CASE route = "get"
  <2>1. len = MaxAttachmentBlobBytes
    BY <1>6 DEF Lens
  <2>2. n = Base64(len) + RowJsonBytes
    BY <1>6 DEF AnswerBytes, n
  <2>3. n \in Nat /\ n <= MaxResponseBytes /\ BlobFits(len)
    BY <2>1, <2>2 DEF RowJsonBytes, Base64, MaxAttachmentBlobBytes, MaxResponseBytes, BlobFits, MaxBlobBytes
  <2> QED
    <3>1. ~(n > MaxResponseBytes)
      BY <1>n, <2>3
    <3> QED
      BY <1>1, <1>6, <2>3, <3>1 DEF Accepts
<1>7. CASE route \in {"pull", "fetch"}
  <2>0. len = 0 \/ (stored # NoOp /\ len = stored.n)
    BY <1>7 DEF Lens
  <2>1. CASE len = 0
    <3>1. n = RowJsonBytes
      BY <1>7, <2>1 DEF AnswerBytes, n
    <3>2. n \in Nat /\ n <= MaxResponseBytes /\ RowsOK(len) /\ BlobsOK(len)
      BY <2>1, <3>1 DEF RowJsonBytes, MaxResponseBytes, RowsOK, BlobsOK, MaxChanges
    <3>3. ~(n > MaxResponseBytes)
      BY <1>n, <3>2
    <3> QED
      BY <1>1, <1>7, <3>2, <3>3 DEF Accepts
  <2>2. CASE stored # NoOp /\ len = stored.n
    <3>1. StoredFits(stored)
      BY <2>2 DEF RequestTyped
    <3>2. len \in Nat /\ len >= 1 /\ len <= MaxChanges
      BY <2>2, <3>1 DEF StoredFits, Storable, MaxChanges
    <3>3. /\ PageBytes(stored) \in Nat /\ PageBytes(stored) <= MaxResponseBytes
          /\ PageBytes([stored EXCEPT !.n = 1]) <= MaxResponseBytes /\ PageBytes([stored EXCEPT !.n = 1]) \in Nat
          /\ BlobFits(stored.overview) /\ BlobFits(stored.details)
      BY <3>1, PagesFit
    <3>4. n \in {PageBytes(stored), PageBytes([stored EXCEPT !.n = 1]), MaxPageBytes}
      BY <1>7, <3>2 DEF AnswerBytes, n
    <3>5. MaxPageBytes \in Nat /\ MaxPageBytes <= MaxResponseBytes
      BY DEF MaxPageBytes, MaxResponseBytes
    <3>6. n \in Nat /\ n <= MaxResponseBytes /\ RowsOK(len) /\ BlobsOK(len) /\ MaxResponseBytes \in Nat
      BY <3>2, <3>3, <3>4, <3>5 DEF RowsOK, BlobsOK, MaxResponseBytes
    <3>7. ~(n > MaxResponseBytes)
      BY <1>n, <3>6
    <3> QED
      BY <1>1, <1>7, <3>6, <3>7 DEF Accepts
  <2> QED
    BY <2>0, <2>1, <2>2
<1>8. CASE route \notin {"pake/start", "pake/reauth", "pake/finish", "login", "claim", "header", "details", "get", "pull", "fetch"}
  <2>1. n = RowJsonBytes
    BY <1>8 DEF AnswerBytes, n
  <2>2. n \in Nat /\ n <= MaxResponseBytes
    BY <2>1 DEF RowJsonBytes, MaxResponseBytes
  <2> QED
    <3>1. ~(n > MaxResponseBytes)
      BY <1>n, <2>2
    <3> QED
      BY <1>1, <1>8, <2>2, <3>1 DEF Accepts
<1> QED
  BY <1>3, <1>4, <1>5, <1>6, <1>7, <1>8

LEMMA InitRequests ==
    ASSUME RequestInit
    PROVE  RequestInv
<1>1. RequestTyped /\ OperationInv /\ OutcomesAreTrue /\ AnswersAreRead
  BY DEF RequestInit, RequestTyped, OperationInv, OutcomesAreTrue, AnswersAreRead
<1>2. EffectInv /\ ReplyInv
  BY DEF RequestInit, EffectInv, ReplyInv
<1> QED
  BY <1>1, <1>2 DEF RequestInv

\* The answers there are, by what they tell.
LEMMA FineReply ==
    ASSUME NEW len, NEW n
    PROVE  Honest(Fine(len, n)) /\ ~Understood(Fine(len, n)) /\ Fine(len, n) # NoReply
<1>1. Fine(len, n).status = 200 /\ NoReply.status = 0
  BY DEF Fine, NoReply
<1> QED
  BY <1>1 DEF Honest, Understood

LEMMA ReplyParts ==
    ASSUME NEW s, NEW c
    PROVE  Refusal(s, c).status = s /\ Refusal(s, c).code = c
BY DEF Refusal

OpenStatus == {0, 502, 504}
LEMMA NoReplyKind ==
    ~Honest(NoReply)
BY DEF Honest, NoReply

LEMMA OpenKind ==
    ASSUME NEW s \in OpenStatus, NEW c
    PROVE  ~Honest(Refusal(s, c)) /\ ~Understood(Refusal(s, c)) /\ Refusal(s, c) # NoReply
<1>1. Refusal(s, c).status = s
  BY ReplyParts
<1>2. Refusal(s, c).bytes = 100 /\ NoReply.bytes = 0
  BY DEF Refusal, NoReply
<1>3. Refusal(s, c) # NoReply
  BY <1>2
<1> QED
  BY <1>1, <1>3 DEF Honest, Understood, OpenStatus

LEMMA GatewayOutcome ==
    ASSUME NEW route, NEW s, s # 200 /\ s # 401 /\ s # 404 /\ s # 409, ErrorFrom(s, "") = "unavailable"
    PROVE  Outcome(route, Refusal(s, "")) = "unavailable"
<1> DEFINE r == Refusal(s, "")
<1>1. r.status = s
  BY ReplyParts, ZenonT(40)
<1>2. r.code = ""
  BY ReplyParts, ZenonT(40)
<1> HIDE DEF r
<1>3. r.status # 200 /\ r.status # 401 /\ r.status # 404 /\ r.status # 409
  BY <1>1
<1>4. ErrorFrom(r.status, r.code) = "unavailable"
  BY <1>1, <1>2
<1>5. Outcome(route, r) = "unavailable"
  BY <1>3, <1>4, ZenonT(40) DEF Outcome
<1> QED
  BY <1>5 DEF r

Gateway == {502, 504}

LEMMA GatewayStatus ==
    ASSUME NEW s \in Gateway
    PROVE  s # 200 /\ s # 401 /\ s # 404 /\ s # 409 /\ ErrorFrom(s, "") = "unavailable"
<1>1. s # 200 /\ s # 401 /\ s # 404 /\ s # 409
  BY DEF Gateway
<1>2. ErrorFor(s) = "unavailable"
  BY DEF ErrorFor, Gateway
<1>3. ErrorFrom(s, "") = "unavailable"
  BY <1>2 DEF ErrorFrom
<1> QED
  BY <1>1, <1>3

LEMMA GatewayReply ==
    ASSUME NEW route, NEW s \in Gateway
    PROVE  Outcome(route, Refusal(s, "")) = "unavailable"
<1>1. s # 200 /\ s # 401 /\ s # 404 /\ s # 409
  BY DEF Gateway
<1>2. ErrorFrom(s, "") = "unavailable"
  BY GatewayStatus, Zenon
<1> QED
  BY <1>1, <1>2, GatewayOutcome, Zenon

LEMMA LostReply ==
    ASSUME NEW route
    PROVE  Outcome(route, Refusal(0, "lost")) = "unavailable"
<1>1. Refusal(0, "lost").code = "lost"
  BY ReplyParts
<1> QED
  BY <1>1 DEF Outcome

Open(route, r) == ~Honest(r) /\ ~Understood(r) /\ r # NoReply /\ Outcome(route, r) = "unavailable"

LEMMA OpenReply ==
    ASSUME NEW route
    PROVE  /\ Open(route, Refusal(0, "lost"))
           /\ \A s \in Gateway : Open(route, Refusal(s, ""))
<1>1. Open(route, Refusal(0, "lost"))
  <2>1. ~Honest(Refusal(0, "lost")) /\ ~Understood(Refusal(0, "lost")) /\ Refusal(0, "lost") # NoReply
    <3>1. 0 \in OpenStatus
      BY DEF OpenStatus
    <3> QED
      BY <3>1, OpenKind
  <2> QED
    BY <2>1, LostReply DEF Open
<1>2. ASSUME NEW s \in Gateway PROVE Open(route, Refusal(s, ""))
  <2>1. s \in OpenStatus
    BY DEF Gateway, OpenStatus
  <2>2. ~Honest(Refusal(s, "")) /\ ~Understood(Refusal(s, "")) /\ Refusal(s, "") # NoReply
    BY <2>1, OpenKind, Zenon
  <2>3. Outcome(route, Refusal(s, "")) = "unavailable"
    BY GatewayReply
  <2> QED
    BY <2>2, <2>3, Zenon DEF Open
<1> QED
  BY <1>1, <1>2

LEMMA RefusedReply ==
    ASSUME NEW s \in Nat, s \notin {0, 200, 502, 504}, NEW c
    PROVE  Understood(Refusal(s, c)) /\ ~Honest(Refusal(s, c)) /\ Refusal(s, c) # NoReply
<1>1. Refusal(s, c).status = s /\ NoReply.status = 0
  BY DEF Refusal, NoReply
<1> QED
  BY <1>1 DEF Honest, Understood

LEMMA NotFoundIs404 ==
    ASSUME NEW s \in Nat, NEW c, Outcome("activate/register", Refusal(s, c)) = "not found"
    PROVE  s = 404
<1> DEFINE r == Refusal(s, c)
<1>1. r.status = s
  BY DEF Refusal
<1>2. r.code = c
  BY DEF Refusal
<1> HIDE DEF r
<1>3. Accepts("activate/register", r) # "not found"
  BY DEF Accepts
<1>4. ErrorFrom(r.status, r.code) = "not found"
  BY <1>3 DEF Outcome, r
<1>5. ErrorFrom(s, c) = "not found"
  BY <1>1, <1>2, <1>4, Zenon
<1>6. ErrorFor(s) = "not found"
  BY <1>5 DEF ErrorFrom
<1> QED
  BY <1>6, ZenonT(40) DEF ErrorFor

LEMMA OutcomeSteady ==
    ASSUME stored' = stored, op' = op
    PROVE  Outcome(Route, reply)' = Outcome(Route, reply')
BY DEF Outcome, Accepts, BlobsOK, Route

TurnedDown(route, r) == Understood(r) /\ ~Honest(r) /\ r # NoReply /\ (route = "activate/register" => Outcome(route, r) # "not found")

\* The statuses of a refusal that is understood.
Told == Nat \ {0, 200, 502, 504}

LEMMA ToldKind ==
    ASSUME NEW s \in Told, NEW c
    PROVE  Understood(Refusal(s, c)) /\ ~Honest(Refusal(s, c)) /\ Refusal(s, c) # NoReply
BY RefusedReply DEF Told

LEMMA ToldIsRefused ==
    ASSUME NEW route, NEW s \in Told, s # 404, NEW c
    PROVE  TurnedDown(route, Refusal(s, c))
<1>1. Understood(Refusal(s, c)) /\ ~Honest(Refusal(s, c)) /\ Refusal(s, c) # NoReply
  BY ToldKind
<1>2. s \in Nat
  BY DEF Told
<1>3. Outcome("activate/register", Refusal(s, c)) # "not found"
  BY <1>2, NotFoundIs404
<1> QED
  BY <1>1, <1>3 DEF TurnedDown

LEMMA HandlerRefuses ==
    ASSUME NEW route, NEW e \in Refusals(route)
    PROVE  TurnedDown(route, Refusal(Status[e], e))
<1>1. Status[e] \in Told /\ (e # "not_found" => Status[e] # 404)
  <2>1. e \in {"unauthorized", "not_found", "conflict", "invalid_request", "too_large", "vault_full", "attachments_full",
             "rate_limited", "account_deleted", "account_frozen", "unavailable", "upgrade_required", "internal"}
    BY DEF Refusals
  <2>2. /\ Status.unauthorized \in Told /\ Status.unauthorized # 404
        /\ Status.not_found \in Told
        /\ Status.conflict \in Told /\ Status.conflict # 404
        /\ Status.invalid_request \in Told /\ Status.invalid_request # 404
        /\ Status.too_large \in Told /\ Status.too_large # 404
        /\ Status.vault_full \in Told /\ Status.vault_full # 404
        /\ Status.attachments_full \in Told /\ Status.attachments_full # 404
        /\ Status.rate_limited \in Told /\ Status.rate_limited # 404
        /\ Status.account_deleted \in Told /\ Status.account_deleted # 404
        /\ Status.account_frozen \in Told /\ Status.account_frozen # 404
        /\ Status.unavailable \in Told /\ Status.unavailable # 404
        /\ Status.upgrade_required \in Told /\ Status.upgrade_required # 404
        /\ Status.internal \in Told /\ Status.internal # 404
    BY DEF Status, Told
  <2> QED
    BY <2>1, <2>2
<1>2. CASE e # "not_found"
  BY <1>1, <1>2, ToldIsRefused
<1>3. CASE e = "not_found"
  <2>1. route # "activate/register"
    BY <1>3 DEF Refusals
  <2>2. Understood(Refusal(Status[e], e)) /\ ~Honest(Refusal(Status[e], e)) /\ Refusal(Status[e], e) # NoReply
    BY <1>1, RefusedReply DEF Told
  <2> QED
    BY <2>1, <2>2 DEF TurnedDown
<1> QED
  BY <1>2, <1>3

\* A request on its way is not answered yet: nothing was done for it.
LEMMA AnsweredOnly ==
    ASSUME RequestInv, Waiting, UNCHANGED <<site, confirmed, op, did, stored, heard>>,
           reply' # NoReply, ~Honest(reply'),
           ~Understood(reply') => Outcome(Route, reply') = "unavailable",
           Outcome(Route, reply') = "not found" /\ Route = "activate/register" => site = "old"
    PROVE  RequestInv'
<1>1. Outcome(Route, reply)' = Outcome(Route, reply') /\ Route' = Route
  BY OutcomeSteady DEF Route
<1>2. RequestTyped'
  BY DEF RequestInv, RequestTyped, Waiting, StoredFits, Storable, BodyBytes
<1>3. OperationInv'
  BY DEF RequestInv, OperationInv
<1>4. Honest(reply)' = Honest(reply') /\ Understood(reply)' = Understood(reply')
  BY DEF Honest, Understood
<1>5. EffectInv'
  BY <1>1, <1>4 DEF RequestInv, EffectInv, NotDoneYet, Enrolling, Waiting
<1>6. ReplyInv'
  BY <1>1, <1>4 DEF ReplyInv
<1>7. OutcomesAreTrue' /\ AnswersAreRead'
  BY DEF RequestInv, OutcomesAreTrue, AnswersAreRead
<1> QED
  BY <1>2, <1>3, <1>5, <1>6, <1>7 DEF RequestInv

LEMMA RefuseStep ==
    ASSUME RequestInv, Refuse
    PROVE  RequestInv'
<1>1. Waiting /\ UNCHANGED <<site, confirmed, op, did, stored, heard>>
  BY DEF Refuse
<1>2. CASE NoRoute /\ reply' = Refusal(404, "")
  <2>1. reply' # NoReply /\ ~Honest(reply') /\ Understood(reply')
    <3>1. 404 \in Told
      BY DEF Told
    <3> QED
      BY <1>2, <3>1, ToldKind, ZenonT(40)
  <2>2. site = "old"
    BY <1>2 DEF NoRoute
  <2> QED
    BY <1>1, <2>1, <2>2, AnsweredOnly
<1>3. CASE \E e \in Refusals(Route) : reply' = Refusal(Status[e], e)
  <2>1. TurnedDown(Route, reply')
    BY <1>3, HandlerRefuses
  <2> QED
    BY <1>1, <2>1, AnsweredOnly DEF TurnedDown
<1> QED
  BY <1>2, <1>3 DEF Refuse

LEMMA StoppedStep ==
    ASSUME RequestInv, Stopped
    PROVE  RequestInv'
<1> DEFINE Proxy == {403, 408, 413, 429, 503}
           Mid == {403, 408, 413, 429, 502, 503}
<1>1. Waiting /\ UNCHANGED <<site, confirmed, op, did, stored, heard>>
  BY ZenonT(40) DEF Stopped
<1>2. 502 \in Gateway /\ (\A s \in Proxy : s \in Told /\ s # 404) /\ (\A s \in Mid : s = 502 \/ s \in Proxy)
  BY DEF Gateway, Told
<1>a. reply' = Refusal(0, "lost") \/ reply' \in {Refusal(s, "") : s \in Mid}
  BY ZenonT(40) DEF Stopped
<1> HIDE DEF Proxy, Mid
<1>3. reply' = Refusal(0, "lost") \/ reply' = Refusal(502, "") \/ \E s \in Proxy : reply' = Refusal(s, "")
  BY <1>2, <1>a, ZenonT(40)
<1>4. CASE Open(Route, reply')
  BY <1>1, <1>4, AnsweredOnly DEF Open
<1>5. CASE TurnedDown(Route, reply')
  BY <1>1, <1>5, AnsweredOnly DEF TurnedDown
<1>6. ASSUME NEW s \in Proxy PROVE TurnedDown(Route, Refusal(s, ""))
  <2>1. s \in Told /\ s # 404
    BY <1>2
  <2> QED
    BY <2>1, ToldIsRefused
<1>7. Open(Route, Refusal(0, "lost")) /\ Open(Route, Refusal(502, ""))
  BY <1>2, OpenReply, ZenonT(40)
<1> QED
  BY <1>3, <1>4, <1>5, <1>6, <1>7

\* The answer to a write tells nothing of what is stored.
LEMMA WriteAnswered ==
    ASSUME NEW len \in Lens("write")
    PROVE  Outcome("write", Fine(len, AnswerBytes("write", len)))' = Outcome("write", Fine(len, AnswerBytes("write", len)))
BY DEF Outcome, Accepts, BlobsOK, AnswerBytes, Fine

LEMMA ServeStep ==
    ASSUME RequestInv, ServeRequest
    PROVE  RequestInv'
<1>1. /\ Waiting /\ CanTake /\ UNCHANGED <<site, confirmed, op, heard>> /\ op # NoOp /\ reply = NoReply
      /\ did' = did \cup ({Route} \cap Effects)
  BY DEF ServeRequest, Waiting
<1>2. Route' = Route
  BY <1>1 DEF Route
<1>3. op.of \in Ops /\ op.legs \in Stages(op.of) /\ heard = NoOp /\ (op.of = "write" => Storable(op.batch))
  BY <1>1 DEF RequestInv, OperationInv, Operation
<1>4. StageOK(op.of, op.legs)
  BY <1>3, StageFacts
<1>5. RequestTyped'
  <2>1. stored' = NoOp \/ stored' = stored \/ StoredFits(stored')
    <3>1. CASE Route = "write"
      <4>1. stored' = op.batch /\ BodyBytes(op.batch) <= MaxBodyBytes /\ Storable(op.batch)
        BY <1>1, <1>3, <1>4, <3>1 DEF ServeRequest, CanTake, StageOK, Route
      <4> QED
        BY <4>1 DEF StoredFits
    <3>2. CASE Route # "write"
      BY <3>2 DEF ServeRequest
    <3> QED
      BY <3>1, <3>2
  <2>2. stored' = NoOp \/ StoredFits(stored')
    BY <2>1 DEF RequestInv, RequestTyped
  <2>3. StoredFits(stored)' = StoredFits(stored')
    BY DEF StoredFits, Storable, BodyBytes
  <2> QED
    BY <1>1, <2>2, <2>3 DEF RequestInv, RequestTyped
<1>6. OperationInv'
  BY <1>1 DEF RequestInv, OperationInv
<1>7. OutcomesAreTrue' /\ AnswersAreRead'
  BY <1>1, <1>3 DEF OutcomesAreTrue, AnswersAreRead
<1>8. Honest(reply)' = Honest(reply') /\ Understood(reply)' = Understood(reply')
  BY DEF Honest, Understood
<1>9. Enrolling' = Enrolling /\ (Enrolling => did # {}) /\ (~Enrolling => did = {})
  BY <1>1 DEF RequestInv, EffectInv, Enrolling, NotDoneYet
<1>10. ASSUME NEW len \in Lens(Route), reply' = Fine(len, AnswerBytes(Route, len))
       PROVE  EffectInv' /\ ReplyInv'
  <2>1. Honest(reply') /\ ~Understood(reply') /\ reply' # NoReply
    BY <1>10, FineReply
  <2>2. EffectInv'
    BY <1>1, <1>2, <1>8, <1>9, <2>1 DEF EffectInv, NotDoneYet
  <2>3. ReadAs(Route, reply', Outcome(Route, reply'))
    BY <1>10, AnswersRead DEF RequestInv
  <2>4. ReadAs(Route, reply', Outcome(Route, reply)')
    <3>1. CASE Route = "write"
      <4>1. Outcome("write", Fine(len, AnswerBytes("write", len))) = "ok"
        BY <1>10, <2>3, <3>1 DEF ReadAs, LongPlace
      <4>2. Outcome("write", Fine(len, AnswerBytes("write", len)))' = "ok"
        BY <1>10, <3>1, <4>1, WriteAnswered
      <4>3. Outcome(Route, reply)' = Outcome("write", Fine(len, AnswerBytes("write", len)))'
        <5>1. Route' = "write"
          BY <1>2, <3>1
        <5>2. reply' = Fine(len, AnswerBytes("write", len))'
          BY <1>10, <3>1 DEF AnswerBytes, Fine
        <5> QED
          BY <5>1, <5>2 DEF Outcome, Accepts
      <4> QED
        BY <4>2, <4>3 DEF ReadAs
    <3>2. CASE Route # "write"
      <4>1. stored' = stored
        BY <3>2 DEF ServeRequest
      <4> QED
        BY <1>1, <2>3, <4>1, OutcomeSteady
    <3> QED
      BY <3>1, <3>2
  <2>5. Route \in PakeRoutes => site # "old"
    BY <1>1 DEF CanTake, NoRoute
  <2>6. ReplyInv'
    BY <1>1, <1>2, <1>8, <2>1, <2>4, <2>5 DEF ReplyInv, ReadAs
  <2> QED
    BY <2>2, <2>6
<1>11. ASSUME reply' \in {Refusal(0, "lost"), Refusal(502, ""), Refusal(504, "")}
       PROVE  EffectInv' /\ ReplyInv'
  <2>1. reply' = Refusal(0, "lost") \/ \E s \in Gateway : reply' = Refusal(s, "")
    BY <1>11, ZenonT(40) DEF Gateway
  <2>2. Open(Route, reply')
    BY <2>1, OpenReply
  <2>3. EffectInv'
    BY <1>1, <1>2, <1>8, <1>9, <2>2 DEF EffectInv, NotDoneYet, Open
  <2>4. Outcome(Route, reply)' = "unavailable"
    BY <1>2, <2>2 DEF Outcome, Accepts, Open
  <2> QED
    BY <1>1, <1>2, <1>8, <2>2, <2>3, <2>4 DEF ReplyInv, Open
<1> QED
  BY <1>5, <1>6, <1>7, <1>10, <1>11, ZenonT(40) DEF RequestInv, ServeRequest

LEMMA BeginStep ==
    ASSUME RequestInv, NEW o \in Ops, NEW b \in Batches \cup {NoOp}, o = "write" => b \in Batches, Begin(o, b)
    PROVE  RequestInv' /\ (keyShown' \notin {"no", keyShown} => ~confirmed /\ keyShown' = "asked")
<1> DEFINE l == Legs(o, confirmed)
           new == [of |-> o, legs |-> l, first |-> "none", batch |-> b]
<1>0. confirmed \in BOOLEAN
  BY DEF RequestInv, RequestTyped
<1>1. /\ l \in Stages(o) /\ l # LegacyLoginLegs /\ (o = "login" => l \notin OldSignIn)
      /\ Head(l) \in KeyRoutes => ~confirmed
  BY <1>0, FirstLegs
<1>2. l \in Seq(Routes)
  BY <1>1, StagesAreSeqs
<1> HIDE DEF l
<1>3. /\ op = NoOp /\ heard = NoOp /\ op' = new /\ UNCHANGED <<site, confirmed, reply, did, stored, heard>>
      /\ keyShown' = IF Head(l) \in KeyRoutes THEN "asked" ELSE "no"
      /\ o = "write" => Sendable(o, b)
  BY DEF Begin, l
<1>4. new \in Operation /\ new.of = o /\ new.legs = l /\ new.first = "none" /\ new.batch = b
  BY <1>2 DEF Operation
<1>5. new # NoOp
  BY <1>4, NoOpAssumption
<1> HIDE DEF new
<1>6. reply = NoReply /\ did = {}
  BY <1>3 DEF RequestInv, RequestTyped, EffectInv
<1>7. RequestTyped'
  BY <1>3, <1>5 DEF RequestInv, RequestTyped, StoredFits, Storable, BodyBytes
<1>8. o = "write" => Storable(b)
  BY <1>3, RequestsAssumption DEF Sendable, Storable
<1>9. OperationInv'
  BY <1>1, <1>3, <1>4, <1>8 DEF OperationInv, Storable
<1>10. EffectInv'
  <2>1. ~Enrolling'
    BY <1>1, <1>3, <1>4 DEF Enrolling, OldSignIn
  <2>2. ~Honest(NoReply)
    BY NoReplyKind
  <2>3. Honest(reply)' = Honest(reply')
    BY DEF Honest
  <2> QED
    BY <1>3, <1>6, <2>1, <2>2, <2>3 DEF EffectInv
<1>11. ReplyInv'
  BY <1>3, <1>6 DEF ReplyInv, NoReply
<1>12. OutcomesAreTrue' /\ AnswersAreRead'
  BY <1>3 DEF OutcomesAreTrue, AnswersAreRead
<1>13. keyShown' \notin {"no", keyShown} => ~confirmed /\ keyShown' = "asked"
  BY <1>1, <1>3
<1> QED
  BY <1>7, <1>9, <1>10, <1>11, <1>12, <1>13 DEF RequestInv

LEMMA TakenStep ==
    ASSUME RequestInv, Taken
    PROVE  RequestInv' /\ keyShown' = "no"
<1>1. heard # NoOp /\ heard' = NoOp /\ did' = {} /\ keyShown' = "no" /\ UNCHANGED <<site, confirmed, op, reply, stored>>
  BY DEF Taken
<1>2. op = NoOp /\ reply = NoReply
  BY <1>1 DEF RequestInv, OperationInv, RequestTyped
<1>3. RequestTyped'
  BY <1>1 DEF RequestInv, RequestTyped, StoredFits, Storable, BodyBytes
<1>4. OperationInv' /\ EffectInv' /\ ReplyInv'
  BY <1>1, <1>2 DEF OperationInv, EffectInv, ReplyInv, NoReply
<1>5. OutcomesAreTrue' /\ AnswersAreRead'
  BY <1>1 DEF OutcomesAreTrue, AnswersAreRead
<1> QED
  BY <1>1, <1>3, <1>4, <1>5 DEF RequestInv

\* The next request of an operation.
LEMMA ContinueStep ==
    ASSUME RequestInv, op # NoOp, NEW legs \in Stages(op.of), NEW first \in Outcomes \cup {"none"}, NEW why,
           Continue(legs, first, why), reply' = NoReply, UNCHANGED <<site, stored>>,
           legs = LegacyLoginLegs => first \in {"unauthorized", "not found"},
           op.of = "login" /\ legs \in OldSignIn => ~confirmed,
           op.of = "login" /\ legs \in EnrolLegs => did # {},
           ~(op.of = "login" /\ legs \in EnrolLegs) => did = {}
    PROVE  RequestInv'
<1> DEFINE new == [op EXCEPT !.legs = legs, !.first = first]
<1>0. op \in Operation /\ heard = NoOp /\ (op.of = "write" => Storable(op.batch)) /\ op.of \in Ops
  BY DEF RequestInv, OperationInv, Operation
<1>1. op' = new /\ UNCHANGED <<site, confirmed, did, stored, heard>>
  BY DEF Continue
<1>2. legs \in Seq(Routes)
  BY <1>0, StagesAreSeqs
<1>3. new \in Operation /\ new.of = op.of /\ new.legs = legs /\ new.first = first /\ new.batch = op.batch
  BY <1>0, <1>2 DEF Operation
<1>4. new # NoOp
  BY <1>3, NoOpAssumption
<1> HIDE DEF new
<1>7. RequestTyped'
  BY <1>1, <1>4 DEF RequestInv, RequestTyped, StoredFits, Storable, BodyBytes
<1>9. OperationInv'
  BY <1>0, <1>1, <1>3 DEF OperationInv, Storable
<1>10. EffectInv'
  <2>1. Enrolling' = (op.of = "login" /\ legs \in EnrolLegs)
    BY <1>1, <1>3 DEF Enrolling
  <2>2. ~Honest(NoReply)
    BY NoReplyKind
  <2>3. Honest(reply)' = Honest(reply')
    BY DEF Honest
  <2> QED
    BY <1>1, <1>4, <2>1, <2>2, <2>3 DEF EffectInv
<1>11. ReplyInv'
  BY DEF ReplyInv, NoReply
<1>12. OutcomesAreTrue' /\ AnswersAreRead'
  BY <1>0, <1>1 DEF OutcomesAreTrue, AnswersAreRead
<1> QED
  BY <1>7, <1>9, <1>10, <1>11, <1>12 DEF RequestInv

LEMMA ReceiveStep ==
    ASSUME RequestInv, Receive
    PROVE  /\ RequestInv'
           /\ keyShown' \notin {"no", keyShown} => ~confirmed /\ keyShown' \in {"unauthorized", "not found", "enrols"}
<1> DEFINE e == Outcome(Route, reply)
           o == op.of
           l == op.legs
<1>1. op # NoOp /\ reply # NoReply /\ reply' = NoReply /\ UNCHANGED <<site, stored>>
  BY DEF Receive
<1>2. /\ o \in Ops /\ l \in Stages(o) /\ heard = NoOp /\ op \in Operation /\ op.first \in Outcomes \cup {"none"}
      /\ (l = LegacyLoginLegs => op.first \in {"unauthorized", "not found"})
      /\ (o = "login" /\ l \in OldSignIn => ~confirmed)
  BY <1>1 DEF RequestInv, OperationInv, Operation
<1>3. StageOK(o, l) /\ Route = Head(l)
  BY <1>2, StageFacts DEF Route
<1>4. e \in Outcomes /\ (e = "ok" => Honest(reply) \/ Route = "logout")
  BY OutcomeFacts DEF Honest
<1>5. /\ ~Understood(reply) /\ ~Honest(reply) => e = "unavailable"
      /\ Honest(reply) => e \in {"ok", "protocol"} /\ (~LongPlace(Route, reply) => e = "ok") /\ (Route \in PakeRoutes => site # "old")
      /\ e = "not found" /\ Route = "activate/register" => site = "old"
  BY <1>1 DEF RequestInv, ReplyInv, ReadAs
<1>6. Enrolling <=> o = "login" /\ l \in EnrolLegs
  BY DEF Enrolling
<1>7. /\ Enrolling => did # {}
      /\ ~Enrolling /\ Understood(reply) => did = {}
      /\ ~Enrolling /\ Honest(reply) /\ Route \notin Effects => did = {}
      /\ Honest(reply) /\ Route \in Effects => did # {}
  BY <1>1 DEF RequestInv, EffectInv, NotDoneYet
<1>8. site = "old" => ~confirmed
  BY DEF RequestInv, RequestTyped
<1> HIDE DEF e, o, l
<1>9. ASSUME FallsBack(Route, e), Continue(IF o = "login" THEN LegacyLoginLegs ELSE <<"activate legacy">>, e, e)
      PROVE  /\ RequestInv'
             /\ keyShown' \notin {"no", keyShown} => ~confirmed /\ keyShown' \in {"unauthorized", "not found", "enrols"}
  <2>1. /\ e \in {"unauthorized", "not found"} /\ ~confirmed
        /\ (o = "login" /\ l \notin OldSignIn) \/ o = "activate"
    BY <1>3, <1>5, <1>8, <1>9 DEF FallsBack, StageOK
  <2>2. ~Enrolling /\ did = {}
    BY <1>5, <1>6, <1>7, <2>1 DEF OldSignIn
  <2>3. CASE o = "login"
    <3>1. LegacyLoginLegs \in Stages(o) /\ LegacyLoginLegs \notin EnrolLegs
      BY <2>3, LegacyLegs DEF Stages, LoginStages, OldSignIn
    <3>2. RequestInv'
      BY <1>1, <1>4, <1>9, <2>1, <2>2, <2>3, <3>1, ContinueStep DEF o
    <3> QED
      BY <1>9, <2>1, <3>2 DEF Continue
  <2>4. CASE o = "activate"
    <3>1. <<"activate legacy">> \in Stages(o) /\ <<"activate legacy">> # LegacyLoginLegs
      BY <2>4, LegacyLegs, Singles DEF Stages, ActivateStages
    <3>2. RequestInv'
      BY <1>1, <1>4, <1>9, <2>1, <2>2, <2>4, <3>1, ContinueStep DEF o
    <3> QED
      BY <1>9, <2>1, <3>2 DEF Continue
  <2> QED
    BY <2>1, <2>3, <2>4
<1>10. ASSUME e = "ok", Len(l) > 1, Continue(Tail(l), op.first, "enrols")
       PROVE  /\ RequestInv'
              /\ keyShown' \notin {"no", keyShown} => ~confirmed /\ keyShown' \in {"unauthorized", "not found", "enrols"}
  <2>1. Len(l) # 1
    BY <1>3, <1>10 DEF StageOK
  <2>2. /\ Tail(l) \in Stages(o) /\ Tail(l) # LegacyLoginLegs
        /\ Head(l) \in Effects => o = "login" /\ Tail(l) \in EnrolLegs
        /\ Head(Tail(l)) \in KeyRoutes => o = "login" /\ l \in OldSignIn
        /\ o = "login" /\ Tail(l) \in OldSignIn => l \in OldSignIn
        /\ o = "login" /\ Tail(l) \in EnrolLegs => l \in EnrolLegs \/ Head(l) \in Effects
        /\ o = "login" /\ l \in EnrolLegs => Tail(l) \in EnrolLegs
    BY <1>3, <2>1 DEF StageOK
  <2>3. Honest(reply)
    BY <1>3, <1>4, <1>10, <2>1 DEF StageOK
  <2>4. o = "login" /\ Tail(l) \in EnrolLegs => did # {}
    BY <1>3, <1>6, <1>7, <2>2, <2>3
  <2>5. ~(o = "login" /\ Tail(l) \in EnrolLegs) => did = {}
    BY <1>3, <1>6, <1>7, <2>2, <2>3
  <2>6. o = "login" /\ Tail(l) \in OldSignIn => ~confirmed
    BY <1>2, <2>2
  <2>7. RequestInv'
    BY <1>1, <1>2, <1>10, <2>2, <2>4, <2>5, <2>6, ContinueStep DEF o
  <2> QED
    BY <1>2, <1>10, <2>2, <2>7 DEF Continue
<1>11. ASSUME e # "ok" \/ Len(l) = 1,
              Finish(IF o = "login" /\ Route \in {"pake/register", "enroll"} THEN "ok"
                     ELSE IF Route = "login" /\ e = "upgrade required" THEN op.first ELSE e)
       PROVE  RequestInv' /\ keyShown' = keyShown
  <2> DEFINE h == IF o = "login" /\ Route \in {"pake/register", "enroll"} THEN "ok"
                  ELSE IF Route = "login" /\ e = "upgrade required" THEN op.first ELSE e
             w == [of |-> o, how |-> h, honest |-> Honest(reply), far |-> LongPlace(Route, reply)]
  <2>1. Enrolling <=> o = "login" /\ Route \in {"pake/register", "enroll"}
    BY <1>3, <1>6 DEF StageOK
  <2>2. Route = "login" => o = "login" /\ l = LegacyLoginLegs
    BY <1>3 DEF StageOK
  <2>3. h \in Outcomes
    <3>1. {"ok", "unauthorized", "not found"} \subseteq Outcomes
      BY DEF Outcomes
    <3> QED
      BY <1>2, <1>4, <2>2, <3>1
  <2>4. h = "ok" /\ o \in Effects \cup {"activate", "login", "change", "delete"} => did # {} \/ o = "logout"
    <3>1. CASE Enrolling
      BY <1>7, <3>1
    <3>2. CASE ~Enrolling
      <4>1. h = "ok" => e = "ok"
        BY <1>2, <2>1, <2>2, <3>2
      <4>2. ASSUME e = "ok", o \in Effects \cup {"activate", "login", "change", "delete"}
            PROVE  did # {} \/ o = "logout"
        <5>1. Head(l) \in Effects
          BY <1>3, <1>11, <4>2 DEF StageOK
        <5>2. Honest(reply) \/ o = "logout"
          BY <1>3, <1>4, <4>2 DEF StageOK
        <5> QED
          BY <1>3, <1>7, <5>1, <5>2
      <4> QED
        BY <4>1, <4>2
    <3> QED
      BY <3>1, <3>2
  <2>5. h \notin {"ok", "unavailable", "protocol", "too_large"} => did = {}
    <3>1. CASE Enrolling
      BY <2>1, <3>1
    <3>2. CASE ~Enrolling
      <4>1. h \notin {"ok", "unavailable", "protocol", "too_large"} => e \notin {"ok", "unavailable", "protocol"}
        BY <2>1, <3>2
      <4>2. e \notin {"ok", "unavailable", "protocol"} => Understood(reply)
        BY <1>5
      <4> QED
        BY <1>7, <3>2, <4>1, <4>2
    <3> QED
      BY <3>1, <3>2
  <2>6. Honest(reply) /\ ~LongPlace(Route, reply) => h = "ok"
    BY <1>5
  <2>7. /\ w \in [of : Ops, how : Outcomes, honest : BOOLEAN, far : BOOLEAN]
        /\ w.of = o /\ w.how = h /\ w.honest = Honest(reply) /\ w.far = LongPlace(Route, reply)
    BY <1>2, <2>3 DEF Honest, LongPlace
  <2>8. w # NoOp
    BY <2>7, NoOpAssumption
  <2> HIDE DEF h
  <2>9. heard' = w /\ op' = NoOp /\ UNCHANGED <<keyShown, did>>
    BY <1>11 DEF Finish, h, Honest, o
  <2> HIDE DEF w
  <2>10. confirmed' \in BOOLEAN /\ (confirmed' => confirmed \/ (Route \in {"pake/finish", "enroll"} /\ Honest(reply)))
    BY <1>11 DEF Finish, Honest, RequestInv, RequestTyped
  <2>11. confirmed' => site # "old"
    BY <1>5, <1>8, <2>10 DEF PakeRoutes
  <2>12. RequestTyped'
    <3>1. StoredFits(stored)' = StoredFits(stored)
      BY <1>1 DEF StoredFits, Storable, BodyBytes
    <3> QED
      BY <1>1, <2>10, <2>11, <3>1 DEF RequestInv, RequestTyped
  <2>13. OperationInv' /\ EffectInv' /\ ReplyInv'
    BY <1>1, <2>8, <2>9 DEF OperationInv, EffectInv, ReplyInv, NoReply
  <2>14. OutcomesAreTrue'
    BY <2>4, <2>5, <2>7, <2>9 DEF OutcomesAreTrue
  <2>15. AnswersAreRead'
    BY <2>6, <2>7, <2>9 DEF AnswersAreRead
  <2> QED
    BY <2>9, <2>12, <2>13, <2>14, <2>15 DEF RequestInv
<1>12. \/ FallsBack(Route, e) /\ Continue(IF o = "login" THEN LegacyLoginLegs ELSE <<"activate legacy">>, e, e)
       \/ e = "ok" /\ Len(l) > 1 /\ Continue(Tail(l), op.first, "enrols")
       \/ /\ e # "ok" \/ Len(l) = 1
          /\ Finish(IF o = "login" /\ Route \in {"pake/register", "enroll"} THEN "ok"
                    ELSE IF Route = "login" /\ e = "upgrade required" THEN op.first ELSE e)
  BY Zenon DEF Receive, e, o, l
<1> QED
  BY <1>9, <1>10, <1>11, <1>12

-----------------------------------------------------------------------------
(* Requests: the theorems                                                   *)

LEMMA RequestStep ==
    ASSUME RequestInv, [RequestNext]_requestVars
    PROVE  /\ RequestInv'
           /\ keyShown' \notin {"no", keyShown} =>
                 ~confirmed /\ keyShown' \in {"asked", "unauthorized", "not found", "enrols"}
<1>1. ASSUME NEW o \in Ops \ {"write"}, Begin(o, NoOp) PROVE RequestInv' /\ (keyShown' \notin {"no", keyShown} => ~confirmed /\ keyShown' = "asked")
  BY <1>1, BeginStep
<1>2. ASSUME NEW b \in Batches, Begin("write", b) PROVE RequestInv' /\ (keyShown' \notin {"no", keyShown} => ~confirmed /\ keyShown' = "asked")
  <2>1. "write" \in Ops
    BY DEF Ops, PlainOps
  <2> QED
    BY <1>2, <2>1, BeginStep
<1>3. CASE Refuse
  BY <1>3, RefuseStep DEF Refuse
<1>4. CASE ServeRequest
  BY <1>4, ServeStep DEF ServeRequest
<1>5. CASE Stopped
  BY <1>5, StoppedStep, ZenonT(40) DEF Stopped
<1>6. CASE Receive
  BY <1>6, ReceiveStep
<1>7. CASE Taken
  BY <1>7, TakenStep
<1>8. CASE UNCHANGED requestVars
  <2> USE <1>8 DEF requestVars
  <2>1. RequestTyped' /\ OperationInv' /\ OutcomesAreTrue' /\ AnswersAreRead'
    BY ZenonT(40) DEF RequestInv, RequestTyped, OperationInv, OutcomesAreTrue, AnswersAreRead, StoredFits, Storable, BodyBytes
  <2>2. Route' = Route /\ Honest(reply)' = Honest(reply) /\ Understood(reply)' = Understood(reply)
    BY DEF Route, Honest, Understood
  <2>3. EffectInv'
    BY <2>2 DEF RequestInv, EffectInv, NotDoneYet, Enrolling
  <2>4. ReplyInv'
    <3>1. Outcome(Route, reply)' = Outcome(Route, reply)
      BY OutcomeSteady
    <3>2. ReadAs(Route, reply, Outcome(Route, reply))' = ReadAs(Route, reply, Outcome(Route, reply))
      BY <2>2, <3>1 DEF ReadAs, LongPlace, DetailsOK
    <3> QED
      BY <2>2, <3>1, <3>2 DEF RequestInv, ReplyInv
  <2> QED
    BY <2>1, <2>3, <2>4 DEF RequestInv
<1> QED
  BY <1>1, <1>2, <1>3, <1>4, <1>5, <1>6, <1>7, <1>8 DEF RequestNext

\* What a caller is told of a request is what became of it, and a client
\* reads whatever this server may answer, for batches of every size that
\* passes the checks of both (sync-client client.rs, server router); only the
\* details of a pairing from a city of more than 60 characters are refused
\* (locate.rs lets 64 through and adds ", CC").
THEOREM RequestsAreTrueHolds == RequestSpec => []RequestsAreTrue
<1>1. RequestInit => RequestInv
  BY InitRequests
<1>2. RequestInv /\ [RequestNext]_requestVars => RequestInv'
  BY RequestStep
<1>3. RequestInv => RequestsAreTrue
  BY DEF RequestInv, RequestsAreTrue
<1> QED
  BY <1>1, <1>2, <1>3, PTL DEF RequestSpec

\* A device on which OPAQUE has worked never sends its auth key again, and no
\* outage makes another one send it: only a server that refuses or does not
\* know OPAQUE (may_fall_back of sync-client client.rs).
THEOREM KeyIsNotShownHolds == RequestSpec => KeyIsNotShown
<1>1. RequestInit => RequestInv
  BY InitRequests
<1>2. RequestInv /\ [RequestNext]_requestVars => RequestInv'
  BY RequestStep
<1>3. RequestInv /\ [RequestNext]_requestVars =>
        [keyShown' \notin {"no", keyShown} =>
            ~confirmed /\ keyShown' \in {"asked", "unauthorized", "not found", "enrols"}]_requestVars
  BY RequestStep
<1> QED
  BY <1>1, <1>2, <1>3, PTL DEF RequestSpec, KeyIsNotShown

-----------------------------------------------------------------------------
(* Backup: the restore                                                      *)

\* Revisions of a row count its writes; one without revision is not live.
RowsSound ==
    rows \in [BackupIds -> [rev : Nat, live : BOOLEAN, by : {"nobody", "owner", "other", "restore"}]]
    /\ \A i \in BackupIds : rows[i].live => rows[i].rev # 0

\* A write on its way names a revision the row has or had, and where it has
\* it still the row is not live.
BaseIsDead(w) ==
    /\ w.id \in BackupIds /\ w.base \in Nat /\ w.base <= rows[w.id].rev
    /\ rows[w.id].rev = w.base => ~rows[w.id].live

Writes == [id : BackupIds, base : Nat]

RunTyped ==
    run # NoRun =>
      /\ run \in [phase : {"files", "items", "asking"}, new : SUBSET BackupIds, todo : SUBSET BackupIds,
                  held : {<<>>, <<"file">>}, files : SUBSET BackupIds, queue : SUBSET Writes, batch : SUBSET Writes,
                  revived : SUBSET BackupIds, found : SUBSET BackupIds, skipped : SUBSET BackupIds,
                  failed : SUBSET BackupIds, committed : SUBSET BackupIds]
      /\ run.queue \subseteq [id : BackupIds, base : {0}]
      /\ \A w \in run.queue \cup run.batch : BaseIsDead(w)

\* Every item of the backup is accounted for once.
Pending == IF run.phase = "files" THEN run.new ELSE IdsOf(run.queue) \cup IdsOf(run.batch)
RunAccounts ==
    run # NoRun =>
      /\ Pending \cup run.committed \cup run.skipped \cup run.failed = BackupIds
      /\ Pending \cap (run.committed \cup run.skipped \cup run.failed) = {}
      /\ run.committed \cap (run.skipped \cup run.failed) = {}
      /\ run.phase = "files" => run.queue = {} /\ run.batch = {}
      /\ IdsOf(run.queue) \cap IdsOf(run.batch) = {}
      /\ run.found \subseteq IdsOf(run.batch) /\ (run.phase # "asking" => run.found = {})

\* The file of the Identity is uploaded only where it is not listed.
RunFiles ==
    /\ identityFiles \in {<<>>, <<"file">>}
    /\ run # NoRun => /\ run.held = identityFiles
                      /\ "identity" \in run.files \ run.new => identityFiles = <<>>

RestoreInv == RowsSound /\ RunTyped /\ RunAccounts /\ RunFiles /\ NothingIsForgotten

LEMMA RestoreStarts ==
    ASSUME BackupInit
    PROVE  RestoreInv
<1>1. RowsSound
  <2> DEFINE R == [rev : Nat, live : BOOLEAN, by : {"nobody", "owner", "other", "restore"}]
             Starts == {None, Row(1, TRUE, "owner"), Row(1, FALSE, "owner")}
  <2>1. rows \in [BackupIds -> Starts]
    BY DEF BackupInit
  <2>2. \A x \in Starts : x \in R /\ (x.live => x.rev # 0)
    <3>1. None \in R /\ ~None.live
      BY DEF None, Row
    <3>2. Row(1, TRUE, "owner") \in R /\ Row(1, TRUE, "owner").rev # 0
      BY DEF Row
    <3>3. Row(1, FALSE, "owner") \in R /\ ~Row(1, FALSE, "owner").live
      BY DEF Row
    <3> QED
      BY <3>1, <3>2, <3>3
  <2> HIDE DEF R, Starts
  <2>3. rows \in [BackupIds -> R] /\ \A i \in BackupIds : rows[i].live => rows[i].rev # 0
    BY <2>1, <2>2
  <2> QED
    BY <2>3 DEF RowsSound, R
<1>2. RunTyped /\ RunAccounts /\ RunFiles /\ NothingIsForgotten
  BY DEF BackupInit, RunTyped, RunAccounts, RunFiles, NothingIsForgotten
<1> QED
  BY <1>1, <1>2 DEF RestoreInv

\* A write that the server takes goes to a row that is not live.
LEMMA TakenIsDead ==
    ASSUME RestoreInv, run # NoRun, Conflicting(run.batch) = {}, NEW i \in IdsOf(run.batch)
    PROVE  ~rows[i].live /\ i \in BackupIds
<1>1. PICK w \in run.batch : w.id = i
  BY DEF IdsOf
<1>2. BaseIsDead(w)
  BY <1>1 DEF RestoreInv, RunTyped
<1>3. rows[w.id].rev = w.base
  BY <1>1 DEF Conflicting
<1> QED
  BY <1>1, <1>2, <1>3 DEF BaseIsDead

\* Rows only move on, so what was sent before stays as it is.
LEMMA RowsMoveOn ==
    ASSUME RestoreInv, RowsSound', run' = run \/ run' = NoRun,
           \A i \in BackupIds : rows'[i] = rows[i] \/ rows'[i].rev = rows[i].rev + 1
    PROVE  RunTyped'
<1>1. ASSUME NEW w, BaseIsDead(w) PROVE BaseIsDead(w)'
  BY <1>1 DEF BaseIsDead, RestoreInv, RowsSound
<1> QED
  BY <1>1 DEF RestoreInv, RunTyped

LEMMA RowParts ==
    ASSUME NEW rev, NEW live, NEW by
    PROVE  Row(rev, live, by).rev = rev /\ Row(rev, live, by).live = live /\ Row(rev, live, by).by = by
BY DEF Row

LEMMA OtherStep ==
    ASSUME RestoreInv, NEW i \in BackupIds, OtherWrites(i)
    PROVE  RestoreInv' /\ (\A j \in BackupIds : rows[j].live /\ rows'[j] # rows[j] => rows'[j].by # "restore")
<1>1. PICK live \in BOOLEAN : rows' = [rows EXCEPT ![i] = Row(rows[i].rev + 1, live, "other")]
  BY DEF OtherWrites
<1>2. rows \in [BackupIds -> [rev : Nat, live : BOOLEAN, by : {"nobody", "owner", "other", "restore"}]]
  BY DEF RestoreInv, RowsSound
<1>3. rows[i].rev \in Nat
  BY <1>2
<1> DEFINE x == Row(rows[i].rev + 1, live, "other")
<1>4. x \in [rev : Nat, live : BOOLEAN, by : {"nobody", "owner", "other", "restore"}] /\ x.rev # 0
      /\ x.rev = rows[i].rev + 1 /\ x.by = "other"
  BY <1>3 DEF Row
<1> HIDE DEF x
<1>5. \A j \in BackupIds : rows'[j] = IF j = i THEN x ELSE rows[j]
  BY <1>1, <1>2 DEF x
<1>6. RowsSound'
  BY <1>1, <1>2, <1>4, <1>5 DEF RestoreInv, RowsSound, x
<1>7. UNCHANGED <<copy, run, identityFiles, restores, outcome>>
  BY DEF OtherWrites
<1>8. RunTyped'
  BY <1>4, <1>5, <1>6, <1>7, RowsMoveOn
<1>9. RunAccounts' /\ RunFiles' /\ NothingIsForgotten'
  BY <1>7 DEF RestoreInv, RunAccounts, RunFiles, NothingIsForgotten, Pending, IdsOf
<1> QED
  BY <1>4, <1>5, <1>6, <1>8, <1>9 DEF RestoreInv

\* The server takes a batch.
LEMMA RowsRestored ==
    ASSUME RestoreInv, run # NoRun, Conflicting(run.batch) = {}, rows' = RestoredRows(run.batch)
    PROVE  /\ RowsSound'
           /\ \A i \in BackupIds : rows'[i] = rows[i] \/ rows'[i].rev = rows[i].rev + 1
           /\ \A i \in BackupIds : rows[i].live => rows'[i] = rows[i]
<1> DEFINE R == [rev : Nat, live : BOOLEAN, by : {"nobody", "owner", "other", "restore"}]
           x(i) == Row(rows[i].rev + 1, TRUE, "restore")
<1>2. rows \in [BackupIds -> R] /\ \A i \in BackupIds : rows[i].live => rows[i].rev # 0
  BY DEF RestoreInv, RowsSound
<1>3. ASSUME NEW i \in BackupIds PROVE x(i) \in R /\ x(i).rev = rows[i].rev + 1 /\ x(i).rev # 0
  <2>1. rows[i].rev \in Nat
    BY <1>2
  <2> QED
    BY <2>1 DEF Row
<1>4. rows' = [i \in BackupIds |-> IF i \in IdsOf(run.batch) THEN x(i) ELSE rows[i]]
  BY DEF RestoredRows
<1> HIDE DEF R, x
<1>5. \A i \in BackupIds : rows'[i] = IF i \in IdsOf(run.batch) THEN x(i) ELSE rows[i]
  BY <1>4
<1>6. rows' \in [BackupIds -> R]
  BY <1>2, <1>3, <1>4
<1>7. \A i \in BackupIds : rows'[i].live => rows'[i].rev # 0
  BY <1>2, <1>3, <1>5
<1>8. RowsSound'
  BY <1>6, <1>7 DEF RowsSound, R
<1> QED
  BY <1>3, <1>5, <1>8, TakenIsDead

LEMMA FailsStep ==
    ASSUME RestoreInv, RestoreFails
    PROVE  RestoreInv' /\ (\A i \in BackupIds : rows[i].live /\ rows'[i] # rows[i] => rows'[i].by # "restore")
<1>1. run # NoRun /\ run' = NoRun /\ UNCHANGED <<copy, identityFiles, restores, others, outcome>>
  BY DEF RestoreFails
<1>2. RunTyped' /\ RunAccounts' /\ RunFiles' /\ NothingIsForgotten'
  BY <1>1 DEF RestoreInv, RunTyped, RunAccounts, RunFiles, NothingIsForgotten
<1>3. CASE rows' = rows
  BY <1>2, <1>3 DEF RestoreInv, RowsSound
<1>4. CASE Conflicting(run.batch) = {} /\ rows' = RestoredRows(run.batch)
  BY <1>1, <1>2, <1>4, RowsRestored DEF RestoreInv
<1> QED
  BY <1>3, <1>4 DEF RestoreFails

RunFields == [phase : {"files", "items", "asking"}, new : SUBSET BackupIds, todo : SUBSET BackupIds,
              held : {<<>>, <<"file">>}, files : SUBSET BackupIds, queue : SUBSET Writes, batch : SUBSET Writes,
              revived : SUBSET BackupIds, found : SUBSET BackupIds, skipped : SUBSET BackupIds,
              failed : SUBSET BackupIds, committed : SUBSET BackupIds]

LEMMA StartStep ==
    ASSUME RestoreInv, StartRestore
    PROVE  RestoreInv'
<1>0. run = NoRun /\ UNCHANGED <<rows, identityFiles, others, outcome>>
  BY DEF StartRestore
<1> DEFINE here == BackupIds \cap Live(rows)
           ident == "identity" \in here
<1>1. PICK new \in Rebuilt(BackupIds \ Live(rows)) :
        run' = [phase |-> "files", new |-> new, todo |-> new \cup {i \in BackupIds : i = "identity" /\ ident},
                held |-> identityFiles, files |-> {}, queue |-> {}, batch |-> {}, revived |-> {}, found |-> {},
                skipped |-> here, failed |-> BackupIds \ (Live(rows) \cup new), committed |-> {}]
  BY DEF StartRestore
<1>2. new \subseteq BackupIds \ Live(rows)
  BY DEF Rebuilt
<1> HIDE DEF here, ident
<1>3. /\ run'.phase = "files" /\ run'.new = new /\ run'.held = identityFiles /\ run'.files = {} /\ run'.queue = {}
      /\ run'.batch = {} /\ run'.found = {} /\ run'.skipped = here /\ run'.committed = {}
      /\ run'.failed = BackupIds \ (Live(rows) \cup new)
  BY <1>1
<1>4. run' \in RunFields
  <2>1. identityFiles \in {<<>>, <<"file">>}
    BY DEF RestoreInv, RunFiles
  <2>2. here \subseteq BackupIds
    BY DEF here
  <2> QED
    BY <1>1, <1>2, <2>1, <2>2 DEF RunFields
<1>5. RunTyped'
  BY <1>3, <1>4 DEF RunTyped, RunFields
<1>6. RunAccounts'
  BY <1>2, <1>3 DEF RunAccounts, Pending, here, IdsOf
<1>7. RunFiles'
  BY <1>0, <1>3 DEF RestoreInv, RunFiles
<1>8. RowsSound' /\ NothingIsForgotten'
  BY <1>0 DEF RestoreInv, RowsSound, NothingIsForgotten
<1> QED
  BY <1>5, <1>6, <1>7, <1>8 DEF RestoreInv

LEMMA UploadStep ==
    ASSUME RestoreInv, NEW i \in BackupIds, UploadFile(i)
    PROVE  RestoreInv'
<1>0. run # NoRun /\ run.phase = "files" /\ UNCHANGED <<copy, rows, identityFiles, restores, others, outcome>>
  BY DEF UploadFile
<1>1. PICK more \in SUBSET {i} : /\ more # {} => Target(i)
                                 /\ run' = [run EXCEPT !.todo = @ \ {i}, !.files = @ \cup more]
  <2>1. CASE Target(i) /\ run' = [run EXCEPT !.todo = @ \ {i}, !.files = @ \cup {i}]
    BY <2>1
  <2>2. CASE run' = [run EXCEPT !.todo = @ \ {i}, !.files = @]
    <3>1. run.files = run.files \cup {}
      OBVIOUS
    <3>2. run' = [run EXCEPT !.todo = @ \ {i}, !.files = @ \cup {}]
      BY <2>2, <3>1
    <3> QED
      BY <3>2
  <2> QED
    BY <2>1, <2>2 DEF UploadFile
<1>2. run \in RunFields
  BY <1>0 DEF RestoreInv, RunTyped, RunFields
<1>3. /\ run'.phase = run.phase /\ run'.new = run.new /\ run'.held = run.held /\ run'.queue = run.queue
      /\ run'.batch = run.batch /\ run'.found = run.found /\ run'.skipped = run.skipped
      /\ run'.committed = run.committed /\ run'.failed = run.failed
      /\ run'.files = run.files \cup more
  BY <1>1, <1>2 DEF RunFields
<1>4. run' \in RunFields
  BY <1>1, <1>2 DEF RunFields
<1>5. RunTyped'
  BY <1>0, <1>3, <1>4 DEF RestoreInv, RunTyped, RunFields, BaseIsDead
<1>6. RunAccounts'
  BY <1>0, <1>3 DEF RestoreInv, RunAccounts, Pending, IdsOf
<1>7. RunFiles'
  <2>1. ASSUME "identity" \in run'.files \ run'.new PROVE identityFiles = <<>>
    <3>1. CASE "identity" \in run.files
      BY <1>0, <1>3, <2>1, <3>1 DEF RestoreInv, RunFiles
    <3>2. CASE "identity" \notin run.files
      <4>1. i = "identity" /\ Target(i) /\ i \notin run.new
        BY <1>1, <1>3, <2>1, <3>2
      <4>2. "file" \notin Range(run.held)
        BY <4>1 DEF Target
      <4>3. run.held # <<"file">>
        <5>1. "file" \in Range(<<"file">>)
          BY DEF Range
        <5> QED
          BY <4>2, <5>1
      <4> QED
        BY <1>0, <1>2, <4>3 DEF RestoreInv, RunFiles, RunFields
    <3> QED
      BY <3>1, <3>2
  <2> QED
    BY <1>0, <1>3, <2>1 DEF RestoreInv, RunFiles
<1>8. RowsSound' /\ NothingIsForgotten'
  BY <1>0 DEF RestoreInv, RowsSound, NothingIsForgotten
<1> QED
  BY <1>5, <1>6, <1>7, <1>8 DEF RestoreInv

LEMMA StageStep ==
    ASSUME RestoreInv, StageRestore
    PROVE  RestoreInv'
<1>0. /\ run # NoRun /\ run.phase = "files" /\ UNCHANGED <<copy, rows, identityFiles, restores, others, outcome>>
      /\ run' = [run EXCEPT !.phase = "items", !.queue = [id : run.new, base : {0}]]
  BY DEF StageRestore
<1>2. run \in RunFields
  BY <1>0 DEF RestoreInv, RunTyped, RunFields
<1>3. /\ run'.phase = "items" /\ run'.new = run.new /\ run'.held = run.held /\ run'.queue = [id : run.new, base : {0}]
      /\ run'.batch = run.batch /\ run'.found = run.found /\ run'.skipped = run.skipped
      /\ run'.committed = run.committed /\ run'.failed = run.failed /\ run'.files = run.files
  BY <1>0, <1>2 DEF RunFields
<1>4. run.new \subseteq BackupIds /\ run.batch = {}
  BY <1>0, <1>2 DEF RunFields, RestoreInv, RunAccounts
<1>5. [id : run.new, base : {0}] \subseteq Writes /\ [id : run.new, base : {0}] \subseteq [id : BackupIds, base : {0}]
  BY <1>4 DEF Writes
<1>6. run' \in RunFields
  BY <1>0, <1>2, <1>5 DEF RunFields
<1>7. ASSUME NEW w \in [id : run.new, base : {0}] PROVE BaseIsDead(w)'
  <2>1. w.id \in BackupIds /\ w.base = 0
    BY <1>4
  <2>2. rows[w.id].rev \in Nat /\ (rows[w.id].live => rows[w.id].rev # 0)
    BY <2>1 DEF RestoreInv, RowsSound
  <2> QED
    BY <1>0, <2>1, <2>2 DEF BaseIsDead
<1>8. RunTyped'
  BY <1>3, <1>4, <1>5, <1>6, <1>7 DEF RunTyped, RunFields
<1>9. IdsOf([id : run.new, base : {0}]) = run.new
  <2>1. \A i \in run.new : [id |-> i, base |-> 0] \in [id : run.new, base : {0}] /\ [id |-> i, base |-> 0].id = i
    OBVIOUS
  <2> QED
    BY <2>1, ZenonT(40) DEF IdsOf
<1>10. IdsOf({}) = {}
  BY DEF IdsOf
<1>11. RunAccounts'
  <2>1. IdsOf(run'.queue) = run.new /\ IdsOf(run'.batch) = {}
    BY <1>3, <1>4, <1>9, <1>10
  <2>2. Pending' = IdsOf(run'.queue) \cup IdsOf(run'.batch)
    BY <1>3 DEF Pending, IdsOf
  <2>3. Pending = run.new
    BY <1>0 DEF Pending
  <2>4. /\ IdsOf(run.queue)' = IdsOf(run'.queue) /\ IdsOf(run.batch)' = IdsOf(run'.batch)
    BY DEF IdsOf
  <2> QED
    BY <1>0, <1>3, <1>4, <1>10, <2>1, <2>2, <2>3, <2>4 DEF RestoreInv, RunAccounts
<1>12. RunFiles'
  BY <1>0, <1>3 DEF RestoreInv, RunFiles
<1>13. RowsSound' /\ NothingIsForgotten'
  BY <1>0 DEF RestoreInv, RowsSound, NothingIsForgotten
<1> QED
  BY <1>8, <1>11, <1>12, <1>13 DEF RestoreInv

LEMMA TakeStep ==
    ASSUME RestoreInv, TakeBatch
    PROVE  RestoreInv'
<1>0. /\ run # NoRun /\ run.phase = "items" /\ run.batch = {}
      /\ UNCHANGED <<copy, rows, identityFiles, restores, others, outcome>>
  BY DEF TakeBatch
<1>1. PICK next \in SUBSET run.queue : run' = [run EXCEPT !.batch = next, !.queue = @ \ next, !.revived = {}]
  BY DEF TakeBatch
<1>2. run \in RunFields
  BY <1>0 DEF RestoreInv, RunTyped, RunFields
<1>3. /\ run'.phase = "items" /\ run'.new = run.new /\ run'.held = run.held /\ run'.queue = run.queue \ next
      /\ run'.batch = next /\ run'.found = run.found /\ run'.skipped = run.skipped
      /\ run'.committed = run.committed /\ run'.failed = run.failed /\ run'.files = run.files
  BY <1>0, <1>1, <1>2 DEF RunFields
<1>4. run' \in RunFields
  BY <1>1, <1>2 DEF RunFields
<1>5. run.queue \subseteq [id : BackupIds, base : {0}] /\ \A w \in run.queue : BaseIsDead(w)
  BY <1>0 DEF RestoreInv, RunTyped
<1>6. RunTyped'
  BY <1>0, <1>3, <1>4, <1>5 DEF RunTyped, RunFields, BaseIsDead
<1>7. IdsOf(run'.queue) \cap IdsOf(run'.batch) = {}
  <2>1. ASSUME NEW v \in run.queue \ next, NEW w \in next, v.id = w.id PROVE FALSE
    <3>1. v \in [id : BackupIds, base : {0}] /\ w \in [id : BackupIds, base : {0}]
      BY <1>5, <2>1
    <3>2. v = [id |-> v.id, base |-> 0] /\ w = [id |-> w.id, base |-> 0]
      BY <3>1
    <3> QED
      BY <2>1, <3>2
  <2> QED
    BY <1>3, <2>1 DEF IdsOf
<1>8. IdsOf(run'.queue) \cup IdsOf(run'.batch) = IdsOf(run.queue) /\ IdsOf(run.batch) = {}
  BY <1>0, <1>3 DEF IdsOf
<1>9. run.found = {}
  BY <1>0, <1>8 DEF RestoreInv, RunAccounts
<1>10. Pending' = IdsOf(run'.queue) \cup IdsOf(run'.batch) /\ Pending = IdsOf(run.queue)
       /\ IdsOf(run.queue)' = IdsOf(run'.queue) /\ IdsOf(run.batch)' = IdsOf(run'.batch)
  BY <1>0, <1>3, <1>8 DEF Pending, IdsOf
<1>11. RunAccounts'
  BY <1>0, <1>3, <1>7, <1>8, <1>9, <1>10 DEF RestoreInv, RunAccounts
<1>12. RunFiles'
  BY <1>0, <1>3 DEF RestoreInv, RunFiles
<1>13. RowsSound' /\ NothingIsForgotten'
  BY <1>0 DEF RestoreInv, RowsSound, NothingIsForgotten
<1> QED
  BY <1>6, <1>11, <1>12, <1>13 DEF RestoreInv

LEMMA SendStep ==
    ASSUME RestoreInv, SendRestore
    PROVE  RestoreInv' /\ (\A i \in BackupIds : rows[i].live /\ rows'[i] # rows[i] => rows'[i].by # "restore")
<1>0. run # NoRun /\ run.phase = "items" /\ UNCHANGED <<copy, identityFiles, restores, others, outcome>>
  BY DEF SendRestore
<1>1. run \in RunFields
  BY <1>0 DEF RestoreInv, RunTyped, RunFields
<1>2. NothingIsForgotten'
  BY <1>0 DEF RestoreInv, NothingIsForgotten
<1>3. Pending = IdsOf(run.queue) \cup IdsOf(run.batch)
  BY <1>0 DEF Pending
<1>4. CASE /\ Conflicting(run.batch) = {} /\ rows' = RestoredRows(run.batch)
           /\ run' = [run EXCEPT !.batch = {}, !.committed = @ \cup IdsOf(run.batch)]
  <2>1. /\ RowsSound'
        /\ \A i \in BackupIds : rows'[i] = rows[i] \/ rows'[i].rev = rows[i].rev + 1
        /\ \A i \in BackupIds : rows[i].live => rows'[i] = rows[i]
    BY <1>0, <1>4, RowsRestored
  <2>2. /\ run'.phase = "items" /\ run'.new = run.new /\ run'.held = run.held /\ run'.queue = run.queue
        /\ run'.batch = {} /\ run'.found = run.found /\ run'.skipped = run.skipped
        /\ run'.committed = run.committed \cup IdsOf(run.batch) /\ run'.failed = run.failed /\ run'.files = run.files
    BY <1>0, <1>1, <1>4 DEF RunFields
  <2>3. IdsOf(run.batch) \subseteq BackupIds
    BY <1>1 DEF IdsOf, RunFields, Writes
  <2>4. run' \in RunFields
    BY <1>1, <1>4, <2>3 DEF RunFields
  <2>5. ASSUME NEW w, BaseIsDead(w) PROVE BaseIsDead(w)'
    BY <2>1, <2>5 DEF BaseIsDead, RestoreInv, RowsSound
  <2>6. RunTyped'
    BY <1>0, <2>2, <2>4, <2>5 DEF RestoreInv, RunTyped, RunFields
  <2>7. IdsOf(run'.batch) = {} /\ IdsOf(run'.queue) = IdsOf(run.queue)
    BY <2>2 DEF IdsOf
  <2>8. Pending' = IdsOf(run'.queue) \cup IdsOf(run'.batch)
        /\ IdsOf(run.queue)' = IdsOf(run'.queue) /\ IdsOf(run.batch)' = IdsOf(run'.batch)
    BY <2>2 DEF Pending, IdsOf
  <2>9. run.found = {}
    BY <1>0 DEF RestoreInv, RunAccounts
  <2>10. RunAccounts'
    BY <1>0, <1>3, <2>2, <2>7, <2>8, <2>9 DEF RestoreInv, RunAccounts
  <2>11. RunFiles'
    BY <1>0, <2>2 DEF RestoreInv, RunFiles
  <2> QED
    BY <1>2, <2>1, <2>6, <2>10, <2>11 DEF RestoreInv
<1>5. CASE /\ run' = [run EXCEPT !.phase = "asking", !.found = Conflicting(run.batch)] /\ UNCHANGED rows
  <2>2. /\ run'.phase = "asking" /\ run'.new = run.new /\ run'.held = run.held /\ run'.queue = run.queue
        /\ run'.batch = run.batch /\ run'.found = Conflicting(run.batch) /\ run'.skipped = run.skipped
        /\ run'.committed = run.committed /\ run'.failed = run.failed /\ run'.files = run.files
    BY <1>0, <1>1, <1>5 DEF RunFields
  <2>3. Conflicting(run.batch) \subseteq IdsOf(run.batch) /\ IdsOf(run.batch) \subseteq BackupIds
    BY <1>1 DEF IdsOf, RunFields, Writes, Conflicting
  <2>4. run' \in RunFields
    BY <1>1, <1>5, <2>3 DEF RunFields
  <2>6. RunTyped'
    BY <1>0, <1>5, <2>2, <2>4 DEF RestoreInv, RunTyped, RunFields, BaseIsDead
  <2>8. Pending' = IdsOf(run'.queue) \cup IdsOf(run'.batch)
        /\ IdsOf(run.queue)' = IdsOf(run'.queue) /\ IdsOf(run.batch)' = IdsOf(run'.batch)
    BY <2>2 DEF Pending, IdsOf
  <2>10. RunAccounts'
    BY <1>0, <1>3, <2>2, <2>3, <2>8 DEF RestoreInv, RunAccounts
  <2>11. RunFiles'
    BY <1>0, <2>2 DEF RestoreInv, RunFiles
  <2> QED
    BY <1>2, <1>5, <2>6, <2>10, <2>11 DEF RestoreInv, RowsSound
<1> QED
  BY <1>4, <1>5 DEF SendRestore

LEMMA ResolveStep ==
    ASSUME RestoreInv, ResolveConflicts
    PROVE  RestoreInv'
<1> DEFINE again == {i \in run.found : Revivable(i)}
           gone == run.found \ again
           kept == {w \in run.batch : w.id \notin run.found}
           anew == {[id |-> i, base |-> rows[i].rev] : i \in again}
<1>0. /\ run # NoRun /\ run.phase = "asking" /\ UNCHANGED <<copy, rows, identityFiles, restores, others, outcome>>
      /\ run' = [run EXCEPT !.phase = "items", !.found = {}, !.revived = @ \cup again, !.skipped = @ \cup gone,
                            !.batch = kept \cup anew]
  BY DEF ResolveConflicts
<1>1. run \in RunFields
  BY <1>0 DEF RestoreInv, RunTyped, RunFields
<1>2. /\ run.found \subseteq BackupIds /\ run.found \subseteq IdsOf(run.batch)
      /\ again \subseteq run.found /\ gone \subseteq run.found /\ again \cup gone = run.found /\ again \cap gone = {}
  BY <1>0, <1>1 DEF RunFields, RestoreInv, RunAccounts
<1>3. \A i \in again : ~rows[i].live
  BY DEF Revivable
<1>4. rows \in [BackupIds -> [rev : Nat, live : BOOLEAN, by : {"nobody", "owner", "other", "restore"}]]
  BY DEF RestoreInv, RowsSound
<1>5. ASSUME NEW i \in again PROVE [id |-> i, base |-> rows[i].rev] \in Writes /\ BaseIsDead([id |-> i, base |-> rows[i].rev])
  <2>1. i \in BackupIds /\ ~rows[i].live /\ rows[i].rev \in Nat
    BY <1>2, <1>3, <1>4
  <2> QED
    BY <2>1 DEF Writes, BaseIsDead
<1>6. kept \subseteq run.batch /\ run.batch \subseteq Writes
  BY <1>1 DEF RunFields
<1>7. IdsOf(kept) = IdsOf(run.batch) \ run.found
  BY DEF IdsOf
<1>8. IdsOf(anew) = again
  <2>1. \A i \in again : [id |-> i, base |-> rows[i].rev] \in anew /\ [id |-> i, base |-> rows[i].rev].id = i
    OBVIOUS
  <2>2. ASSUME NEW w \in anew PROVE w.id \in again
    BY <2>2
  <2> HIDE DEF anew, again
  <2> QED
    BY <2>1, <2>2 DEF IdsOf
<1>9. IdsOf(kept \cup anew) = IdsOf(kept) \cup IdsOf(anew)
  BY DEF IdsOf
<1>10. \A w \in kept \cup anew : w \in Writes /\ BaseIsDead(w)
  <2>1. \A w \in anew : w \in Writes /\ BaseIsDead(w)
    BY <1>5
  <2>2. \A w \in run.batch : BaseIsDead(w)
    BY <1>0 DEF RestoreInv, RunTyped
  <2> HIDE DEF anew, again
  <2> QED
    BY <2>1, <2>2, <1>6
<1> HIDE DEF kept, anew, again, gone
<1>11. /\ run'.phase = "items" /\ run'.new = run.new /\ run'.held = run.held /\ run'.queue = run.queue
       /\ run'.batch = kept \cup anew /\ run'.found = {} /\ run'.skipped = run.skipped \cup gone
       /\ run'.committed = run.committed /\ run'.failed = run.failed /\ run'.files = run.files
  BY <1>0, <1>1 DEF RunFields
<1>12. run' \in RunFields
  <2>1. kept \cup anew \in SUBSET Writes /\ again \in SUBSET BackupIds /\ gone \in SUBSET BackupIds
    BY <1>2, <1>10
  <2> QED
    BY <1>0, <1>1, <2>1 DEF RunFields
<1>13. RunTyped'
  <2>1. \A w : BaseIsDead(w)' <=> BaseIsDead(w)
    BY <1>0 DEF BaseIsDead
  <2> QED
    BY <1>0, <1>10, <1>11, <1>12, <2>1 DEF RestoreInv, RunTyped, RunFields
<1>14. Pending' = IdsOf(run'.queue) \cup IdsOf(run'.batch) /\ Pending = IdsOf(run.queue) \cup IdsOf(run.batch)
       /\ IdsOf(run.queue)' = IdsOf(run'.queue) /\ IdsOf(run.batch)' = IdsOf(run'.batch)
  BY <1>0, <1>11 DEF Pending, IdsOf
<1>15. IdsOf(run'.queue) = IdsOf(run.queue) /\ IdsOf(run'.batch) = (IdsOf(run.batch) \ run.found) \cup again
  BY <1>7, <1>8, <1>9, <1>11
<1>16. RunAccounts'
  <2> DEFINE told == run.committed \cup run.skipped \cup run.failed
  <2>1. /\ IdsOf(run.queue) \cup IdsOf(run.batch) \cup run.committed \cup run.skipped \cup run.failed = BackupIds
        /\ (IdsOf(run.queue) \cup IdsOf(run.batch)) \cap (run.committed \cup run.skipped \cup run.failed) = {}
        /\ run.committed \cap (run.skipped \cup run.failed) = {}
        /\ IdsOf(run.queue) \cap IdsOf(run.batch) = {}
    BY <1>0, <1>14 DEF RestoreInv, RunAccounts
  <2>2. /\ Pending' \cup run'.committed \cup run'.skipped \cup run'.failed = BackupIds
        /\ Pending' \cap (run'.committed \cup run'.skipped \cup run'.failed) = {}
        /\ run'.committed \cap (run'.skipped \cup run'.failed) = {}
        /\ IdsOf(run'.queue) \cap IdsOf(run'.batch) = {}
    BY <1>2, <1>11, <1>14, <1>15, <2>1
  <2> QED
    BY <1>11, <1>14, <2>2 DEF RunAccounts
<1>17. RunFiles'
  BY <1>0, <1>11 DEF RestoreInv, RunFiles
<1>18. RowsSound' /\ NothingIsForgotten'
  BY <1>0 DEF RestoreInv, RowsSound, NothingIsForgotten
<1> QED
  BY <1>13, <1>16, <1>17, <1>18 DEF RestoreInv

LEMMA FinishStep ==
    ASSUME RestoreInv, FinishRestore
    PROVE  RestoreInv'
<1>0. /\ run # NoRun /\ run.phase = "items" /\ run.batch = {} /\ run.queue = {} /\ run' = NoRun
      /\ identityFiles' = IF "identity" \in run.files \ run.new THEN Append(identityFiles, "file") ELSE identityFiles
      /\ outcome' = [restored |-> run.committed, skipped |-> run.skipped, failed |-> run.failed]
      /\ UNCHANGED rows
  BY DEF FinishRestore
<1>1. Pending = {}
  BY <1>0 DEF Pending, IdsOf
<1>2. /\ run.committed \cup run.skipped \cup run.failed = BackupIds
      /\ run.committed \cap (run.skipped \cup run.failed) = {}
  BY <1>0, <1>1 DEF RestoreInv, RunAccounts
<1>3. NothingIsForgotten'
  BY <1>0, <1>2 DEF NothingIsForgotten
<1>4. identityFiles' \in {<<>>, <<"file">>}
  <2>1. Append(<<>>, "file") = <<"file">>
    OBVIOUS
  <2> QED
    BY <1>0, <2>1 DEF RestoreInv, RunFiles
<1>5. RowsSound' /\ RunTyped' /\ RunAccounts' /\ RunFiles'
  BY <1>0, <1>4 DEF RestoreInv, RowsSound, RunTyped, RunAccounts, RunFiles
<1> QED
  BY <1>3, <1>5 DEF RestoreInv

\* Nothing of the restore moves.
LEMMA RestoreStays ==
    ASSUME RestoreInv, UNCHANGED <<rows, run, identityFiles, outcome>>
    PROVE  RestoreInv'
BY DEF RestoreInv, RowsSound, RunTyped, RunAccounts, RunFiles, NothingIsForgotten, Pending, IdsOf, BaseIsDead

LEMMA RestoreStep ==
    ASSUME RestoreInv, [BackupNext]_backupVars
    PROVE  RestoreInv' /\ (\A i \in BackupIds : rows[i].live /\ rows'[i] # rows[i] => rows'[i].by # "restore")
<1>1. CASE Spoil \/ UNCHANGED backupVars
  BY <1>1, RestoreStays DEF Spoil, backupVars
<1>2. CASE Export
  BY <1>2, RestoreStays DEF Export
<1>3. CASE StartRestore
  BY <1>3, StartStep DEF StartRestore
<1>4. CASE StageRestore
  BY <1>4, StageStep DEF StageRestore
<1>5. CASE TakeBatch
  BY <1>5, TakeStep DEF TakeBatch
<1>6. CASE SendRestore
  BY <1>6, SendStep
<1>7. CASE ResolveConflicts
  BY <1>7, ResolveStep DEF ResolveConflicts
<1>8. CASE FinishRestore
  BY <1>8, FinishStep DEF FinishRestore
<1>9. CASE RestoreFails
  BY <1>9, FailsStep
<1>10. ASSUME NEW i \in BackupIds, UploadFile(i) PROVE RestoreInv' /\ rows' = rows
  BY <1>10, UploadStep DEF UploadFile
<1>11. ASSUME NEW j \in BackupIds, OtherWrites(j)
       PROVE  RestoreInv' /\ (\A i \in BackupIds : rows[i].live /\ rows'[i] # rows[i] => rows'[i].by # "restore")
  BY <1>11, OtherStep
<1> QED
  BY <1>1, <1>2, <1>3, <1>4, <1>5, <1>6, <1>7, <1>8, <1>9, <1>10, <1>11 DEF BackupNext

\* A restore never writes over a live item, whatever other devices do between
\* its pull, its question about the conflicts and its writes (client
\* restore.rs, push_restore and resolve_conflicts).
THEOREM NeverOverwritesHolds == BackupSpec => NeverOverwrites
<1>1. BackupInit => RestoreInv
  BY RestoreStarts
<1>2. RestoreInv /\ [BackupNext]_backupVars => RestoreInv'
  BY RestoreStep
<1>3. RestoreInv /\ [BackupNext]_backupVars
      => [\A i \in BackupIds : rows[i].live /\ rows'[i] # rows[i] => rows'[i].by # "restore"]_backupVars
  BY RestoreStep
<1> QED
  BY <1>1, <1>2, <1>3, PTL DEF BackupSpec, NeverOverwrites

-----------------------------------------------------------------------------
(* Backup: the file of an export                                            *)

CopySound ==
    copy # NoRun =>
      /\ copy \in [format : Formats, shape : Shapes, written : Nat, file : {copy.file}]
      /\ copy.file \in Damage(FileRecords(copy.written))

\* A file is among what may become of it.
LEMMA Undamaged == \A f : f \in Damage(f)
BY DEF Damage

LEMMA CopyStep ==
    ASSUME CopySound, [BackupNext]_backupVars
    PROVE  CopySound'
<1>1. CASE Spoil
  <2>1. PICK f \in Damage(FileRecords(copy.written)) : copy' = [copy EXCEPT !.file = f]
    BY <1>1 DEF Spoil
  <2>2. copy \in [format : Formats, shape : Shapes, written : Nat, file : {copy.file}]
    BY <1>1 DEF Spoil, CopySound
  <2>3. /\ copy'.format = copy.format /\ copy'.shape = copy.shape /\ copy'.written = copy.written /\ copy'.file = f
        /\ copy' \in [format : Formats, shape : Shapes, written : Nat, file : {f}]
    BY <2>1, <2>2
  <2>4. copy'.file \in Damage(FileRecords(copy'.written))
    BY <2>3
  <2>5. copy' \in [format : Formats, shape : Shapes, written : Nat, file : {copy'.file}]
    BY <2>3
  <2> HIDE DEF Damage, FileRecords
  <2>6. Damage(FileRecords(copy.written))' = Damage(FileRecords(copy'.written))
    BY DEF Damage, FileRecords
  <2> QED
    BY <2>4, <2>5, <2>6 DEF CopySound
<1>2. CASE Export
  <2>0. PICK format \in Formats, s \in Shapes :
            LET n == IF format = "backup" /\ s.opens THEN s.files ELSE 0 IN
            copy' = [format |-> format, shape |-> s, written |-> n, file |-> FileRecords(n)]
    BY <1>2 DEF Export
  <2> DEFINE n == IF format = "backup" /\ s.opens THEN s.files ELSE 0
  <2>1. copy' = [format |-> format, shape |-> s, written |-> n, file |-> FileRecords(n)]
    BY <2>0
  <2>2. n \in Nat
    BY DEF Shapes, ItemShapes
  <2> HIDE DEF n
  <2>3. /\ copy'.written = n /\ copy'.file = FileRecords(n)
        /\ copy' \in [format : Formats, shape : Shapes, written : Nat, file : {copy'.file}]
    BY <2>1, <2>2
  <2>4. copy'.file \in Damage(FileRecords(copy'.written))
    BY <2>3, Undamaged
  <2>5. Damage(FileRecords(copy.written))' = Damage(FileRecords(copy'.written))
    BY DEF Damage, FileRecords
  <2> QED
    BY <2>3, <2>4, <2>5 DEF CopySound
<1>3. CASE StartRestore
  BY <1>3 DEF StartRestore, CopySound
<1>4. CASE UNCHANGED copy
  <2>1. copy' = copy
    BY <1>4
  <2>2. Damage(FileRecords(copy.written))' = Damage(FileRecords(copy'.written))
    BY DEF Damage, FileRecords
  <2> QED
    BY <2>1, <2>2 DEF CopySound
<1> QED
  BY <1>1, <1>2, <1>3, <1>4
  DEF BackupNext, backupVars, StageRestore, TakeBatch, SendRestore, ResolveConflicts, FinishRestore, RestoreFails,
      UploadFile, OtherWrites

\* What the summary counts and what is in the file are the item, each part
\* in one of the two.
LEMMA SummaryAddsUp ==
    ASSUME NEW format \in Formats, NEW s \in Shapes
    PROVE  /\ InFile(format, s) \cup (LeftOutBy(format, s) \cap Parts(s)) = Parts(s)
           /\ InFile(format, s) \cap LeftOutBy(format, s) = {}
<1>1. s.type \in {"login", "note", "card", "bank", "identity"} /\ s.opens \in BOOLEAN
      /\ (s.fields > 0 => s.type \in {"login", "note", "bank"})
      /\ (s.history > 0 => s.type = "login") /\ (s.passkeys > 0 => s.type = "login")
  BY DEF Shapes, ItemShapes, BackupTypes
<1> DEFINE fi == s.fields > 0
           hi == s.history > 0
           pa == s.passkeys > 0
           fl == s.files > 0
<1>2. Parts(s) = {"item"} \cup (IF fi THEN {"fields"} ELSE {}) \cup (IF hi THEN {"history"} ELSE {})
                 \cup (IF pa THEN {"passkeys"} ELSE {}) \cup (IF fl THEN {"files"} ELSE {})
  BY DEF Parts
<1>3. /\ fi => s.type \in {"login", "note", "bank"}
      /\ hi => s.type = "login" 
      /\ pa => s.type = "login"
  BY <1>1
<1> HIDE DEF fi, hi, pa, fl
<1>4. CASE ~s.opens
  BY <1>2, <1>4 DEF InFile, LeftOutBy
<1>5. CASE s.opens /\ format = "backup"
  BY <1>2, <1>5 DEF InFile, LeftOutBy
<1>6. CASE s.opens /\ format = "backup without files"
  BY <1>2, <1>6 DEF InFile, LeftOutBy, BackupParts
<1>7. CASE s.opens /\ format = "bitwarden"
  BY <1>2, <1>3, <1>7 DEF InFile, LeftOutBy, BitwardenParts
<1>8. CASE s.opens /\ format = "csv"
  BY <1>1, <1>2, <1>3, <1>8 DEF InFile, LeftOutBy, CsvParts
<1> QED
  BY <1>1, <1>4, <1>5, <1>6, <1>7, <1>8 DEF Formats

\* A damaged file that is read to its end is the file that was written.
LEMMA ReadIsWritten ==
    ASSUME NEW n \in Nat, NEW g \in Damage(FileRecords(n)), ReadsWhole(g, n + 1)
    PROVE  g = FileRecords(n)
<1> DEFINE f == FileRecords(n)
           R == [sealedAt : Nat, of : {"items", "file"}]
           r == [i \in 1..n + 1 |-> [sealedAt |-> i - 1, of |-> IF i = 1 THEN "items" ELSE "file"]]
<1>1. f = [count |-> n + 1, records |-> r] /\ f.count = n + 1 /\ f.records = r
  BY DEF FileRecords
<1>2. r \in Seq(R) /\ Len(r) = n + 1 /\ \A i \in 1..n + 1 : r[i].sealedAt = i - 1
  <2>1. \A i \in 1..n + 1 : [sealedAt |-> i - 1, of |-> IF i = 1 THEN "items" ELSE "file"] \in R
    OBVIOUS
  <2>2. r \in [1..n + 1 -> R]
    BY <2>1
  <2>3. \A i \in 1..n + 1 : r[i].sealedAt = i - 1
    OBVIOUS
  <2> HIDE DEF r, R
  <2> QED
    BY <2>2, <2>3
<1> HIDE DEF f, r, R
<1>3. /\ g.count \in Nat => \A i \in 1..g.count : i <= Len(g.records) /\ g.records[i].sealedAt = i - 1 /\ g.count = n + 1
      /\ Len(g.records) = g.count
  BY DEF ReadsWhole, RecordOpens
<1>5. ASSUME NEW k \in 0..Len(r), g = [f EXCEPT !.records = SubSeq(f.records, 1, k)] PROVE g = f
  <2>1. g.count = n + 1 /\ g.records = SubSeq(r, 1, k) /\ g = [count |-> n + 1, records |-> SubSeq(r, 1, k)]
    BY <1>1, <1>5
  <2>2. Len(SubSeq(r, 1, k)) = k
    BY <1>2
  <2>3. k = n + 1
    BY <1>3, <2>1, <2>2
  <2>4. SubSeq(r, 1, n + 1) = r
    BY <1>2
  <2> QED
    BY <1>1, <2>1, <2>3, <2>4
<1>6. ASSUME g = [f EXCEPT !.records = f.records \o f.records] PROVE g = f
  <2>1. g.count = n + 1 /\ g.records = r \o r
    BY <1>1, <1>6
  <2>2. Len(r \o r) = 2 * (n + 1)
    BY <1>2
  <2> QED
    BY <1>3, <2>1, <2>2
<1>7. ASSUME g = [f EXCEPT !.records = Reverse(f.records)] PROVE g = f
  <2>1. g.count = n + 1 /\ g.records = Reverse(r) /\ g = [count |-> n + 1, records |-> Reverse(r)]
    BY <1>1, <1>7
  <2>2. Reverse(r) = [i \in 1..Len(r) |-> r[(Len(r) - i) + 1]]
    BY DEF Reverse
  <2>3. Reverse(r)[1] = r[n + 1] /\ r[n + 1].sealedAt = n
    BY <1>2, <2>2
  <2>4. g.records[1].sealedAt = 0
    BY <1>3, <2>1
  <2>5. n = 0
    BY <2>1, <2>3, <2>4
  <2>6. Reverse(r) = [i \in 1..1 |-> r[1]] /\ r = [i \in 1..1 |-> r[1]]
    BY <1>2, <2>2, <2>5
  <2> QED
    BY <1>1, <2>1, <2>6
<1>8. ASSUME NEW c \in 1..f.count, g = [f EXCEPT !.count = c] PROVE g = f
  <2>1. c \in 1..n + 1 /\ g.count = c /\ g = [count |-> c, records |-> r]
    BY <1>1, <1>8
  <2>2. c = n + 1
    BY <1>3, <2>1
  <2> QED
    BY <1>1, <2>1, <2>2
<1>9. \/ g = f
      \/ \E k \in 0..Len(r) : g = [f EXCEPT !.records = SubSeq(f.records, 1, k)]
      \/ g = [f EXCEPT !.records = f.records \o f.records]
      \/ g = [f EXCEPT !.records = Reverse(f.records)]
      \/ \E c \in 1..f.count : g = [f EXCEPT !.count = c]
  <2>1. g \in Damage(f)
    BY DEF f
  <2> QED
    BY <1>1, <2>1, Zenon DEF Damage
<1>10. g = f
  BY <1>5, <1>6, <1>7, <1>8, <1>9
<1> QED
  BY <1>10 DEF f

\* An export says what it leaves out, a damaged backup is refused, and what a
\* restore reports is what it did (export.rs, backup.rs, client restore.rs).
THEOREM BackupsAreTrueHolds == BackupSpec => []BackupsAreTrue
<1>1. BackupInit => RestoreInv /\ CopySound
  BY RestoreStarts DEF BackupInit, CopySound
<1>2. RestoreInv /\ CopySound /\ [BackupNext]_backupVars => (RestoreInv /\ CopySound)'
  BY RestoreStep, CopyStep
<1>3. ASSUME RestoreInv, CopySound PROVE BackupsAreTrue
  <2>1. FilesComeOnce
    <3>1. Len(<<>>) = 0 /\ Len(<<"file">>) = 1
      OBVIOUS
    <3>2. identityFiles = <<>> \/ identityFiles = <<"file">>
      BY <1>3 DEF RestoreInv, RunFiles
    <3>3. Len(identityFiles) = 0 \/ Len(identityFiles) = 1
      BY <3>1, <3>2
    <3>4. \A k : k = 0 \/ k = 1 => k <= 1
      OBVIOUS
    <3> QED
      BY <3>3, <3>4, Zenon DEF FilesComeOnce
  <2>2. ASSUME copy # NoRun
        PROVE  copy.format \in Formats /\ copy.shape \in Shapes /\ copy.written \in Nat
               /\ copy.file \in Damage(FileRecords(copy.written))
    BY <1>3, <2>2 DEF CopySound
  <2>3. SummaryIsTrue
    BY <2>2, SummaryAddsUp DEF SummaryIsTrue
  <2>4. WholeOrRefused
    BY <2>2, ReadIsWritten DEF WholeOrRefused
  <2> QED
    BY <1>3, <2>1, <2>3, <2>4 DEF RestoreInv, BackupsAreTrue
<1> QED
  BY <1>1, <1>2, <1>3, PTL DEF BackupSpec

-----------------------------------------------------------------------------
(* PhoneFill: what websites said, and what calls know of it                 *)

LinkEntries == [host : LinkHosts, at : Nat, said : Statements \cup {"failed"}]
CallSteps == {"ask", "fetching", "store", "answer", "given", "push", "saved", "unsaved"}
CallFields(target) ==
    [step : CallSteps, end : AskingEnds \cup WritingEnds \cup {"own"}, target : {target}, item : PhoneItems,
     rp : LinkHosts \cup {"none"}, round : {1, 2}, asked : Nat, copy : SUBSET LinkEntries, hosts : SUBSET LinkHosts]

\* A website publishes what it says now, and never before now what it said.
SitesSound ==
    /\ day \in Nat /\ sites \in [LinkHosts -> Statements] /\ published \in [LinkHosts -> [Naming -> Int]]
    /\ \A h \in LinkHosts : \A s \in Naming : published[h][s] <= day
    /\ \A h \in LinkHosts : sites[h] \in Naming => published[h][sites[h]] = day

\* An answer in a cache that names an app was published then or later.
LinkTrue(e) == e.said \in Naming => published[e.host][e.said] >= e.at

\* Hosts that vouch for the app of a call did so lately when it asked.
HostsTrue(r) == \A h \in r.hosts : NamedLately(h, Naming, r.target.app, r.asked)

\* An item of no website is what a call without a match asks for.
EndFits(r) == /\ r.end = "own" => ~SiteBound(r.item)
              /\ r.end \in PasskeyEnds => r.rp \in LinkHosts

CallSound(r) ==
    r # NoPhoneCall =>
      /\ r \in CallFields(r.target)
      /\ r.asked <= day
      /\ \A e \in r.copy : LinkTrue(e)
      /\ r.step = "answer" /\ r.end \notin PasskeyEnds => HostsTrue(r)
      /\ EndFits(r)

LinksSound == links \subseteq LinkEntries /\ \A e \in links : LinkTrue(e)

PhoneInv == SitesSound /\ LinksSound /\ DOMAIN calls = PhoneCalls /\ \A c \in PhoneCalls : CallSound(calls[c])

USE PhoneFillAssumption

\* What was published lately stays so.
Onward == /\ day' >= day
          /\ \A h \in LinkHosts : \A s \in Naming : published'[h][s] >= published[h][s]

LEMMA TrueStays ==
    ASSUME SitesSound, SitesSound', Onward
    PROVE  /\ \A e \in LinkEntries : LinkTrue(e) => LinkTrue(e)'
           /\ \A r : CallSound(r) => CallSound(r)'
<1>1. ASSUME NEW e \in LinkEntries, LinkTrue(e) PROVE LinkTrue(e)'
  <2> SUFFICES ASSUME e.said \in Naming PROVE published'[e.host][e.said] >= e.at
    BY DEF LinkTrue
  <2>1. e.host \in LinkHosts /\ e.at \in Nat /\ published[e.host][e.said] >= e.at
    BY <1>1 DEF LinkEntries, LinkTrue
  <2>2. published'[e.host][e.said] >= published[e.host][e.said]
        /\ published[e.host][e.said] \in Int /\ published'[e.host][e.said] \in Int
    BY <2>1 DEF Onward, SitesSound
  <2> QED
    BY <2>1, <2>2
<1>2. ASSUME NEW r, r \in CallFields(r.target), HostsTrue(r) PROVE HostsTrue(r)'
  <2>1. ASSUME NEW h \in r.hosts PROVE NamedLately(h, Naming, r.target.app, r.asked)'
    <3>1. NamedLately(h, Naming, r.target.app, r.asked) /\ h \in LinkHosts /\ r.asked \in Nat
      BY <1>2, <2>1 DEF HostsTrue, CallFields
    <3>2. PICK s \in Naming : published[h][s] >= 0 /\ published[h][s] >= r.asked - FreshFor
      BY <3>1 DEF NamedLately
    <3>3. published'[h][s] >= published[h][s] /\ published[h][s] \in Int /\ published'[h][s] \in Int
      BY <3>1 DEF Onward, SitesSound
    <3>4. published'[h][s] >= 0 /\ published'[h][s] >= r.asked - FreshFor
      BY <3>1, <3>2, <3>3
    <3> QED
      BY <3>1, <3>4 DEF NamedLately
  <2> QED
    BY <2>1 DEF HostsTrue
<1>3. ASSUME NEW r, CallSound(r), r # NoPhoneCall PROVE CallSound(r)'
  <2>1. r \in CallFields(r.target) /\ EndFits(r) /\ (r.step = "answer" /\ r.end \notin PasskeyEnds => HostsTrue(r)')
    BY <1>2, <1>3 DEF CallSound
  <2>2. \A e \in r.copy : LinkTrue(e)'
    BY <1>1, <1>3, <2>1 DEF CallSound, CallFields
  <2>3. r.asked <= day'
    <3>1. r.asked \in Nat /\ r.asked <= day
      BY <1>3, <2>1 DEF CallSound, CallFields
    <3> QED
      BY <3>1 DEF Onward, SitesSound
  <2> QED
    BY <2>1, <2>2, <2>3 DEF CallSound
<1> QED
  BY <1>1, <1>3 DEF CallSound

LEMMA PhoneStarts == PhoneInit => PhoneInv
<1> SUFFICES ASSUME PhoneInit PROVE PhoneInv
  OBVIOUS
<1>1. PICK w \in [LinkHosts -> Statements] :
        /\ sites = w
        /\ published = [h \in LinkHosts |-> [s \in Naming |-> IF s = w[h] THEN 0 ELSE -1]]
  BY DEF PhoneInit
<1>2. day = 0 /\ links = {} /\ calls = [c \in PhoneCalls |-> NoPhoneCall]
  BY DEF PhoneInit
<1>3. \A h \in LinkHosts : \A s \in Naming : published[h][s] = IF s = w[h] THEN 0 ELSE -1
  BY <1>1
<1>4. published \in [LinkHosts -> [Naming -> Int]]
  BY <1>1
<1>5. SitesSound
  BY <1>1, <1>2, <1>3, <1>4 DEF SitesSound
<1>6. LinksSound /\ DOMAIN calls = PhoneCalls /\ \A c \in PhoneCalls : CallSound(calls[c])
  BY <1>2 DEF LinksSound, CallSound
<1> QED
  BY <1>5, <1>6 DEF PhoneInv

\* The days and the websites move on.
LEMMA DayStep ==
    ASSUME PhoneInv, PhoneDay
    PROVE  PhoneInv'
<1>0. UNCHANGED <<links, sites, calls>> /\ day' = day + 1
      /\ published' = [h \in LinkHosts |-> [s \in Naming |-> IF sites[h] = s THEN day + 1 ELSE published[h][s]]]
  BY DEF PhoneDay
<1>1. SitesSound
  BY DEF PhoneInv
<1>2. day \in Nat /\ day' \in Nat /\ day' >= day
  BY <1>0, <1>1 DEF SitesSound
<1>3. \A h \in LinkHosts : \A s \in Naming :
        /\ published'[h][s] = IF sites[h] = s THEN day + 1 ELSE published[h][s]
        /\ published[h][s] \in Int /\ published[h][s] <= day
  BY <1>0, <1>1 DEF SitesSound
<1>4. published' \in [LinkHosts -> [Naming -> Int]]
  BY <1>0, <1>2, <1>3
<1>5. SitesSound'
  BY <1>0, <1>1, <1>2, <1>3, <1>4 DEF SitesSound
<1>6. Onward
  BY <1>2, <1>3 DEF Onward
<1> QED
  BY <1>0, <1>1, <1>5, <1>6, TrueStays DEF PhoneInv, LinksSound

LEMMA PublishStep ==
    ASSUME PhoneInv, NEW g \in LinkHosts, NEW t \in Statements, Publish(g, t)
    PROVE  PhoneInv'
<1>0. UNCHANGED <<links, day, calls>> /\ sites' = [sites EXCEPT ![g] = t]
      /\ published' = [published EXCEPT ![g] = [s \in Naming |-> IF s = t THEN day ELSE published[g][s]]]
  BY DEF Publish
<1>1. SitesSound
  BY DEF PhoneInv
<1>2. day \in Nat /\ sites' \in [LinkHosts -> Statements]
  BY <1>0, <1>1 DEF SitesSound
<1>3. \A h \in LinkHosts : \A s \in Naming :
        /\ published'[h][s] = IF h = g /\ s = t THEN day ELSE published[h][s]
        /\ published[h][s] \in Int /\ published[h][s] <= day
  BY <1>0, <1>1 DEF SitesSound
<1>4. published' \in [LinkHosts -> [Naming -> Int]]
  <2>1. [s \in Naming |-> IF s = t THEN day ELSE published[g][s]] \in [Naming -> Int]
    BY <1>2, <1>3
  <2> QED
    BY <1>0, <1>1, <2>1 DEF SitesSound
<1>5. SitesSound'
  <2>1. \A h \in LinkHosts : sites'[h] = IF h = g THEN t ELSE sites[h]
    BY <1>0, <1>1 DEF SitesSound
  <2> QED
    BY <1>0, <1>1, <1>2, <1>3, <1>4, <2>1 DEF SitesSound
<1>6. Onward
  BY <1>0, <1>2, <1>3 DEF Onward
<1> QED
  BY <1>0, <1>1, <1>5, <1>6, TrueStays DEF PhoneInv, LinksSound

\* One call moves and the websites stay as they are.
LEMMA CallMoves ==
    ASSUME PhoneInv, NEW c \in PhoneCalls, NEW r, CallGoes(c, r), CallSound(r), UNCHANGED <<sites, published, day>>,
           links' \subseteq LinkEntries /\ \A e \in links' : LinkTrue(e)
    PROVE  PhoneInv' /\ \A d \in PhoneCalls : calls'[d] = IF d = c THEN r ELSE calls[d]
<1>1. SitesSound'
  BY DEF PhoneInv, SitesSound
<1>2. Onward
  BY DEF Onward, PhoneInv, SitesSound
<1>3. LinksSound'
  BY <1>1, <1>2, TrueStays DEF PhoneInv, LinksSound
<1>4. DOMAIN calls' = PhoneCalls /\ \A d \in PhoneCalls : calls'[d] = IF d = c THEN r ELSE calls[d]
  BY DEF PhoneInv, CallGoes
<1>5. \A d \in PhoneCalls : CallSound(calls'[d])
  BY <1>4 DEF PhoneInv
<1>6. \A d \in PhoneCalls : CallSound(calls[d])'
  BY <1>1, <1>2, <1>5, TrueStays DEF PhoneInv
<1> QED
  BY <1>1, <1>3, <1>4, <1>6 DEF PhoneInv

\* The move of a call that leaves the caches alone.
LEMMA CallStays ==
    ASSUME PhoneInv, NEW c \in PhoneCalls, NEW r, CallGoes(c, r), CallSound(r), UNCHANGED <<links, sites, published, day>>
    PROVE  PhoneInv' /\ \A d \in PhoneCalls : calls'[d] = IF d = c THEN r ELSE calls[d]
<1>1. links' \subseteq LinkEntries /\ \A e \in links' : LinkTrue(e)
  BY DEF PhoneInv, LinksSound
<1> QED
  BY <1>1, CallMoves

LEMMA EndedIsSound == CallSound(NoPhoneCall)
BY DEF CallSound

\* A call at a step: its record.
LEMMA CallAt ==
    ASSUME PhoneInv, NEW c \in PhoneCalls, NEW s \in CallSteps, calls[c].step = s
    PROVE  calls[c] # NoPhoneCall /\ calls[c] \in CallFields(calls[c].target) /\ CallSound(calls[c])
<1>1. NoPhoneCall.step = "none"
  BY DEF NoPhoneCall
<1>2. calls[c] # NoPhoneCall
  BY <1>1 DEF CallSteps
<1> QED
  BY <1>2 DEF PhoneInv, CallSound

\* A call that goes on to another step as it is.
LEMMA StepOn ==
    ASSUME NEW r, r # NoPhoneCall, CallSound(r), NEW s \in CallSteps, s # "answer"
    PROVE  CallSound([r EXCEPT !.step = s]) /\ [r EXCEPT !.step = s].step = s
<1> DEFINE n == [r EXCEPT !.step = s]
<1>1. r \in CallFields(r.target)
  BY DEF CallSound
<1>2. n.step = s /\ n.end = r.end /\ n.target = r.target /\ n.item = r.item /\ n.rp = r.rp
      /\ n.copy = r.copy /\ n.hosts = r.hosts
  BY <1>1 DEF CallFields
<1>3. n.asked = r.asked
  BY <1>1 DEF CallFields
<1>4. n \in CallFields(n.target)
  BY <1>1, <1>2 DEF CallFields
<1> HIDE DEF n
<1>5. EndFits(n)
  BY <1>2 DEF CallSound, EndFits, SiteBound
<1>6. CallSound(n)
  BY <1>2, <1>3, <1>4, <1>5 DEF CallSound
<1> QED
  BY <1>2, <1>6 DEF n

\* What the copy of a call verifies was said lately.
LEMMA VerifiedIsSound ==
    ASSUME SitesSound, NEW r, r # NoPhoneCall, r \in CallFields(r.target), r.asked <= day,
           \A e \in r.copy : LinkTrue(e), EndFits(r)
    PROVE  CallSound(Verified(r)) /\ Verified(r).step = "answer"
<1> DEFINE n == Verified(r)
<1>1. /\ n.step = "answer" /\ n.end = r.end /\ n.target = r.target /\ n.item = r.item /\ n.rp = r.rp /\ n.copy = {}
      /\ n.hosts = IF r.end \in PasskeyEnds THEN {} ELSE VerifiedHosts(r.copy, r.target.app, r.asked)
  BY DEF CallFields, Verified
<1>2. n.asked = IF r.end \in PasskeyEnds THEN 0 ELSE r.asked
  BY DEF CallFields, Verified
<1>3. r.copy \subseteq LinkEntries /\ r.asked \in Nat /\ day \in Nat
  BY DEF CallFields, SitesSound
<1>4. ASSUME NEW h \in VerifiedHosts(r.copy, r.target.app, r.asked)
      PROVE  h \in LinkHosts /\ NamedLately(h, Naming, r.target.app, r.asked)
  <2>1. PICK e \in r.copy : e.host = h /\ FreshLink(e, r.asked) /\ VouchesFor(e.said, r.target.app)
    BY <1>4 DEF VerifiedHosts
  <2>2. e.host \in LinkHosts /\ e.at \in Nat
    BY <1>3, <2>1 DEF LinkEntries
  <2>3. e.said \in Naming /\ r.target.app = Genuine
    BY <2>1 DEF VouchesFor
  <2>4. published[h][e.said] >= e.at
    BY <2>1, <2>3 DEF LinkTrue
  <2>5. e.said # "failed"
    BY <2>3 DEF Naming
  <2>6. r.asked - e.at <= FreshFor
    BY <1>3, <2>1, <2>2, <2>5 DEF FreshLink
  <2>7. published[h][e.said] \in Int
    BY <2>1, <2>2, <2>3 DEF SitesSound
  <2>8. published[h][e.said] >= 0 /\ published[h][e.said] >= r.asked - FreshFor
    BY <1>3, <2>2, <2>4, <2>6, <2>7
  <2> QED
    BY <2>1, <2>2, <2>3, <2>8 DEF NamedLately
<1>5. n.hosts \subseteq LinkHosts
  BY <1>1, <1>4
<1>6. n \in CallFields(n.target)
  <2> DEFINE hs == n.hosts
             ak == n.asked
  <2>1. n = [r EXCEPT !.step = "answer", !.copy = {}, !.asked = ak, !.hosts = hs]
    BY <1>1, <1>2 DEF Verified
  <2>2. hs \subseteq LinkHosts /\ ak \in Nat
    BY <1>2, <1>3, <1>5
  <2>3. n.target = r.target
    BY <1>1
  <2> HIDE DEF hs, ak, n
  <2> QED
    BY <2>1, <2>2, <2>3 DEF CallFields, CallSteps
<1> HIDE DEF n
<1>7. EndFits(n)
  BY <1>1 DEF EndFits, SiteBound
<1>8. n.end \notin PasskeyEnds => HostsTrue(n)
  BY <1>1, <1>2, <1>4 DEF HostsTrue
<1>9. n.asked <= day
  BY <1>2, <1>3
<1>10. CallSound(n)
  BY <1>1, <1>6, <1>7, <1>8, <1>9 DEF CallSound
<1> QED
  BY <1>1, <1>10 DEF n

\* The condition OnlyForItsOwn puts on a step.
ForItsOwn ==
    \A c \in PhoneCalls :
         /\ calls[c].step = "answer" /\ calls'[c].step = "given"
         /\ SiteBound(calls[c].item)
         => MayHave(calls[c])

LEMMA EndedNotGiven == NoPhoneCall.step # "given" /\ NoPhoneCall.step # "answer"
BY DEF NoPhoneCall

\* A step at whose end no call is newly given.
LEMMA NothingGiven ==
    ASSUME NEW c \in PhoneCalls, NEW r, \A d \in PhoneCalls : calls'[d] = IF d = c THEN r ELSE calls[d],
           calls[c].step # "answer" \/ r.step # "given"
    PROVE  ForItsOwn
BY DEF ForItsOwn

\* A call ends.
LEMMA EndStep ==
    ASSUME PhoneInv, NEW c \in PhoneCalls, CallEnds(c), UNCHANGED <<links, sites, published, day>>
    PROVE  PhoneInv' /\ ForItsOwn
BY CallStays, EndedIsSound, EndedNotGiven, NothingGiven DEF CallEnds

LEMMA ServeStepPhone ==
    ASSUME PhoneInv, NEW c \in PhoneCalls, NEW name, NEW k, NEW t, NEW end \in AskingEnds \cup WritingEnds \cup {"own"},
           Serve(c, name, k, t, end)
    PROVE  PhoneInv' /\ ForItsOwn
<1>1. PICK i \in (IF end \in {"own", "saveCard"} THEN {<<"any", "card">>} ELSE LinkHosts \X {"login"}),
           rp \in (IF end \in PasskeyEnds THEN LinkHosts ELSE {"none"}) :
        CallGoes(c, [step |-> FirstStep(end, t), end |-> end, target |-> t, item |-> i, rp |-> rp,
                     round |-> 1, asked |-> 0, copy |-> {}, hosts |-> {}])
  BY DEF Serve
<1>2. i \in PhoneItems /\ (end = "own" => ~SiteBound(i)) /\ rp \in LinkHosts \cup {"none"} /\ (end \in PasskeyEnds => rp \in LinkHosts)
  <2>1. CASE end \in {"own", "saveCard"}
    <3>1. i = <<"any", "card">>
      BY <2>1
    <3>2. end \notin PasskeyEnds
      BY <2>1 DEF PasskeyEnds
    <3> QED
      BY <3>1, <3>2 DEF PhoneItems, SiteBound
  <2>2. CASE end \notin {"own", "saveCard"}
    BY <2>2 DEF PhoneItems
  <2> QED
    BY <2>1, <2>2
<1> DEFINE n == [step |-> FirstStep(end, t), end |-> end, target |-> t, item |-> i, rp |-> rp,
                 round |-> 1, asked |-> 0, copy |-> {}, hosts |-> {}]
<1>3. n.step \in {"ask", "answer"} /\ n.end = end /\ n.target = t /\ n.item = i /\ n.rp = rp /\ n.copy = {} /\ n.hosts = {}
  BY DEF FirstStep
<1>4. n.asked = 0
  OBVIOUS
<1>5. n \in CallFields(n.target)
  <2>1. FirstStep(end, t) \in CallSteps
    BY DEF FirstStep, CallSteps
  <2> QED
    BY <1>2, <2>1 DEF CallFields
<1>6. calls[c] = NoPhoneCall /\ UNCHANGED <<links, sites, published, day>> /\ CallGoes(c, n)
  BY <1>1 DEF Serve
<1> HIDE DEF n
<1>7. EndFits(n)
  BY <1>2, <1>3 DEF EndFits
<1>8. HostsTrue(n) /\ \A e \in n.copy : LinkTrue(e)
  BY <1>3 DEF HostsTrue
<1>9. n.asked <= day
  BY <1>4 DEF PhoneInv, SitesSound
<1>10. CallSound(n)
  BY <1>5, <1>7, <1>8, <1>9 DEF CallSound
<1> QED
  BY <1>6, <1>10, CallStays, EndedNotGiven, NothingGiven

LEMMA ReadStep ==
    ASSUME PhoneInv, NEW c \in PhoneCalls, ReadLinks(c)
    PROVE  PhoneInv' /\ ForItsOwn
<1>0. calls[c].step = "ask" /\ UNCHANGED <<links, sites, published, day>>
  BY DEF ReadLinks
<1>1. CASE CallEnds(c)
  BY <1>0, <1>1, EndStep
<1>2. CASE ~CallEnds(c)
  <2>1. PICK setting \in BOOLEAN :
          LET stale == IF setting THEN {h \in ToAsk(calls[c]) : ~\E e \in links : e.host = h /\ FreshLink(e, day)} ELSE {}
              r == [calls[c] EXCEPT !.asked = day, !.copy = links, !.hosts = stale, !.step = "fetching"]
          IN  CallGoes(c, IF stale = {} THEN Verified(r) ELSE r)
    BY <1>2 DEF ReadLinks
  <2> DEFINE o == calls[c]
             stale == IF setting THEN {h \in ToAsk(calls[c]) : ~\E e \in links : e.host = h /\ FreshLink(e, day)} ELSE {}
             r == [o EXCEPT !.asked = day, !.copy = links, !.hosts = stale, !.step = "fetching"]
  <2>2. CallGoes(c, IF stale = {} THEN Verified(r) ELSE r)
    BY <2>1
  <2>3. o # NoPhoneCall /\ o \in CallFields(o.target) /\ EndFits(o)
    BY <1>0, CallAt DEF CallSteps, CallSound
  <2>4. stale \subseteq LinkHosts
    <3>1. ToAsk(o) \subseteq LinkHosts
      <4>1. o.end \in PasskeyEnds => o.rp \in LinkHosts
        BY <2>3 DEF EndFits
      <4> HIDE DEF o
      <4> QED
        BY <4>1 DEF ToAsk
    <3> QED
      BY <3>1
  <2>5. links \subseteq LinkEntries /\ (\A e \in links : LinkTrue(e)) /\ day \in Nat /\ SitesSound
    BY DEF PhoneInv, LinksSound, SitesSound
  <2> HIDE DEF stale, o
  <2>6. r.step = "fetching" /\ r.end = o.end /\ r.target = o.target /\ r.item = o.item /\ r.rp = o.rp /\ r.copy = links
    BY <2>3 DEF CallFields
  <2>7. r.asked = day
    BY <2>3 DEF CallFields
  <2>8. r \in CallFields(r.target)
    BY <2>3, <2>4, <2>5, <2>6 DEF CallFields, CallSteps
  <2> HIDE DEF r
  <2>9. EndFits(r) /\ r # NoPhoneCall /\ r.step # "given" /\ r.step # "answer"
    BY <2>3, <2>6 DEF EndFits, NoPhoneCall, SiteBound
  <2>10. r.asked <= day
    BY <2>5, <2>7
  <2>11. CallSound(r)
    BY <2>5, <2>6, <2>8, <2>9, <2>10 DEF CallSound
  <2>12. CallSound(Verified(r))
    BY <2>5, <2>6, <2>8, <2>9, <2>10, VerifiedIsSound
  <2>13. CallSound(IF stale = {} THEN Verified(r) ELSE r)
    BY <2>11, <2>12
  <2> QED
    BY <1>0, <2>2, <2>13, CallStays, NothingGiven
<1> QED
  BY <1>1, <1>2

LEMMA FetchStep ==
    ASSUME PhoneInv, NEW c \in PhoneCalls, FetchLinks(c)
    PROVE  PhoneInv' /\ ForItsOwn
<1> DEFINE r == calls[c]
<1>0. r.step = "fetching" /\ UNCHANGED <<links, sites, published, day>>
  BY DEF FetchLinks
<1>1. PICK down \in SUBSET r.hosts :
         LET new == {[host |-> h, at |-> r.asked, said |-> IF h \in down THEN "failed" ELSE sites[h]] : h \in r.hosts}
             all == {e \in r.copy : e.host \notin r.hosts} \cup new
         IN \E kept \in SUBSET all : KeptLinks(all, kept) /\ CallGoes(c, [r EXCEPT !.copy = kept, !.step = "store"])
  BY DEF FetchLinks
<1> DEFINE new == {[host |-> h, at |-> r.asked, said |-> IF h \in down THEN "failed" ELSE sites[h]] : h \in r.hosts}
           all == {e \in r.copy : e.host \notin r.hosts} \cup new
<1>2. PICK kept \in SUBSET all : CallGoes(c, [r EXCEPT !.copy = kept, !.step = "store"])
  BY <1>1
<1>3. r # NoPhoneCall /\ r \in CallFields(r.target) /\ CallSound(r)
  BY <1>0, CallAt DEF CallSteps
<1>4. r.hosts \subseteq LinkHosts /\ r.asked \in Nat /\ r.copy \subseteq LinkEntries /\ (\A e \in r.copy : LinkTrue(e)) /\ r.asked <= day
  BY <1>3 DEF CallFields, CallSound
<1>5. ASSUME NEW h \in r.hosts, NEW said, said = IF h \in down THEN "failed" ELSE sites[h]
      PROVE  /\ [host |-> h, at |-> r.asked, said |-> said] \in LinkEntries
             /\ LinkTrue([host |-> h, at |-> r.asked, said |-> said])
  <2>1. said \in Statements \cup {"failed"} /\ (said \in Naming => said = sites[h])
    BY <1>4, <1>5 DEF PhoneInv, SitesSound, Naming
  <2>2. h \in LinkHosts
    BY <1>4
  <2>3. said \in Naming => published[h][said] = day
    BY <2>1, <2>2 DEF PhoneInv, SitesSound
  <2>4. said \in Naming => published[h][said] >= r.asked
    BY <1>4, <2>3 DEF PhoneInv, SitesSound
  <2> HIDE DEF r
  <2> QED
    BY <1>4, <2>1, <2>2, <2>4 DEF LinkEntries, LinkTrue
<1>6. \A e \in all : e \in LinkEntries /\ LinkTrue(e)
  BY <1>4, <1>5
<1> DEFINE n == [r EXCEPT !.copy = kept, !.step = "store"]
<1>7. kept \subseteq LinkEntries /\ \A e \in kept : LinkTrue(e)
  BY <1>2, <1>6
<1> HIDE DEF r, all, new
<1>8. n.step = "store" /\ n.end = r.end /\ n.target = r.target /\ n.item = r.item /\ n.rp = r.rp /\ n.copy = kept
  BY <1>3 DEF CallFields
<1>9. n.asked = r.asked
  BY <1>3 DEF CallFields
<1>10. n \in CallFields(n.target)
  BY <1>3, <1>7, <1>8 DEF CallFields, CallSteps
<1>11. CallGoes(c, n)
  BY <1>2
<1> HIDE DEF n
<1>12. EndFits(n)
  BY <1>3, <1>8 DEF EndFits, CallSound, SiteBound
<1>13. CallSound(n)
  BY <1>4, <1>7, <1>8, <1>9, <1>10, <1>12 DEF CallSound
<1> QED
  BY <1>0, <1>8, <1>11, <1>13, CallStays, NothingGiven

LEMMA StoreStep ==
    ASSUME PhoneInv, NEW c \in PhoneCalls, StoreLinks(c)
    PROVE  PhoneInv' /\ ForItsOwn
<1> DEFINE r == calls[c]
<1>0. r.step = "store" /\ UNCHANGED <<sites, published, day>> /\ CallGoes(c, Verified(r))
      /\ links' = IF phoneOpen THEN r.copy ELSE links
  BY DEF StoreLinks
<1>1. r # NoPhoneCall /\ r \in CallFields(r.target) /\ CallSound(r)
  BY <1>0, CallAt DEF CallSteps
<1>2. r.copy \subseteq LinkEntries /\ (\A e \in r.copy : LinkTrue(e)) /\ r.asked <= day /\ EndFits(r)
  BY <1>1 DEF CallFields, CallSound
<1>3. links' \subseteq LinkEntries /\ \A e \in links' : LinkTrue(e)
  BY <1>0, <1>2 DEF PhoneInv, LinksSound
<1>4. CallSound(Verified(r)) /\ Verified(r).step = "answer"
  BY <1>1, <1>2, VerifiedIsSound DEF PhoneInv
<1> QED
  BY <1>0, <1>3, <1>4, CallMoves, NothingGiven

\* A call that is given goes as it is.
LEMMA GoOn ==
    ASSUME PhoneInv, NEW c \in PhoneCalls, NEW s \in CallSteps, s # "answer", calls[c] # NoPhoneCall,
           CallGoes(c, [calls[c] EXCEPT !.step = s]), UNCHANGED <<links, sites, published, day>>
    PROVE  /\ PhoneInv'
           /\ (calls[c].step # "answer" \/ s # "given" => ForItsOwn)
           /\ (SiteBound(calls[c].item) => MayHave(calls[c])) => ForItsOwn
<1>1. CallSound(calls[c])
  BY DEF PhoneInv
<1>2. CallSound([calls[c] EXCEPT !.step = s]) /\ [calls[c] EXCEPT !.step = s].step = s
  BY <1>1, StepOn
<1>3. PhoneInv' /\ \A d \in PhoneCalls : calls'[d] = IF d = c THEN [calls[c] EXCEPT !.step = s] ELSE calls[d]
  BY <1>2, CallStays
<1>4. \A d \in PhoneCalls : d # c => ~(calls[d].step = "answer" /\ calls'[d].step = "given")
  BY <1>3
<1> QED
  BY <1>2, <1>3, <1>4 DEF ForItsOwn

\* What the vault agrees to give is the caller's own.
LEMMA GivenIsOwn ==
    ASSUME PhoneInv, NEW c \in PhoneCalls, calls[c].step = "answer", calls[c].end \notin WritingEnds, Gives(calls[c]),
           SiteBound(calls[c].item)
    PROVE  MayHave(calls[c])
<1> DEFINE r == calls[c]
<1>1. r # NoPhoneCall /\ r \in CallFields(r.target) /\ CallSound(r)
  BY CallAt DEF CallSteps
<1>2. r.end \in {"match", "passkey"}
  <2>1. r.end \in AskingEnds \cup WritingEnds \cup {"own"}
    BY <1>1 DEF CallFields
  <2>2. r.end # "own"
    BY <1>1 DEF CallSound, EndFits
  <2> QED
    BY <2>1, <2>2 DEF AskingEnds, WritingEnds
<1>3. CASE r.end = "match"
  <2>1. r.end \notin PasskeyEnds
    BY <1>3 DEF PasskeyEnds
  <2>2. MatchesCall(r.item, r)
    BY <1>3, <2>1 DEF Gives
  <2>3. HostsTrue(r)
    BY <1>1, <2>1 DEF CallSound
  <2>4. r.item[1] \in r.hosts => NamedLately(r.item[1], Naming, r.target.app, r.asked)
    BY <2>3 DEF HostsTrue
  <2> HIDE DEF r
  <2>5. MayHave(r)
    BY <2>1, <2>2, <2>4 DEF MayHave, MatchesCall, MatchesApp
  <2> QED
    BY <2>5 DEF r
<1>4. CASE r.end = "passkey"
  <2>1. r.end \in PasskeyEnds
    BY <1>4 DEF PasskeyEnds
  <2>2. r.item[1] = r.rp /\ RpAllowed(r)
    <3>1. r.end # "match"
      BY <1>4
    <3> HIDE DEF r
    <3>2. Gives(r)
      BY DEF r
    <3> QED
      BY <2>1, <3>1, <3>2 DEF Gives
  <2>3. r.rp \in LinkHosts
    BY <1>1, <2>1 DEF CallSound, EndFits
  <2>4. CASE r.target.kind = "page"
    BY <2>2, <2>4 DEF MayHave, RpAllowed
  <2>5. CASE r.target.kind # "page"
    <3>1. PICK e \in links : e.host = r.rp /\ FreshLink(e, day) /\ e.said = "creds" /\ r.target.app = Genuine
      BY <2>2, <2>5 DEF RpAllowed, AuthorizeAppRp
    <3>2. e.at \in Nat /\ LinkTrue(e)
      BY <3>1 DEF PhoneInv, LinksSound, LinkEntries
    <3>3. "creds" \in Naming /\ e.said # "failed"
      BY <3>1 DEF Naming
    <3>4. published[r.rp]["creds"] >= e.at
      BY <3>1, <3>2, <3>3 DEF LinkTrue
    <3>5. day - e.at <= FreshFor /\ day \in Nat
      BY <3>1, <3>2, <3>3 DEF FreshLink, PhoneInv, SitesSound
    <3>6. published[r.rp]["creds"] \in Int
      BY <2>3, <3>3 DEF PhoneInv, SitesSound
    <3>7. published[r.rp]["creds"] >= 0 /\ published[r.rp]["creds"] >= day - FreshFor
      BY <3>2, <3>4, <3>5, <3>6
    <3>8. NamedLately(r.item[1], {"creds"}, r.target.app, day)
      BY <2>2, <3>1, <3>7 DEF NamedLately
    <3> QED
      BY <2>1, <2>5, <3>8 DEF MayHave
  <2> QED
    BY <2>4, <2>5
<1> QED
  BY <1>2, <1>3, <1>4

LEMMA AnswerStep ==
    ASSUME PhoneInv, NEW c \in PhoneCalls, AnswerPhone(c)
    PROVE  PhoneInv' /\ ForItsOwn
<1>0. calls[c].step = "answer" /\ calls[c].end \notin WritingEnds /\ UNCHANGED <<links, sites, published, day>>
  BY DEF AnswerPhone
<1>1. calls[c] # NoPhoneCall
  BY <1>0, CallAt DEF CallSteps
<1>2. CASE CallEnds(c)
  BY <1>0, <1>2, EndStep
<1>3. CASE Gives(calls[c]) /\ CallGoes(c, [calls[c] EXCEPT !.step = "given"])
  <2>1. SiteBound(calls[c].item) => MayHave(calls[c])
    BY <1>0, <1>3, GivenIsOwn
  <2>2. "given" \in CallSteps /\ "given" # "answer"
    BY DEF CallSteps
  <2> QED
    BY <1>0, <1>1, <1>3, <2>1, <2>2, GoOn
<1> QED
  BY <1>2, <1>3 DEF AnswerPhone

LEMMA CheckStep ==
    ASSUME PhoneInv, NEW c \in PhoneCalls, CheckCreate(c)
    PROVE  PhoneInv' /\ ForItsOwn
<1> DEFINE r == calls[c]
           s == FirstStep("create", r.target)
           n == [r EXCEPT !.round = 2, !.hosts = {}, !.step = s]
<1>0. r.step = "answer" /\ r.end = "create" /\ UNCHANGED <<links, sites, published, day>> /\ (CallEnds(c) \/ CallGoes(c, n))
  BY DEF CheckCreate
<1>1. r # NoPhoneCall /\ r \in CallFields(r.target) /\ CallSound(r)
  BY <1>0, CallAt DEF CallSteps
<1>2. s \in CallSteps /\ s # "given"
  BY DEF FirstStep, CallSteps
<1> HIDE DEF r, s
<1>3. n.step = s /\ n.end = r.end /\ n.target = r.target /\ n.item = r.item /\ n.rp = r.rp /\ n.copy = r.copy
  BY <1>1 DEF CallFields
<1>4. n.asked = r.asked
  BY <1>1 DEF CallFields
<1>5. n \in CallFields(n.target)
  BY <1>1, <1>2, <1>3 DEF CallFields
<1> HIDE DEF n
<1>6. EndFits(n) /\ n.end \in PasskeyEnds
  BY <1>0, <1>1, <1>3 DEF EndFits, CallSound, SiteBound, PasskeyEnds
<1>7. CallSound(n)
  BY <1>1, <1>3, <1>4, <1>5, <1>6 DEF CallSound
<1>8. CASE CallEnds(c)
  BY <1>0, <1>8, EndStep
<1>9. CASE CallGoes(c, n)
  BY <1>0, <1>2, <1>3, <1>7, <1>9, CallStays, NothingGiven
<1> QED
  BY <1>0, <1>8, <1>9

LEMMA WriteSteps ==
    ASSUME PhoneInv, NEW c \in PhoneCalls, StageOnPhone(c) \/ PushFromPhone(c) \/ FillBound(c) \/ ReturnPhone(c)
    PROVE  PhoneInv' /\ ForItsOwn
<1>0. calls[c].step \in {"answer", "push", "saved", "unsaved", "given"} /\ UNCHANGED <<links, sites, published, day>>
  BY DEF StageOnPhone, PushFromPhone, FillBound, ReturnPhone
<1>1. calls[c] # NoPhoneCall
  BY <1>0, CallAt DEF CallSteps
<1>2. CASE CallEnds(c)
  BY <1>0, <1>2, EndStep
<1>3. ASSUME NEW s \in {"push", "saved", "unsaved", "given"}, CallGoes(c, [calls[c] EXCEPT !.step = s]),
             calls[c].step # "answer" \/ s # "given"
      PROVE  PhoneInv' /\ ForItsOwn
  <2>1. s \in CallSteps /\ s # "answer"
    BY DEF CallSteps
  <2> QED
    BY <1>0, <1>1, <1>3, <2>1, GoOn
<1>4. CASE StageOnPhone(c)
  BY <1>2, <1>3, <1>4 DEF StageOnPhone
<1>5. CASE PushFromPhone(c)
  BY <1>2, <1>3, <1>5 DEF PushFromPhone
<1>6. CASE FillBound(c)
  BY <1>2, <1>3, <1>6 DEF FillBound
<1>7. CASE ReturnPhone(c)
  BY <1>2, <1>7 DEF ReturnPhone
<1> QED
  BY <1>4, <1>5, <1>6, <1>7

\* Nothing of what the calls and the websites know moves.
LEMMA PhoneRests ==
    ASSUME PhoneInv, UNCHANGED <<links, sites, published, day, calls>>
    PROVE  PhoneInv' /\ ForItsOwn
<1>1. SitesSound'
  BY DEF PhoneInv, SitesSound
<1>2. Onward
  BY DEF Onward, PhoneInv, SitesSound
<1>3. PhoneInv'
  BY <1>1, <1>2, TrueStays DEF PhoneInv, LinksSound
<1> QED
  BY <1>3 DEF ForItsOwn

LEMMA PhoneStep ==
    ASSUME PhoneInv, [PhoneNext]_phoneVars
    PROVE  PhoneInv' /\ ForItsOwn
<1>1. CASE PhoneLock \/ PhoneUnlock \/ (\E i \in PhoneItems : Unbind(i)) \/ UNCHANGED phoneVars
  BY <1>1, PhoneRests DEF PhoneLock, PhoneUnlock, Unbind, phoneVars
<1>2. CASE PhoneDay
  <2>1. calls' = calls
    BY <1>2 DEF PhoneDay
  <2> QED
    BY <1>2, <2>1, DayStep DEF ForItsOwn
<1>3. ASSUME NEW h \in LinkHosts, NEW s \in Statements, Publish(h, s) PROVE PhoneInv' /\ ForItsOwn
  <2>1. calls' = calls
    BY <1>3 DEF Publish
  <2> QED
    BY <1>3, <2>1, PublishStep DEF ForItsOwn
<1>4. ASSUME NEW c \in PhoneCalls, PhoneCallStep(c) PROVE PhoneInv' /\ ForItsOwn
  <2>1. ASSUME NEW k, NEW frozen, NEW online,
          \/ AutofillMatches(c, k, frozen) \/ AutofillFill(c, k, frozen) \/ AutofillTotp(c, k)
          \/ AutofillSearch(c, k, frozen) \/ AutofillBindAndFill(c, k, frozen) \/ AutofillSave(c, k, online)
          \/ AutofillCards(c, k, frozen) \/ AutofillCardValues(c, k, frozen) \/ AutofillSaveCard(c, k)
          \/ AutofillIdentity(c, k, frozen) \/ AutofillIdentityValues(c, k, frozen)
          \/ PasskeyOffers(c, k) \/ PasskeySignIn(c, k)
          \/ PasskeyCreatePlan(c, k, frozen) \/ PasskeyCreate(c, k, online, frozen)
          \/ CredentialPasswordOffers(c, k, frozen) \/ CredentialPassword(c, k, frozen)
        PROVE  PhoneInv' /\ ForItsOwn
    <3>1. \E name, t : \E end \in AskingEnds \cup WritingEnds \cup {"own"} : Serve(c, name, k, t, end)
      <4>1. {"match", "own", "bind", "save", "saveCard", "passkey", "create"} \subseteq AskingEnds \cup WritingEnds \cup {"own"}
        BY DEF AskingEnds, WritingEnds
      <4> HIDE DEF AskingEnds, WritingEnds
      <4> QED
        BY <2>1, <4>1 DEF AutofillMatches, AutofillFill, AutofillTotp, AutofillSearch, AutofillBindAndFill, AutofillSave,
           AutofillCards, AutofillCardValues, AutofillSaveCard, AutofillIdentity, AutofillIdentityValues, PasskeyOffers,
           PasskeySignIn, PasskeyCreatePlan, PasskeyCreate, CredentialPasswordOffers, CredentialPassword
    <3> QED
      BY <3>1, ServeStepPhone
  <2>2. CASE ReadLinks(c) \/ FetchLinks(c) \/ StoreLinks(c) \/ AnswerPhone(c) \/ CheckCreate(c)
    BY <2>2, ReadStep, FetchStep, StoreStep, AnswerStep, CheckStep
  <2>3. CASE StageOnPhone(c) \/ PushFromPhone(c) \/ FillBound(c) \/ ReturnPhone(c)
    BY <2>3, WriteSteps
  <2> QED
    BY <1>4, <2>1, <2>2, <2>3 DEF PhoneCallStep
<1> QED
  BY <1>1, <1>2, <1>3, <1>4 DEF PhoneNext

\* A login, an account or a passkey leaves the vault only for the website's own
\* page or for an app that the owner bound to it or that the website named in
\* the last seven days, whatever other calls did to the shared cache meanwhile
\* (mobile autofill.rs and credentials.rs, verified_hosts_asking).
THEOREM OnlyForItsOwnHolds == PhoneSpec => OnlyForItsOwn
<1>1. PhoneInit => PhoneInv
  BY PhoneStarts
<1>2. PhoneInv /\ [PhoneNext]_phoneVars => PhoneInv'
  BY PhoneStep
<1>3. PhoneInv /\ [PhoneNext]_phoneVars
      => [\A c \in PhoneCalls :
            /\ calls[c].step = "answer" /\ calls'[c].step = "given"
            /\ SiteBound(calls[c].item)
            => MayHave(calls[c])]_phoneVars
  BY PhoneStep DEF ForItsOwn
<1> QED
  BY <1>1, <1>2, <1>3, PTL DEF PhoneSpec, OnlyForItsOwn

HIDE PhoneFillAssumption

-----------------------------------------------------------------------------
(* The vault content model: one part works, the others rest.                *)

LEMMA EditingAtWork == MCInit /\ [][MCNext]_allVars => EditSpec
<1>1. MCInit => EditInit
  BY DEF MCInit
<1>2. [MCNext]_allVars => [EditNext]_editVars
  BY DEF MCNext, allVars
<1> QED
  BY <1>1, <1>2, PTL DEF EditSpec

LEMMA BackupAtWork == MCInit /\ [][MCNext]_allVars => BackupSpec
<1>1. MCInit => BackupInit
  BY DEF MCInit
<1>2. [MCNext]_allVars => [BackupNext]_backupVars
  BY DEF MCNext, allVars
<1> QED
  BY <1>1, <1>2, PTL DEF BackupSpec

\* Neither an edit on the phone nor a restore takes back what another device
\* wrote since the editor was opened or the backup's items were looked up
\* (mobile edit.rs, save_edit; client restore.rs, push_restore).
THEOREM OthersWritesStayHolds == MCSpec => OthersWritesStay
BY EditingAtWork, BackupAtWork, PhoneEditsKeepOthersHolds, NeverOverwritesHolds DEF MCSpec, OthersWritesStay
=============================================================================
