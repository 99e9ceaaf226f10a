---------------------------- MODULE QuickAccess ----------------------------
(***************************************************************************)
(* Quick Access: a global shortcut that opens a small window over other    *)
(* apps, and the same window opened for a browser that waits for an        *)
(* unlock.  The shortcut is kept in three places: the setting's file, the  *)
(* registration in memory and the operating system, which other apps share *)
(* and which may refuse a chord or a write at any moment.  One mutex lets  *)
(* one change of the shortcut run at a time; a press, the window and a     *)
(* restart come between its steps.                                         *)
(***************************************************************************)
EXTENDS Naturals, FiniteSets

CONSTANTS Typed,            \* what the owner types as a shortcut, or the file holds
          MaxRestarts

VARIABLES setting,          \* quick-access.json
          reg,              \* Registration
          hosted, taken,    \* chords the system gave to HavenKeys, to others
          change,           \* the change under way
          quick,            \* the window, and the notes kept about it
          vaultIs,          \* "none", "locked" or "unlocked"
          showing,          \* a request of the browser on its way to the window
          restarts

quickVars == <<setting, reg, hosted, taken, change, quick, vaultIs, showing, restarts>>
windowVars == <<quick, vaultIs, showing>>
shortcutVars == <<setting, reg, hosted, taken, change, restarts>>

-----------------------------------------------------------------------------
\* A chord: its modifiers and its key.  A text names one in canonical form,
\* in another spelling, or names none.
Chord(mods, key) == [mods |-> mods, key |-> key]
Text(mods, key, form) == [chord |-> Chord(mods, key), form |-> form]

ASSUME QuickAssumption ==
    /\ MaxRestarts \in Nat
    /\ \A t \in Typed : t = Text(t.chord.mods, t.chord.key, t.form)

DefaultShortcut == Chord({"Control", "Shift"}, "Space")
AllowedKeys == {"C", "K", "Q", "3", "F4", "Space"}   \* of the 61 allowed

\* Chords the system or every app needs.
Reserved ==
    {Chord({m}, k) : m \in {"Super", "Control"}, k \in {"C", "Q"}}
    \cup {Chord({"Super"}, "Space"), Chord({"Super", "Shift"}, "3"), Chord({"Alt"}, "F4"),
          Chord({"Super", "Control"}, "Q")}

\* parse_keys: only the canonical name of a chord with Super, Control or Alt.
ParseKeys(t) ==
    CASE t.form # "canonical" \/ t.chord.key \notin AllowedKeys -> "key"
      [] t.chord.mods \cap {"Super", "Control", "Alt"} = {} -> "modifier"
      [] t.chord \in Reserved -> "reserved"
      [] OTHER -> "ok"

\* The file: absent and unreadable read as the default; `keys` is left out
\* for the default shortcut.
NoKeys == Text({}, "none", "none")
NoFile == [on |-> TRUE, keys |-> NoKeys]
StoredText(on, chord) ==
    [on |-> on, keys |-> IF chord = DefaultShortcut THEN NoKeys
                         ELSE Text(chord.mods, chord.key, "canonical")]

\* QuickAccessSetting::chord: keys that do not parse fall back.
ChordOf(s) == IF ParseKeys(s.keys) = "ok" THEN s.keys.chord ELSE DefaultShortcut

Loaded(s) == [enabled |-> s.on, shortcut |-> ChordOf(s), registered |-> FALSE, inUse |-> FALSE]

NoChange == [step |-> "none"]
Hidden == [visible |-> FALSE, forBrowser |-> FALSE, by |-> "nobody"]

QuickInit ==
    /\ setting \in {NoFile} \cup [on : BOOLEAN, keys : Typed]
    /\ reg = Loaded(setting)
    /\ hosted = {} /\ taken = {}
    /\ change = [step |-> "apply"]
    /\ quick = Hidden
    /\ vaultIs \in {"none", "locked"}
    /\ showing = FALSE
    /\ restarts = 0

-----------------------------------------------------------------------------
\* Another app takes or gives back a chord.
OthersTake(c) ==
    /\ c \notin hosted
    /\ taken' = IF c \in taken THEN taken \ {c} ELSE taken \cup {c}
    /\ UNCHANGED <<setting, reg, hosted, change, windowVars, restarts>>

\* apply_locked: the system is brought in line with the registration.
ApplyLocked ==
    /\ change.step = "apply" /\ change' = NoChange
    /\ IF reg.enabled /\ ~reg.registered
         THEN IF reg.shortcut \notin taken
                THEN /\ hosted' = hosted \cup {reg.shortcut}
                     /\ reg' = [reg EXCEPT !.registered = TRUE, !.inUse = FALSE]
                ELSE /\ reg' = [reg EXCEPT !.inUse = TRUE] /\ UNCHANGED hosted
         ELSE IF ~reg.enabled
                THEN /\ hosted' = IF reg.registered THEN hosted \ {reg.shortcut} ELSE hosted
                     /\ reg' = [reg EXCEPT !.registered = FALSE, !.inUse = FALSE]
                ELSE UNCHANGED <<reg, hosted>>
    /\ UNCHANGED <<setting, taken, windowVars, restarts>>

\* QuickAccess::set saves first; a file that cannot be written changes nothing.
SetEnabled(on, saves) ==
    /\ change = NoChange /\ vaultIs = "unlocked"
    /\ IF saves THEN /\ setting' = StoredText(on, reg.shortcut)
                     /\ reg' = [reg EXCEPT !.enabled = on]
                     /\ change' = [step |-> "apply"]
                ELSE UNCHANGED <<setting, reg, change>>
    /\ UNCHANGED <<hosted, taken, windowVars, restarts>>

\* set_shortcut: the same chord again only registers what is missing.  With
\* the shortcut on, the new chord is registered before it is saved.
SetShortcut(t) ==
    /\ change = NoChange /\ vaultIs = "unlocked"
    /\ ParseKeys(t) = "ok"
    /\ IF t.chord = reg.shortcut
         THEN /\ change' = IF reg.enabled /\ ~reg.registered THEN [step |-> "apply"] ELSE NoChange
              /\ UNCHANGED hosted
         ELSE IF reg.enabled
                THEN IF t.chord \in taken THEN UNCHANGED <<change, hosted>>
                     ELSE /\ hosted' = hosted \cup {t.chord}
                          /\ change' = [step |-> "save", next |-> t.chord]
                ELSE change' = [step |-> "save", next |-> t.chord] /\ UNCHANGED hosted
    /\ UNCHANGED <<setting, reg, taken, windowVars, restarts>>

\* Mutant of Unsaved: the chord that could not be saved stays registered.
UnsavedKept(c) == hosted

\* A chord that could not be saved is given back.
Unsaved(c) == IF reg.enabled THEN hosted \ {c} ELSE hosted

SaveShortcut(saves) ==
    /\ change.step = "save"
    /\ IF saves THEN /\ setting' = StoredText(reg.enabled, change.next)
                     /\ change' = [change EXCEPT !.step = "switch"]
                     /\ UNCHANGED hosted
                ELSE /\ hosted' = Unsaved(change.next)
                     /\ change' = NoChange
                     /\ UNCHANGED setting
    /\ UNCHANGED <<reg, taken, windowVars, restarts>>

\* The old chord goes back to the system, then the new one is in force.
SwitchShortcut ==
    /\ change.step = "switch" /\ change' = NoChange
    /\ hosted' = IF reg.enabled /\ reg.registered THEN hosted \ {reg.shortcut} ELSE hosted
    /\ reg' = [reg EXCEPT !.shortcut = change.next, !.registered = reg.enabled, !.inUse = FALSE]
    /\ UNCHANGED <<setting, taken, windowVars, restarts>>

\* The process ends at any step: the system takes its chords back, the next
\* one reads the file.
QuickRestart ==
    /\ restarts < MaxRestarts /\ restarts' = restarts + 1
    /\ hosted' = {} /\ reg' = Loaded(setting)
    /\ change' = [step |-> "apply"]
    /\ quick' = Hidden /\ showing' = FALSE
    /\ vaultIs' = IF vaultIs = "none" THEN "none" ELSE "locked"
    /\ UNCHANGED <<setting, taken>>

-----------------------------------------------------------------------------
\* show_focused notes who opened the window before it shows it.
ShownFor(browser) == [visible |-> TRUE, forBrowser |-> browser,
                      by |-> IF browser THEN "browser" ELSE "owner"]

\* A press of the current chord toggles the window; without a vault the main
\* window comes instead, and any other chord held for a moment is ignored.
\* A toggle hides without a note; the blur that follows makes it.
Press(c) ==
    /\ c \in hosted /\ c = reg.shortcut
    /\ vaultIs # "none"
    /\ quick' = IF quick.visible THEN [quick EXCEPT !.visible = FALSE, !.by = "nobody"] ELSE ShownFor(FALSE)
    /\ UNCHANGED <<shortcutVars, vaultIs, showing>>

\* The browser asks for an unlock: the status is read, then the window shown.
BrowserAsks ==
    /\ vaultIs = "locked" /\ ~showing
    /\ showing' = TRUE
    /\ UNCHANGED <<shortcutVars, quick, vaultIs>>

ShowForBrowser ==
    /\ showing /\ showing' = FALSE
    /\ quick' = ShownFor(TRUE)
    /\ UNCHANGED <<shortcutVars, vaultIs>>

\* Dismissed, blurred, or an item was opened in the app.
HideQuick ==
    /\ quick # Hidden /\ quick' = Hidden
    /\ UNCHANGED <<shortcutVars, vaultIs, showing>>

\* take_browser_unlock: only a window opened for the browser goes away.
AfterUnlock == IF quick.forBrowser THEN Hidden ELSE quick

QuickUnlock ==
    /\ vaultIs = "locked" /\ vaultIs' = "unlocked"
    /\ quick' = AfterUnlock
    /\ UNCHANGED <<shortcutVars, showing>>

\* A lock hides the window.
QuickLock ==
    /\ vaultIs = "unlocked" /\ vaultIs' = "locked"
    /\ quick' = Hidden
    /\ UNCHANGED <<shortcutVars, showing>>

QuickVaultMade ==
    /\ vaultIs = "none" /\ vaultIs' = "unlocked"
    /\ quick' = AfterUnlock
    /\ UNCHANGED <<shortcutVars, showing>>

QuickNext ==
    \/ \E c \in {t.chord : t \in Typed} \cup {DefaultShortcut} : OthersTake(c) \/ Press(c)
    \/ ApplyLocked \/ SwitchShortcut \/ QuickRestart
    \/ \E on, saves \in BOOLEAN : SetEnabled(on, saves)
    \/ \E t \in Typed \cup {Text(DefaultShortcut.mods, DefaultShortcut.key, "canonical")} : SetShortcut(t)
    \/ \E saves \in BOOLEAN : SaveShortcut(saves)
    \/ BrowserAsks \/ ShowForBrowser \/ HideQuick \/ QuickUnlock \/ QuickLock \/ QuickVaultMade

QuickSpec == QuickInit /\ [][QuickNext]_quickVars

-----------------------------------------------------------------------------
QuickTypeOK ==
    /\ setting.on \in BOOLEAN /\ setting.keys \in Typed \cup {NoKeys}
    /\ reg.shortcut.key \in AllowedKeys
    /\ change.step \in {"none", "apply", "save", "switch"}
    /\ quick.by \in {"nobody", "browser", "owner"}
    /\ vaultIs \in {"none", "locked", "unlocked"}
    /\ restarts \in 0..MaxRestarts

\* When no change is under way the file, the registration and the system say
\* the same: the system holds the chord in force and no other, and a restart
\* would bring back what is in force, through failed saves, refused chords
\* and restarts in the middle of a change.
ShortcutInForce ==
    change = NoChange =>
      /\ hosted = IF reg.registered THEN {reg.shortcut} ELSE {}
      /\ reg.enabled => reg.registered \/ reg.inUse
      /\ reg.registered => reg.enabled
      /\ Loaded(setting).shortcut = reg.shortcut /\ setting.on = reg.enabled

\* No chord is ever held that would swallow typing or a shortcut every app
\* needs, whatever the file held and whatever was typed.
NoReservedChord ==
    \A c \in hosted : c \notin Reserved /\ c.mods \cap {"Super", "Control", "Alt"} # {}

\* An unlock takes away only a window that a browser opened.
OwnersWindowStays ==
    [][vaultIs # "unlocked" /\ vaultIs' = "unlocked" /\ quick.by = "owner" => quick'.visible]_quickVars

\* The shortcut in force is the one the file and the system hold, and a window
\* the owner opened is not taken away (quick_access.rs).
QuickAccessInForce == [](ShortcutInForce /\ NoReservedChord) /\ OwnersWindowStays
=============================================================================
