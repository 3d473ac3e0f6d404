------------------------------- MODULE Settings -------------------------------
(***************************************************************************)
(* A setting changed in a panel, until shell.json has it: OmaStatsWidget's *)
(* persist hands the change to the shell and shows it at once, the shell   *)
(* saves it when it likes, and OmaStatsService.qml loads the file whenever *)
(* it changes.  Copies of the widget on several screens share an entry of  *)
(* the file.  Shells differ: one may save the whole entry it is handed     *)
(* instead of the one key, and one may give a widget its first settings    *)
(* back after a save.                                                      *)
(***************************************************************************)
EXTENDS Functions, Integers, Sequences

CONSTANTS
  Widgets,
  Keys, Values,
  PATIENCE,     \* how long a change waits for the file to show it
  MaxEdits      \* bound: changes made in a behaviour

VARIABLES
  settings,     \* widget -> what it shows
  pending,      \* widget -> its pendingSettings: key -> value and age
  restoring,    \* widgets with a restoreSavedSettings to be called
  saved,        \* the entry as last loaded, or NoEntry
  file,         \* the entry in the file
  changed,      \* has the file changed since it was loaded?
  writes,       \* what the shell has been handed and not saved
  reverts,      \* widgets that the shell may give their first settings back
  edits

widgetVars == <<settings, pending, restoring, reverts>>
vars == <<widgetVars, saved, file, changed, writes, edits>>

Entries == [Keys -> Values]
NoEntry == <<>>
Changes(w) == DOMAIN pending[w]

Original == CHOOSE e \in Entries : \A k, j \in Keys : e[k] = e[j]

Init ==
  /\ settings = [w \in Widgets |-> Original]
  /\ pending = [w \in Widgets |-> <<>>]
  /\ restoring = {} /\ reverts = {}
  /\ saved = NoEntry
  /\ file = Original /\ changed = TRUE
  /\ writes = <<>>
  /\ edits = 0

-----------------------------------------------------------------------------
(* The widget.                                                               *)

\* One function over another.
Over(f, g) == [k \in DOMAIN f \cup DOMAIN g |-> IF k \in DOMAIN f THEN f[k] ELSE g[k]]

\* withPending, when there is an entry.
WithPending(w) == Over([k \in Changes(w) |-> pending[w][k].value], saved)

Persist(w, key, value) ==
  /\ edits < MaxEdits
  /\ edits' = edits + 1
  /\ LET current == IF saved = NoEntry THEN settings[w] ELSE WithPending(w)
         next    == [current EXCEPT ![key] = value]
         entry   == [k \in {key} |-> [value |-> value, age |-> 0]]
     IN  /\ settings' = [settings EXCEPT ![w] = next]
         /\ pending' = [pending EXCEPT ![w] = Over(entry, @)]
         /\ \E write \in {next, Restrict(next, {key})} : writes' = Append(writes, write)
  /\ restoring' = restoring \cup {w}
  /\ UNCHANGED <<reverts, saved, file, changed>>

\* restoreSavedSettings.  Any change of the settings, its own too, asks for it
\* once more (onSettingsChanged).
Restore(w) ==
  /\ w \in restoring
  /\ IF saved # NoEntry /\ settings[w] # WithPending(w)
     THEN settings' = [settings EXCEPT ![w] = WithPending(w)] /\ UNCHANGED restoring
     ELSE restoring' = restoring \ {w} /\ UNCHANGED settings
  /\ UNCHANGED <<pending, reverts, saved, file, changed, writes, edits>>

\* Mutant: a change waits until the file shows it.
WaitingForEver(w, key) == file[key] # pending[w][key].value

\* prunePending keeps the changes that the file does not show, for a while.
Waiting(w, key) ==
  /\ file[key] # pending[w][key].value
  /\ pending[w][key].age <= PATIENCE

\* FileView's onLoaded, and onSavedEntryChanged in every widget.
Load ==
  /\ changed
  /\ changed' = FALSE
  /\ saved' = file
  /\ pending' = [w \in Widgets |-> Restrict(pending[w], {k \in Changes(w) : Waiting(w, k)})]
  /\ restoring' = Widgets
  /\ UNCHANGED <<settings, reverts, file, writes, edits>>

-----------------------------------------------------------------------------
(* The shell, the file and the clock.                                        *)

Save ==
  /\ writes # <<>>
  /\ file' = Over(Head(writes), file) /\ changed' = TRUE
  /\ writes' = Tail(writes)
  /\ reverts' \in {reverts, Widgets}
  /\ UNCHANGED <<settings, pending, restoring, saved, edits>>

\* Mutant: a widget does not look when the shell changes its settings.
RevertUnnoticed(w) ==
  /\ w \in reverts
  /\ reverts' = reverts \ {w}
  /\ settings' = [settings EXCEPT ![w] = Original]
  /\ UNCHANGED <<pending, restoring, saved, file, changed, writes, edits>>

\* The shell gives a widget its first settings back, and onSettingsChanged asks
\* for the saved ones to be restored.
Revert(w) ==
  /\ w \in reverts
  /\ reverts' = reverts \ {w}
  /\ settings' = [settings EXCEPT ![w] = Original]
  /\ restoring' = restoring \cup {w}
  /\ UNCHANGED <<pending, saved, file, changed, writes, edits>>

\* The file is saved for another reason, or edited by hand.
Touch ==
  /\ ~changed
  /\ changed' = TRUE
  /\ \/ UNCHANGED <<file, edits>>
     \/ edits < MaxEdits /\ edits' = edits + 1 /\ file' \in Entries
  /\ UNCHANGED <<widgetVars, saved, writes>>

Waited(w) == \E k \in Changes(w) : pending[w][k].age <= PATIENCE

Tick ==
  /\ \E w \in Widgets : Waited(w)
  /\ pending' = [w \in Widgets |-> [k \in Changes(w) |->
                   [pending[w][k] EXCEPT !.age = IF @ <= PATIENCE THEN @ + 1 ELSE @]]]
  /\ UNCHANGED <<settings, restoring, reverts, saved, file, changed, writes, edits>>

Next ==
  \/ \E w \in Widgets : \/ \E k \in Keys, v \in Values : Persist(w, k, v)
                        \/ Restore(w) \/ Revert(w)
  \/ Load \/ Save \/ Touch \/ Tick

-----------------------------------------------------------------------------
\* When nobody makes changes any more, every copy of the widget comes to show
\* the file it has loaded with its own changes that still wait over it, however
\* the changes crossed or were undone by the shell; and if the file goes on
\* being saved from time to time, so that changes that a write of a whole entry
\* overrode are given up, all come to show just what the file says.
EditsConverge ==
  /\ <>[](saved = file /\ \A w \in Widgets : settings[w] = WithPending(w))
  /\ []<>changed => <>[](\A w \in Widgets : settings[w] = file)
=============================================================================
