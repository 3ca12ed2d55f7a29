---------------------------- MODULE OutlineWindow ----------------------------
(***************************************************************************)
(* What the outline on screen shows of one row, while the user types in    *)
(* it, collapses it, reloads and navigates: OutlineController, the drafts  *)
(* of the autosave, OutlineOperationsController.toggle and the preparation *)
(* of a navigation (ScreenNavigationWorkspace).                            *)
(*                                                                         *)
(* Texts are versions, numbered as they are typed.  Every request is sent, *)
(* served by the desktop process at one moment and answered at a later     *)
(* one.  Only the newest read of the outline can publish, so that an older *)
(* one is dropped when the next begins.  How the autosave times and orders *)
(* its writes is in WorkingCopyAutosave.                                   *)
(***************************************************************************)
EXTENDS Naturals

CONSTANTS
  None,
  MaxTyped  \* a bound on the edits

VARIABLES
  stored,   \* the row in the store: text and collapsed
  shown,    \* the row in the snapshot on screen
  typed,    \* the version typed last, editVersion
  saved,    \* savedVersion of the autosave
  saving,   \* the version its worker is saving, and where that call is
  toggle,   \* the toggle under way, pendingCollapses
  read,     \* the newest read: its receipt and the drafts and edits it has seen
  nav,      \* the navigation under way
  left      \* what was unsaved when a navigation committed

vars == <<stored, shown, typed, saved, saving, toggle, read, nav, left>>

NoCall == [at |-> "none", by |-> "none"]

Init ==
  /\ stored = [text |-> 0, collapsed |-> FALSE] /\ shown = stored
  /\ typed = 0 /\ saved = 0 /\ saving = NoCall /\ toggle = NoCall
  /\ read = NoCall /\ nav = NoCall /\ left = {}

-----------------------------------------------------------------------------
(* Typing and saving.                                                      *)

\* hasUnsavedChanges, drafts
Unsaved == saved < typed

\* updateLocalText: the snapshot on screen and the autosave get the text, and the
\* read under way learns that it is older.
Type ==
  /\ typed < MaxTyped /\ typed' = typed + 1
  /\ shown' = [shown EXCEPT !.text = typed + 1]
  /\ read' = IF read = NoCall THEN read ELSE [read EXCEPT !.edited = TRUE]
  /\ UNCHANGED <<stored, saved, saving, toggle, nav, left>>

SaveStarts ==
  /\ Unsaved /\ saving = NoCall
  /\ saving' = [at |-> "sent", version |-> typed]
  /\ UNCHANGED <<stored, shown, typed, saved, toggle, read, nav, left>>

SaveServed ==
  /\ saving.at = "sent"
  /\ stored' = [stored EXCEPT !.text = saving.version]
  /\ saving' = [saving EXCEPT !.at = "served"]
  /\ UNCHANGED <<shown, typed, saved, toggle, read, nav, left>>

SaveAnswered ==
  /\ saving.at = "served" /\ saved' = saving.version /\ saving' = NoCall
  /\ UNCHANGED <<stored, shown, typed, toggle, read, nav, left>>

\* The draft stays; flushForNavigation throws.
SaveFails ==
  /\ saving.at = "sent" /\ saving' = NoCall
  /\ nav' = IF nav.at = "flush" THEN NoCall ELSE nav
  /\ UNCHANGED <<stored, shown, typed, saved, toggle, read, left>>

-----------------------------------------------------------------------------
(* Collapsing.                                                             *)

Toggle ==
  /\ toggle = NoCall
  /\ toggle' = [at |-> "sent", collapsed |-> ~shown.collapsed]
  /\ UNCHANGED <<stored, shown, typed, saved, saving, read, nav, left>>

ToggleServed ==
  /\ toggle.at = "sent"
  /\ stored' = [stored EXCEPT !.collapsed = toggle.collapsed]
  /\ toggle' = [toggle EXCEPT !.at = "served"]
  /\ UNCHANGED <<shown, typed, saved, saving, read, nav, left>>

\* Faulty: the read under way does not learn of it.
onlyShown(r, collapsed) == r

\* readCollapsed
recordCollapsed(r, collapsed) ==
  IF r = NoCall THEN r ELSE [r EXCEPT !.collapsed = collapsed]

\* The function that prepareCollapsed returned.
ToggleAnswered ==
  /\ toggle.at = "served" /\ toggle' = NoCall
  /\ shown' = [shown EXCEPT !.collapsed = toggle.collapsed]
  /\ read' = recordCollapsed(read, toggle.collapsed)
  /\ UNCHANGED <<stored, typed, saved, saving, nav, left>>

ToggleFails ==
  /\ toggle.at = "sent" /\ toggle' = NoCall
  /\ UNCHANGED <<stored, shown, typed, saved, saving, read, nav, left>>

-----------------------------------------------------------------------------
(* Reading the outline.                                                    *)

\* begin: the drafts of this moment are kept with the read.
Begun(by) ==
  [at |-> "sent", by |-> by, draft |-> IF Unsaved THEN typed ELSE None,
   edited |-> FALSE, collapsed |-> None, row |-> None]

Reload ==
  /\ read' = Begun("reload")
  /\ UNCHANGED <<stored, shown, typed, saved, saving, toggle, nav, left>>

ReadServed ==
  /\ read.at = "sent"
  /\ read' = [read EXCEPT !.at = "served", !.row = stored]
  /\ UNCHANGED <<stored, shown, typed, saved, saving, toggle, nav, left>>

ReadFails ==
  /\ read.at = "sent" /\ read' = NoCall
  /\ nav' = IF read.by = "navigation" THEN NoCall ELSE nav
  /\ UNCHANGED <<stored, shown, typed, saved, saving, toggle, left>>

\* Faulty: the drafts of this moment only, not those of the beginning of the read.
draftsNow(r) ==
  IF r.edited THEN shown.text ELSE IF Unsaved THEN typed ELSE r.row.text

\* publish: overlayDrafts with the drafts of both moments, then what was typed
\* during the read.
publishedText(r) ==
  IF r.edited THEN shown.text
  ELSE IF Unsaved THEN typed
  ELSE IF r.draft # None THEN r.draft ELSE r.row.text

Published(r) ==
  [text |-> publishedText(r),
   collapsed |-> IF r.collapsed # None THEN r.collapsed ELSE r.row.collapsed]

ReloadPublishes ==
  /\ read.at = "served" /\ read.by = "reload"
  /\ shown' = Published(read) /\ read' = NoCall
  /\ UNCHANGED <<stored, typed, saved, saving, toggle, nav, left>>

-----------------------------------------------------------------------------
(* Navigating.                                                             *)

\* navigate revokes the read under way; a newer navigation replaces an older one.
Navigate ==
  /\ read' = NoCall
  /\ nav' = [at |-> "flush", version |-> typed]
  /\ UNCHANGED <<stored, shown, typed, saved, saving, toggle, left>>

\* flushForNavigation has returned and nothing is unsaved: the destination is read
\* again, with a publication of its own.
Flushed ==
  /\ nav.at = "flush" /\ ~Unsaved /\ saving = NoCall
  /\ read' = Begun("navigation")
  /\ nav' = [nav EXCEPT !.at = "read"]
  /\ UNCHANGED <<stored, shown, typed, saved, saving, toggle, left>>

\* Faulty: what was typed during the read is not looked at.
anyVersion(version) == TRUE

\* finishPreparation: version === this.ports.editor.version()
sameVersion(version) == version = typed

\* The read has returned: the navigation commits, or saves and reads again.
Refreshed ==
  /\ nav.at = "read" /\ read.by = "navigation" /\ read.at = "served"
  /\ IF sameVersion(nav.version)
       THEN /\ shown' = Published(read) /\ read' = NoCall /\ nav' = NoCall
            /\ left' = IF Unsaved THEN left \cup {typed} ELSE left
       ELSE /\ nav' = [at |-> "flush", version |-> typed]
            /\ UNCHANGED <<shown, read, left>>
  /\ UNCHANGED <<stored, typed, saved, saving, toggle>>

\* A reload took the publication: the navigation ends without effect.
NavigationRevoked ==
  /\ nav.at = "read" /\ read.by # "navigation"
  /\ nav' = NoCall
  /\ UNCHANGED <<stored, shown, typed, saved, saving, toggle, read, left>>

Next ==
  \/ Type \/ SaveStarts \/ SaveServed \/ SaveAnswered \/ SaveFails
  \/ Toggle \/ ToggleServed \/ ToggleAnswered \/ ToggleFails
  \/ Reload \/ ReadServed \/ ReadFails \/ ReloadPublishes
  \/ Navigate \/ Flushed \/ Refreshed \/ NavigationRevoked

Spec == Init /\ [][Next]_vars

-----------------------------------------------------------------------------
TypeOK ==
  /\ stored \in [text : 0..MaxTyped, collapsed : BOOLEAN]
  /\ shown \in [text : 0..MaxTyped, collapsed : BOOLEAN]
  /\ typed \in 0..MaxTyped /\ saved \in 0..MaxTyped /\ left \subseteq 0..MaxTyped

\* What the user typed last is what the row shows, whenever reads that began
\* before or during the edit, or before its save, are published.
TypedTextStays == shown.text = typed

\* When no toggle is under way the row is shown as it is stored, collapsed or not,
\* whatever was being read when the toggle was answered.
CollapseShownIsStored == toggle = NoCall => shown.collapsed = stored.collapsed

\* A navigation leaves no unsaved text behind, also when the user typed while the
\* destination was being read.
NavigationLeavesNothingUnsaved == left = {}
=============================================================================
