------------------------------ MODULE Selection ------------------------------
(***************************************************************************)
(* What is selected, where each pane of the outline is, and the form for   *)
(* the historical time of the selected work: OccurrenceSelectionWorkspace, *)
(* HistoricalTimeController, the browsing state, and as much of a          *)
(* navigation as asks the form for permission.                             *)
(*                                                                         *)
(* A request to select another work while the form holds unsaved input     *)
(* waits for the user, who saves, discards or cancels.  Meanwhile the user *)
(* goes on typing, other requests are made and the outline is reloaded.    *)
(* Of the history of a pane only the current entry is kept.                *)
(***************************************************************************)
EXTENDS Naturals

CONSTANTS
  None,
  MaxNavigations, \* a bound on the reloads, navigations and saves, all together
  MaxSaves  \* a bound on the saves of the form

VARIABLES
  items,    \* the placements in the snapshot on screen
  stored,   \* the historical time of each work, as the snapshot says
  visible,  \* the outline is the screen shown
  sel,      \* selectedId
  panes, active,
  form,     \* the form: the placement and work it is for, draft and baseline
  saving,   \* the save under way; submitting
  request,  \* the selection that waits for the user
  nav,      \* the navigation under way
  open,     \* initialRestorationOpen
  navigations, saves

vars == <<items, stored, visible, sel, panes, active, form, saving, request, nav, open,
          navigations, saves>>

\* Two placements of one work, one below the other, and one of another work.
Placements == {"x1", "x2", "y"}
Panes == {"p1", "p2"}
Versions == 0..1

WorkOf(id) == IF id = None THEN None ELSE IF id = "y" THEN "y" ELSE "x"

Empty == [id |-> None, work |-> None, draft |-> 0, baseline |-> 0]

\* reset
FormFor(id) ==
  IF id = None THEN Empty
  ELSE [id |-> id, work |-> WorkOf(id),
        draft |-> stored[WorkOf(id)], baseline |-> stored[WorkOf(id)]]

Dirty == form.draft # form.baseline
submitting == saving # None

Init ==
  /\ items = Placements /\ stored = [w \in {WorkOf(id) : id \in Placements} |-> 0]
  /\ visible = TRUE /\ sel = None
  /\ panes = [p \in Panes |-> [selected |-> None, hoist |-> None]] /\ active = "p1"
  /\ form = Empty /\ saving = None /\ request = None /\ nav = None /\ open = TRUE
  /\ navigations = 0 /\ saves = 0

-----------------------------------------------------------------------------
(* Browsing.                                                               *)

\* isDescendantOrSelf, in a snapshot.
Within(id, hoist, snapshot) == id = hoist \/ (hoist = "x1" /\ id = "x2" /\ "x1" \in snapshot)

\* browseToOutlineOccurrence: the hoist stays while the selection is inside it.
Browsed(location, id, snapshot) ==
  [selected |-> id,
   hoist |-> IF location.hoist = None \/ id = None \/ Within(id, location.hoist, snapshot)
               THEN location.hoist ELSE None]

\* reconcileBrowsingState
Kept(id, snapshot) == IF id \in snapshot THEN id ELSE None

Reconciled(locations, snapshot) ==
  [p \in Panes |-> [selected |-> Kept(locations[p].selected, snapshot),
                    hoist |-> Kept(locations[p].hoist, snapshot)]]

-----------------------------------------------------------------------------
(* Selecting.                                                              *)

\* Faulty: nobody is asked.
neverAsk(id) == TRUE

canSelectImmediately(id) == WorkOf(id) = form.work \/ (~Dirty /\ ~submitting)

\* commitSelection
committed(id) ==
  IF WorkOf(id) = form.work /\ (Dirty \/ submitting)
    THEN IF id = None THEN form ELSE [form EXCEPT !.id = id]
    ELSE FormFor(id)

\* reconcileSelection: a correction does not discard a draft.
corrected(id) ==
  IF ~Dirty /\ ~submitting THEN FormFor(id)
  ELSE IF form.id # None /\ WorkOf(id) = form.work THEN [form EXCEPT !.id = id] ELSE form

\* prepareOccurrence and preparePane: the locations, active pane and selection to come.
prepareOccurrence(id) ==
  [sel |-> id, active |-> active,
   panes |-> IF visible THEN [panes EXCEPT ![active] = Browsed(@, id, items)] ELSE panes]

preparePane(pane) ==
  LET located == Reconciled(panes, items)
  IN [sel |-> located[pane].selected, active |-> pane, panes |-> located]

Accept(next) ==
  /\ sel' = next.sel /\ active' = next.active /\ panes' = next.panes
  /\ form' = committed(next.sel)

Prepared(target) ==
  IF target \in Panes THEN preparePane(target) ELSE prepareOccurrence(target)

\* cancelPending: what waited for the user is given up, also by a save that the user chose.
cancelled == IF submitting THEN [saving EXCEPT !.goesOn = FALSE] ELSE saving

\* request: navigation and older requests are given up; then the form is asked.
Select(target) ==
  /\ target \in Panes => visible
  /\ target \in items \cup Panes \cup {None}
  /\ open' = FALSE /\ nav' = None /\ saving' = cancelled
  /\ IF canSelectImmediately(Prepared(target).sel)
       THEN Accept(Prepared(target)) /\ request' = None
       ELSE request' = [target |-> target] /\ UNCHANGED <<sel, active, panes, form>>
  /\ UNCHANGED <<items, stored, visible, navigations, saves>>

\* Faulty: the selection may be left outside of what is shown.
scopeOnly(location, id) ==
  [selected |-> IF id = None THEN location.selected ELSE id, hoist |-> id]

\* setBrowsingHoist, and the selection again, which drops a hoist it is not in.
hoisted(location, id) == Browsed([location EXCEPT !.hoist = id], sel, items)

SetHoist(id) ==
  /\ visible /\ id \in items \cup {None}
  /\ open' = FALSE /\ nav' = None /\ request' = None /\ saving' = cancelled
  /\ panes' = [panes EXCEPT ![active] = hoisted(@, id)]
  /\ UNCHANGED <<items, stored, visible, sel, active, form, navigations, saves>>

\* restoreInitial, from the startup cache.
RestoreInitial(id) ==
  /\ open /\ id \in items /\ ~Dirty /\ ~submitting
  /\ open' = FALSE
  /\ panes' = [panes EXCEPT !["p1"] = [selected |-> id, hoist |-> None]] /\ active' = "p1"
  /\ sel' = id /\ form' = committed(id) /\ request' = None
  /\ UNCHANGED <<items, stored, visible, saving, nav, navigations, saves>>

-----------------------------------------------------------------------------
(* Navigating: what it asks of the form, and what it commits.              *)

\* A navigation to a screen, and to a placement of it or to what is selected there.
Navigate(outline, id) ==
  /\ navigations + saves < MaxNavigations /\ navigations' = navigations + 1
  /\ id \in items \cup {None}
  /\ open' = FALSE /\ request' = None /\ saving' = cancelled
  /\ nav' = [outline |-> outline, id |-> id, at |-> "guard", asking |-> FALSE,
             revoked |-> FALSE]
  /\ UNCHANGED <<items, stored, visible, sel, panes, active, form, saves>>

\* The browsing state that the navigation prepares.
NavPanes ==
  IF ~nav.outline THEN panes
  ELSE IF nav.id = None THEN Reconciled(panes, items)
  ELSE [Reconciled(panes, items) EXCEPT ![active] = Browsed(@, nav.id, items)]

NavTarget ==
  IF nav.outline THEN NavPanes[active].selected
  ELSE IF nav.id # None THEN nav.id ELSE sel

Commit ==
  /\ nav' = None /\ visible' = nav.outline /\ panes' = NavPanes /\ sel' = NavTarget

\* The guard at the end of prepare.
NavGuarded ==
  /\ nav # None /\ nav.at = "guard" /\ ~nav.asking
  /\ nav' = IF canSelectImmediately(NavTarget) THEN [nav EXCEPT !.at = "read"]
                                                ELSE [nav EXCEPT !.asking = TRUE]
  /\ UNCHANGED <<items, stored, visible, sel, panes, active, form, saving, request,
                 open, navigations, saves>>

\* Faulty: the form is asked once, before the last read.
askedBefore(id) == TRUE

\* The guard after the last read.
mayCommit(id) == canSelectImmediately(id)

\* The last read: the form is asked again.
NavRead ==
  /\ nav # None /\ nav.at = "read" /\ ~nav.asking
  /\ IF NavTarget \notin items \cup {None}
       THEN nav' = None /\ UNCHANGED <<visible, sel, panes, form>>
       ELSE IF mayCommit(NavTarget) THEN Commit /\ form' = committed(NavTarget)
       ELSE nav' = [nav EXCEPT !.asking = TRUE] /\ UNCHANGED <<visible, sel, panes, form>>
  /\ UNCHANGED <<items, stored, active, saving, request, open, navigations, saves>>

-----------------------------------------------------------------------------
(* The form and the dialog that asks.                                      *)

Edit(draft) ==
  /\ form.id # None /\ draft # form.draft /\ form' = [form EXCEPT !.draft = draft]
  /\ UNCHANGED <<items, stored, visible, sel, panes, active, saving, request, nav, open,
                 navigations, saves>>

\* The dialog is open.
Asking == request # None \/ (nav # None /\ nav.asking)

\* save, from the form or chosen in the dialog; or the removal of the time.
Save(chosen, remove) ==
  /\ form.id # None /\ ~submitting
  /\ saves < MaxSaves /\ navigations + saves < MaxNavigations /\ saves' = saves + 1
  /\ chosen => Asking /\ ~remove
  /\ saving' = [work |-> form.work, draft |-> form.draft, at |-> "sent", goesOn |-> chosen,
                value |-> IF remove THEN 0 ELSE form.draft]
  /\ UNCHANGED <<items, stored, visible, sel, panes, active, form, request, nav, open,
                 navigations>>

SaveServed ==
  /\ submitting /\ saving.at = "sent"
  /\ stored' = [stored EXCEPT ![saving.work] = saving.value]
  /\ saving' = [saving EXCEPT !.at = "served"]
  /\ UNCHANGED <<items, visible, sel, panes, active, form, request, nav, open,
                 navigations, saves>>

\* What was typed during the save stays unsaved.
SaveAnswered ==
  /\ submitting /\ saving.at = "served"
  /\ form' = IF form.work # saving.work THEN form
             ELSE [form EXCEPT !.baseline = saving.value,
                               !.draft = IF @ = saving.draft THEN saving.value ELSE @]
  /\ saving' = [saving EXCEPT !.at = "reload"]
  /\ UNCHANGED <<items, stored, visible, sel, panes, active, request, nav, open,
                 navigations, saves>>

SaveFails ==
  /\ submitting /\ saving.at = "sent" /\ saving' = None
  /\ UNCHANGED <<items, stored, visible, sel, panes, active, form, request, nav, open,
                 navigations, saves>>

\* What waited goes on: acceptWhenReady prepares its target again, which may have gone;
\* a navigation reads, or commits what it had read.
goOn(clean) ==
  IF request # None
    THEN /\ request' = None /\ UNCHANGED <<nav, visible>>
         /\ IF request.target \in items \cup Panes \cup {None}
              THEN LET next == Prepared(request.target)
                   IN /\ sel' = next.sel /\ active' = next.active /\ panes' = next.panes
                      /\ form' = IF WorkOf(next.sel) = clean.work THEN clean
                                                                  ELSE FormFor(next.sel)
              ELSE form' = clean /\ UNCHANGED <<sel, active, panes>>
    ELSE /\ UNCHANGED <<request, active>>
         /\ IF nav.at = "guard"
              THEN /\ nav' = [nav EXCEPT !.asking = FALSE, !.at = "read"] /\ form' = clean
                   /\ UNCHANGED <<visible, sel, panes>>
            ELSE IF nav.revoked
              THEN nav' = None /\ form' = clean /\ UNCHANGED <<visible, sel, panes>>
            ELSE Commit /\ form' = IF WorkOf(NavTarget) = clean.work THEN clean
                                                                     ELSE FormFor(NavTarget)

\* The save has ended, its reload too, or a navigation has revoked that: the choice it
\* was made for goes on, unless new input is unsaved by then.
SaveEnds ==
  /\ submitting /\ saving' = None
  /\ saving.at = "reloaded" \/ (saving.at = "reload" /\ nav # None)
  /\ IF saving.goesOn /\ Asking /\ ~Dirty THEN goOn(form)
     ELSE UNCHANGED <<visible, sel, panes, active, form, request, nav>>
  /\ UNCHANGED <<items, stored, open, navigations, saves>>

Discard ==
  /\ Asking /\ ~submitting
  /\ goOn([form EXCEPT !.draft = form.baseline])
  /\ UNCHANGED <<items, stored, saving, open, navigations, saves>>

Cancel ==
  /\ Asking /\ ~submitting /\ request' = None /\ nav' = None
  /\ UNCHANGED <<items, stored, visible, sel, panes, active, form, saving, open,
                 navigations, saves>>

-----------------------------------------------------------------------------
(* Reloads.                                                                *)

\* A new snapshot: reconcile corrects the selection and the panes.  A navigation that
\* has begun its last read cannot publish it any more.
Publish(snapshot) ==
  LET corrects == sel # None /\ sel \notin snapshot
  IN /\ items' = snapshot /\ open' = FALSE
     /\ sel' = Kept(sel, snapshot)
     /\ panes' = IF visible THEN Reconciled(panes, snapshot) ELSE panes
     /\ form' = corrected(Kept(sel, snapshot))
     /\ request' = IF corrects THEN None ELSE request
     /\ nav' = IF nav = None \/ corrects THEN None
               ELSE IF nav.at = "guard" THEN nav
               ELSE IF nav.asking THEN [nav EXCEPT !.revoked = TRUE] ELSE None

\* What the snapshot has lost was deleted elsewhere.
Reload(lost) ==
  /\ navigations + saves < MaxNavigations /\ navigations' = navigations + 1
  /\ Publish(items \ lost)
  /\ saving' = IF sel \in lost THEN cancelled ELSE saving
  /\ UNCHANGED <<stored, visible, active, saves>>

\* The reload that follows a save.
SaveReloads ==
  /\ submitting /\ saving.at = "reload"
  /\ Publish(items)
  /\ saving' = [saving EXCEPT !.at = "reloaded"]
  /\ UNCHANGED <<stored, visible, active, navigations, saves>>

Next ==
  \/ \E target \in Placements \cup Panes \cup {None} : Select(target)
  \/ \E id \in {"x1", None} : SetHoist(id) \/ RestoreInitial(id)
  \/ \E outline \in BOOLEAN, id \in Placements \cup {None} : Navigate(outline, id)
  \/ NavGuarded \/ NavRead
  \/ (\E draft \in Versions : Edit(draft))
  \/ (\E chosen, remove \in BOOLEAN : Save(chosen, remove))
  \/ SaveServed \/ SaveAnswered \/ SaveFails \/ SaveReloads \/ SaveEnds
  \/ Discard \/ Cancel
  \/ \E id \in Placements \cup {None} : Reload({id})

Spec == Init /\ [][Next]_vars

-----------------------------------------------------------------------------
\* Unsaved input leaves the form only because the user edits, discards or saves it:
\* not by a selection, a navigation, a reload or the deletion of what was selected.
DraftIsKept ==
  Dirty /\ (form'.work # form.work \/ form'.draft # form.draft)
    => \/ Discard \/ \E draft \in Versions : Edit(draft)
       \/ SaveAnswered /\ form.draft = saving.draft

DraftsAreKept == [][DraftIsKept]_vars

\* While the outline is shown the active pane is where the selection is.
SelectionIsBrowsed == visible => panes[active].selected = sel

\* The form, and a save under way, are about the selected work, if one is selected.
FormIsOfSelection ==
  sel # None => form.work = WorkOf(sel) /\ (submitting => saving.work = WorkOf(sel))
=============================================================================
