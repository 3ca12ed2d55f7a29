------------------------------- MODULE LongForm -------------------------------
(***************************************************************************)
(* LongFormController, the manuscript of one work in the middle pane, and  *)
(* the navigations that open, save and close it.  A save is a loop that    *)
(* writes until nothing more was typed; each write is followed by a reload *)
(* of the outline, which a navigation revokes.  Cancelling while a save is *)
(* under way closes the manuscript, but not the save.                      *)
(***************************************************************************)
EXTENDS Naturals

CONSTANTS
  None, Works,
  MaxTyped,  \* a bound on the edits
  MaxCalls   \* a bound on the calls of save

VARIABLES
  stored,    \* the text of each work in the store: whose it is, and which edit
  form,      \* state and itemId of the controller
  version,   \* inputVersion
  save,      \* the calls of save: what each waits for
  promise,   \* savePromise: the call that made it
  reading,   \* who may publish the outline it reads
  nav,       \* the navigation under way
  asking,    \* the dialog that confirms a cancellation is open
  typed,     \* the last edit of each work, unless it was discarded
  abandoned  \* a manuscript was closed or exchanged while a save of it was under way

vars ==
  <<stored, form, version, save, promise, reading, nav, asking, typed, abandoned>>

Calls == 1..MaxCalls

\* Who reads the outline: a call of save, or one of these.
Nobody == 0
Navigation == MaxCalls + 1

NoForm == [active |-> FALSE, work |-> None, text |-> None, dirty |-> FALSE]

NoSave == [at |-> "none", work |-> None, text |-> None, on |-> 0, close |-> FALSE]

Init ==
  /\ stored = [w \in Works |-> [of |-> w, edit |-> 0]] /\ form = NoForm /\ version = 0
  /\ save = [c \in Calls |-> NoSave] /\ promise = 0 /\ reading = Nobody /\ nav = None
  /\ asking = FALSE /\ typed = [w \in Works |-> None] /\ abandoned = FALSE

-----------------------------------------------------------------------------
(* The manuscript.                                                         *)

\* input
Type ==
  /\ form.active /\ ~asking /\ version < MaxTyped /\ version' = version + 1
  /\ LET text == [of |-> form.work, edit |-> version + 1]
     IN /\ form' = [form EXCEPT !.text = text, !.dirty = TRUE]
        /\ typed' = [typed EXCEPT ![form.work] = text]
  /\ UNCHANGED <<stored, save, promise, reading, nav, asking>>

Unfinished(c) == save[c].at \notin {"none", "ok", "failed"}

\* cancelLongFormEditing: a changed manuscript is discarded only after a question.
Cancel ==
  /\ form.active /\ ~asking
  /\ IF form.dirty THEN asking' = TRUE /\ UNCHANGED form
                   ELSE form' = NoForm /\ UNCHANGED asking
  /\ UNCHANGED <<stored, version, save, promise, reading, nav, typed>>

\* reset, after the question; the manuscript may have been closed meanwhile.
Discard ==
  /\ asking /\ asking' = FALSE /\ form' = NoForm
  /\ typed' = IF form.active THEN [typed EXCEPT ![form.work] = None] ELSE typed
  /\ UNCHANGED <<stored, version, save, promise, reading, nav>>

Keep ==
  /\ asking /\ asking' = FALSE
  /\ UNCHANGED <<stored, form, version, save, promise, reading, nav, typed>>

\* setMode, of a navigation that has read `row`.
setMode(work, row) ==
  IF work = None THEN NoForm
  ELSE IF form.active /\ form.work = work
    THEN IF form.dirty THEN form ELSE [form EXCEPT !.text = row]
  ELSE [active |-> TRUE, work |-> work, text |-> row, dirty |-> FALSE]

-----------------------------------------------------------------------------
(* save.                                                                   *)

\* A call of save: nothing to do, a save to wait for, or a save of its own.
Called(c, close) ==
  [save EXCEPT ![c] =
    IF ~form.active THEN [NoSave EXCEPT !.at = "ok"]
    ELSE IF promise # 0 THEN [NoSave EXCEPT !.at = "waiting", !.on = promise, !.close = close]
    ELSE [NoSave EXCEPT !.at = "flush", !.work = form.work, !.close = close]]

PromiseAfter(c) == IF form.active /\ promise = 0 THEN c ELSE promise

\* A call that has ended, and that nothing looks at any more, makes room for another.
Over(c) ==
  /\ ~Unfinished(c) /\ (nav # None => nav.call # c)
  /\ \A d \in Calls : save[d].at = "waiting" => save[d].on # c

Free(c) == Over(c) /\ \A d \in 1..(c - 1) : ~Over(d)

\* requestRewriteAsNewBranch saves and closes the manuscript.
Rewrite == \E c \in Calls :
  /\ Free(c) /\ form.active /\ ~asking
  /\ save' = Called(c, TRUE) /\ promise' = PromiseAfter(c)
  /\ UNCHANGED <<stored, form, version, reading, nav, asking, typed>>

Closes(c) == IF save[c].close THEN NoForm ELSE form

\* The save that c awaited has ended: c is done with it, or saves what is dirty by now.
Awaited(c) ==
  /\ save[c].at = "waiting" /\ save[save[c].on].at \in {"ok", "failed"}
  /\ IF save[save[c].on].at = "failed" \/ ~form.dirty
       THEN /\ save' = [save EXCEPT ![c].at = save[save[c].on].at]
            /\ form' = IF save[save[c].on].at = "ok" THEN Closes(c) ELSE form
            /\ UNCHANGED promise
       ELSE /\ save' = [save EXCEPT ![c].at = "flush", ![c].work = form.work]
            /\ promise' = c /\ UNCHANGED form
  /\ UNCHANGED <<stored, version, reading, nav, asking, typed>>

\* The head of the loop, with the form as it is now: another write, or the end.
Loop(c, now) ==
  IF now.dirty
    THEN save' = [save EXCEPT ![c].at = "sent", ![c].text = now.text] /\ form' = now
         /\ UNCHANGED promise
    ELSE save' = [save EXCEPT ![c].at = "ok"] /\ promise' = 0
         /\ form' = IF save[c].close THEN NoForm ELSE now

\* The drafts of the outline are saved.
DraftsFlushed(c) ==
  /\ save[c].at = "flush" /\ Loop(c, form)
  /\ UNCHANGED <<stored, version, reading, nav, asking, typed>>

\* updateItemText, with the work that was open when the save began.
Written(c) ==
  /\ save[c].at = "sent"
  /\ stored' = [stored EXCEPT ![save[c].work] = save[c].text]
  /\ save' = [save EXCEPT ![c].at = "written"]
  /\ UNCHANGED <<form, version, promise, reading, nav, asking, typed>>

Reloads(c) ==
  /\ save[c].at = "written" /\ reading' = c
  /\ save' = [save EXCEPT ![c].at = "reload"]
  /\ UNCHANGED <<stored, form, version, promise, nav, asking, typed>>

\* Faulty: what was typed during the write counts as saved.
savedAnyway(c) == TRUE

\* this.state.text === textToSave
savedAll(c) == form.text = save[c].text

\* The reload has published the outline.
Reloaded(c) ==
  /\ save[c].at = "reload" /\ reading = c /\ reading' = Nobody
  /\ Loop(c, IF savedAll(c) THEN [form EXCEPT !.dirty = FALSE] ELSE form)
  /\ UNCHANGED <<stored, version, nav, asking, typed>>

\* Saving the drafts, a write or a read throws, or the reload was revoked.
SaveFails(c) ==
  /\ save[c].at \in {"flush", "sent", "reload"}
  /\ save' = [save EXCEPT ![c].at = "failed"] /\ promise' = 0
  /\ UNCHANGED <<stored, form, version, reading, nav, asking, typed>>

-----------------------------------------------------------------------------
(* Navigating.                                                             *)

\* navigate: older reads are revoked; then the manuscript is saved.
Navigate(work) == \E c \in Calls :
  /\ Free(c) /\ ~asking
  /\ nav' = [work |-> work, at |-> "prepare", call |-> c, version |-> version, row |-> None]
  /\ save' = Called(c, FALSE) /\ promise' = PromiseAfter(c) /\ reading' = Nobody
  /\ UNCHANGED <<stored, form, version, asking, typed>>

\* finishPreparation saves once more.
Finishes == \E c \in Calls :
  /\ nav # None /\ nav.at = "prepare" /\ save[nav.call].at = "ok" /\ Free(c)
  /\ nav' = [nav EXCEPT !.at = "finish", !.call = c, !.version = version]
  /\ save' = Called(c, FALSE) /\ promise' = PromiseAfter(c)
  /\ UNCHANGED <<stored, form, version, reading, asking, typed>>

Reads ==
  /\ nav # None /\ nav.at = "finish" /\ save[nav.call].at = "ok"
  /\ nav' = [nav EXCEPT !.at = "read"] /\ reading' = Navigation
  /\ UNCHANGED <<stored, form, version, save, promise, asking, typed>>

ReadServed ==
  /\ nav # None /\ nav.at = "read" /\ nav.row = None
  /\ nav' = [nav EXCEPT !.row = IF nav.work = None THEN "nothing" ELSE stored[nav.work]]
  /\ UNCHANGED <<stored, form, version, save, promise, reading, asking, typed>>

\* The navigation commits, or saves and reads again because of what was typed.
Commits ==
  /\ nav # None /\ nav.at = "read" /\ nav.row # None /\ reading = Navigation
  /\ IF nav.version = version
       THEN nav' = None /\ form' = setMode(nav.work, nav.row) /\ reading' = Nobody
       ELSE /\ nav' = [nav EXCEPT !.at = "prepare", !.row = None]
            /\ UNCHANGED <<form, reading>>
  /\ UNCHANGED <<stored, version, save, promise, asking, typed>>

\* The save failed, or a reload took the right to publish.
NavigationEnds ==
  /\ nav # None /\ nav' = None
  /\ save[nav.call].at = "failed" \/ (nav.at = "read" /\ reading # Navigation)
  /\ UNCHANGED <<stored, form, version, save, promise, reading, asking, typed>>

\* Who awaits a save that has ended goes on in a microtask, before anything else happens.
Quiet == \A c \in Calls : save[c].at = "waiting" => Unfinished(save[c].on)

Step ==
  \/ Type \/ Cancel \/ Discard \/ Keep \/ Rewrite
  \/ \E c \in Calls :
       DraftsFlushed(c) \/ Written(c) \/ Reloads(c) \/ Reloaded(c) \/ SaveFails(c)
  \/ \E work \in Works \cup {None} : Navigate(work)
  \/ Finishes \/ Reads \/ ReadServed \/ Commits \/ NavigationEnds

Writing == \E c \in Calls : save[c].at \in {"flush", "sent", "written", "reload"}

Next ==
  /\ (\E c \in Calls : Awaited(c)) \/ (Quiet /\ Step)
  /\ abandoned' = (abandoned \/ (form'.work # form.work /\ Writing'))

Spec == Init /\ [][Next]_vars

-----------------------------------------------------------------------------
\* What was typed into a manuscript and not discarded is in the store, or is still in the
\* form as unsaved, whatever was typed while it was saved, read or closed; unless a
\* manuscript was closed in the middle of a save.
TypedIsKept ==
  ~abandoned =>
    \A w \in Works :
      typed[w] # None =>
        \/ stored[w] = typed[w]
        \/ form.active /\ form.dirty /\ form.work = w /\ form.text = typed[w]

\* docs/design/ui-state-ownership.md:47: a manuscript ends by being discarded or by being
\* saved and closed; no work ever gets the text that was typed for another.
ManuscriptsStayApart == \A w \in Works : stored[w].of = w
=============================================================================
