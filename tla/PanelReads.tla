----------------------------- MODULE PanelReads -----------------------------
(***************************************************************************)
(* The panels of the window that show what the desktop process answers:    *)
(* history, recovery, suggestions, backlinks, tree, bookmarks, the search  *)
(* fields, completion and the licences.  Each has a controller of its own, *)
(* which gives its requests a number, and drops an answer it no longer     *)
(* wants.  The panels share nothing but the selection, so one of them is   *)
(* followed, chosen at the start.                                          *)
(*                                                                         *)
(* Requests are answered in any order.  A selection is followed by the     *)
(* effects of App, which run in a later microtask.  An operation of the    *)
(* panel (promoting a snapshot, resolving a suggestion, adding a bookmark, *)
(* capturing what was typed) is a call too, after which the panel is read  *)
(* again.                                                                  *)
(***************************************************************************)
EXTENDS Naturals, FiniteSets

CONSTANTS None, Panels,
  MaxRequests, \* a bound on the request numbers
  MaxChanges   \* a bound on the operations

VARIABLES
  panel, selected,
  visible,  \* the tree: it is the screen shown
  typed,    \* the fields: the query in the field, 0 when it is empty
  due,      \* effects have been scheduled and have not run
  timer,    \* the query whose debounce timer is armed
  newest,   \* the number of the newest request, or of the last invalidation
  requests, \* those not yet received
  shown,    \* what the panel shows: the key that was asked, and the version
  loading, failed,
  version,  \* of the stored data
  change,   \* the operation under way
  excused   \* a request was displaced by one that could not be shown

vars == <<panel, selected, visible, typed, due, timer, newest, requests, shown, loading,
          failed, version, change, excused>>

History == {"revisions", "recovery"}
Followers == History \cup {"emergence", "backlinks", "tree"}
Fields == {"omni", "links", "completion"}

\* Two branches of one work where branches matter, otherwise two works.
Items == IF panel = "recovery" THEN {"a1", "a2"} ELSE {"a1", "b1"}
WorkOf(item) == IF item = None THEN None ELSE IF item = "b1" THEN "b" ELSE "a"

\* What the panel should show now.
Subject ==
  CASE panel \in {"revisions", "backlinks"} -> WorkOf(selected)
    [] panel \in {"recovery", "emergence"} -> selected
    [] panel = "tree" -> <<"tree", WorkOf(selected)>>
    [] panel \in {"omni", "links"} -> typed
    [] panel = "completion" -> <<selected, typed>>
    [] OTHER -> panel

Init ==
  /\ panel \in Panels /\ selected = None /\ visible = FALSE /\ typed = 0
  /\ due = FALSE /\ timer = None /\ newest = 0 /\ requests = {} /\ shown = None
  /\ loading = FALSE /\ failed = FALSE /\ version = 0 /\ change = None
  /\ excused = FALSE

-----------------------------------------------------------------------------
(* Asking, and no longer wanting an answer.                                *)

Asked(id, key, staged) ==
  [id |-> id, key |-> key, staged |-> staged, at |-> "sent", version |-> 0]

\* The panels that say they are loading.
Loads == panel \in {"revisions", "emergence", "tree", "links", "completion", "licenses"}

Begin(key, staged) ==
  /\ newest < MaxRequests /\ newest' = newest + 1
  /\ requests' = {r \in requests : ~(staged /\ r.staged)} \cup {Asked(newest', key, staged)}
  /\ loading' = Loads /\ failed' = FALSE

\* HistoryController.clear, clearRecovery, clearBacklinks and their like.
Clear ==
  /\ newest < MaxRequests /\ newest' = newest + 1
  /\ shown' = None /\ loading' = FALSE /\ failed' = FALSE
  /\ UNCHANGED requests

\* TreeController.invalidate: what is shown stays.
invalidate ==
  /\ newest < MaxRequests /\ newest' = newest + 1
  /\ loading' = FALSE
  /\ UNCHANGED <<requests, shown, failed>>

-----------------------------------------------------------------------------
(* The selection, and the effects that follow it.                          *)

\* The selection workspace clears the completions at once.
Select(item) ==
  /\ panel \in Followers \cup Fields /\ item # selected
  /\ selected' = item
  /\ due' = (panel \in Followers \cup {"links"})
  /\ IF panel = "completion" THEN Clear /\ typed' = 0
                             ELSE UNCHANGED <<newest, requests, shown, loading, failed, typed>>
  /\ UNCHANGED <<panel, visible, timer, version, change, excused>>

\* The window shows the tree, or leaves it.
ShowTree ==
  /\ panel = "tree" /\ visible' = ~visible /\ due' = TRUE
  /\ UNCHANGED <<panel, selected, typed, timer, newest, requests, shown, loading, failed,
                 version, change, excused>>

\* A new snapshot of the outline: the effects that read the selected item run again.
SnapshotPublished ==
  /\ panel \in Followers /\ ~due /\ due' = TRUE
  /\ UNCHANGED <<panel, selected, visible, typed, timer, newest, requests, shown, loading,
                 failed, version, change, excused>>

selectionEffect ==
  /\ panel \in Followers \ {"tree"}
  /\ IF selected = None THEN Clear /\ UNCHANGED excused
     ELSE Begin(Subject, FALSE) /\ UNCHANGED shown /\ excused' = FALSE
  /\ UNCHANGED typed

\* Its cleanup invalidates; then the tree is read unless it was loaded for this key.
treeEffect ==
  /\ panel = "tree"
  /\ IF visible /\ (shown = None \/ shown.key # Subject)
       THEN Begin(Subject, FALSE) /\ UNCHANGED shown /\ excused' = FALSE
       ELSE invalidate /\ UNCHANGED excused
  /\ UNCHANGED typed

\* The effect of LinkEditor: the form is reset.
linkEditorEffect ==
  panel = "links" /\ Clear /\ typed' = 0 /\ UNCHANGED excused

EffectsRun ==
  /\ due /\ due' = FALSE
  /\ selectionEffect \/ treeEffect \/ linkEditorEffect
  /\ timer' = IF panel = "links" THEN None ELSE timer
  /\ UNCHANGED <<panel, selected, visible, version, change>>

-----------------------------------------------------------------------------
(* The fields.                                                             *)

\* queueSearch: the results of the last query stay until those of this one arrive.
queueSearch(query) ==
  /\ panel = "omni" /\ newest < MaxRequests /\ newest' = newest + 1
  /\ timer' = IF query = 0 THEN None ELSE query
  /\ shown' = IF query = 0 THEN None ELSE shown
  /\ UNCHANGED <<requests, loading, failed>>

scheduleSearch(query) ==
  /\ panel = "links" /\ newest < MaxRequests /\ newest' = newest + 1
  /\ timer' = IF query = 0 THEN None ELSE query
  /\ shown' = None /\ loading' = (query # 0) /\ failed' = FALSE
  /\ UNCHANGED requests

\* Nothing is debounced, and the state of an @link exists as soon as it is typed.
updateInlineLinkCompletion(query) ==
  /\ panel = "completion" /\ selected # None
  /\ IF query = 0 THEN Clear
                  ELSE Begin(<<selected, query>>, FALSE) /\ shown' = None
  /\ UNCHANGED timer

Type(query) ==
  /\ query # typed /\ typed' = query
  /\ queueSearch(query) \/ scheduleSearch(query) \/ updateInlineLinkCompletion(query)
  /\ UNCHANGED <<panel, selected, visible, due, version, change, excused>>

TimerFires ==
  /\ timer # None /\ timer' = None
  /\ requests' = requests \cup {Asked(newest, timer, FALSE)}
  /\ UNCHANGED <<panel, selected, visible, typed, due, newest, shown, loading, failed,
                 version, change, excused>>

-----------------------------------------------------------------------------
(* The dialogs that the user opens and closes.                             *)

\* LicensesController.open, and the check for updates.
Open ==
  /\ panel = "licenses" /\ ~visible /\ visible' = TRUE
  /\ Begin(panel, FALSE) /\ shown' = None
  /\ UNCHANGED <<panel, selected, typed, due, timer, version, change, excused>>

Close ==
  /\ panel = "licenses" /\ visible /\ visible' = FALSE
  /\ Clear
  /\ UNCHANGED <<panel, selected, typed, due, timer, version, change, excused>>

-----------------------------------------------------------------------------
(* Answers.                                                                *)

Serve(r) ==
  /\ r.at = "sent"
  /\ requests' = (requests \ {r}) \cup {[r EXCEPT !.at = "answered", !.version = version]}
  /\ UNCHANGED <<panel, selected, visible, typed, due, timer, newest, shown, loading,
                 failed, version, change, excused>>

Fail(r) ==
  /\ r.at = "sent"
  /\ requests' = (requests \ {r}) \cup {[r EXCEPT !.at = "failed"]}
  /\ UNCHANGED <<panel, selected, visible, typed, due, timer, newest, shown, loading,
                 failed, version, change, excused>>

\* Faulty: any answer is wanted, however old.
anyOf(r) == TRUE

historyCurrent(r) == r.id = newest /\ r.key = Subject
emergenceCurrent(r) == r.id = newest /\ r.key = selected
backlinksCurrent(r) == r.id = newest
treeCurrent(r) == r.id = newest /\ r.key = Subject
bookmarksCurrent(r) == r.id = newest
omniCurrent(r) == r.id = newest
linksCurrent(r) == r.id = newest
completionCurrent(r) == r.id = newest /\ r.key[1] = selected
licensesCurrent(r) == r.id = newest /\ visible

current(r) ==
  \/ panel \in History /\ historyCurrent(r)
  \/ panel = "emergence" /\ emergenceCurrent(r)
  \/ panel = "backlinks" /\ backlinksCurrent(r)
  \/ panel = "tree" /\ treeCurrent(r)
  \/ panel = "bookmarks" /\ bookmarksCurrent(r)
  \/ panel = "omni" /\ omniCurrent(r)
  \/ panel = "links" /\ linksCurrent(r)
  \/ panel = "completion" /\ completionCurrent(r)
  \/ panel = "licenses" /\ licensesCurrent(r)

\* The finally of the newest request; a completion that failed goes on searching.
stillLoading(r) == loading /\ (r.id # newest \/ (panel = "completion" /\ r.at = "failed"))

Receive(r) ==
  /\ r.at \in {"answered", "failed"} /\ requests' = requests \ {r}
  /\ shown' = IF current(r) /\ r.at = "answered"
                THEN [key |-> r.key, version |-> r.version] ELSE shown
  /\ failed' = (failed \/ (current(r) /\ r.at = "failed"))
  /\ loading' = stillLoading(r)
  /\ UNCHANGED <<panel, selected, visible, typed, due, timer, newest, version, change,
                 excused>>

-----------------------------------------------------------------------------
(* Operations.                                                             *)

\* What the operation remembers: its subject, and in the omni field its receipt.
StartChange ==
  /\ change = None /\ version < MaxChanges
  /\ panel \in History \cup {"emergence"} => selected # None /\ shown # None
  /\ panel \in History \cup {"emergence", "bookmarks"} \/ (panel = "omni" /\ typed # 0)
  /\ change' = [at |-> "sent", key |-> Subject, receipt |-> newest]
  /\ UNCHANGED <<panel, selected, visible, typed, due, timer, newest, requests, shown,
                 loading, failed, version, excused>>

ChangeServed ==
  /\ change # None /\ change.at = "sent"
  /\ change' = [change EXCEPT !.at = "served"] /\ version' = version + 1
  /\ UNCHANGED <<panel, selected, visible, typed, due, timer, newest, requests, shown,
                 loading, failed, excused>>

ChangeFails ==
  /\ change # None /\ change.at = "sent" /\ change' = None
  /\ UNCHANGED <<panel, selected, visible, typed, due, timer, newest, requests, shown,
                 loading, failed, version, excused>>

\* promoteRecoverySnapshot and restoreRecoverySnapshot read again what was selected
\* when they began.
afterPromotion ==
  /\ panel \in History /\ Begin(change.key, FALSE)
  /\ excused' = (change.key # Subject)
  /\ UNCHANGED <<typed, timer, shown>>

\* resolve reads again what is selected now.
afterResolution ==
  /\ panel = "emergence"
  /\ IF selected = None THEN Clear /\ UNCHANGED excused
     ELSE Begin(selected, FALSE) /\ UNCHANGED shown /\ excused' = FALSE
  /\ UNCHANGED <<typed, timer>>

afterBookmark ==
  /\ panel = "bookmarks" /\ Begin(panel, FALSE) /\ excused' = FALSE
  /\ UNCHANGED <<typed, timer, shown>>

\* captureInput: the receipt of the text that was captured.
inputIsCurrent(receipt) == receipt = newest

clearAccepted ==
  /\ panel = "omni"
  /\ IF inputIsCurrent(change.receipt) THEN Clear /\ typed' = 0 /\ timer' = None
     ELSE UNCHANGED <<newest, requests, shown, loading, failed, typed, timer>>
  /\ UNCHANGED excused

ChangeAnswered ==
  /\ change # None /\ change.at = "served" /\ change' = None
  /\ afterPromotion \/ afterResolution \/ afterBookmark \/ clearAccepted
  /\ UNCHANGED <<panel, selected, visible, due, version>>

\* What the tree shows is edited elsewhere.
EditServed ==
  /\ panel = "tree" /\ version < MaxChanges /\ version' = version + 1
  /\ UNCHANGED <<panel, selected, visible, typed, due, timer, newest, requests, shown,
                 loading, failed, change, excused>>

-----------------------------------------------------------------------------
(* The reload of the outline reads the tree and the bookmarks too, and      *)
(* publishes all of them or none.                                          *)

OutlineReload ==
  /\ panel \in {"tree", "bookmarks"}
  /\ Begin(Subject, TRUE) /\ excused' = FALSE
  /\ UNCHANGED <<panel, selected, visible, typed, due, timer, shown, version, change>>

\* A navigation revokes it: its requests are cancelled.
ReloadRevoked ==
  /\ \E r \in requests : r.staged
  /\ requests' = {r \in requests : ~r.staged}
  /\ newest' = IF panel = "tree" /\ \E r \in requests : r.staged /\ r.id = newest
                 THEN newest + 1 ELSE newest
  /\ loading' = (loading /\ newest' = newest) /\ excused' = TRUE
  /\ UNCHANGED <<panel, selected, visible, typed, due, timer, shown, failed, version,
                 change>>

Next ==
  \/ \E item \in Items \cup {None} : Select(item)
  \/ ShowTree \/ SnapshotPublished \/ EffectsRun
  \/ (\E query \in 0..2 : Type(query)) \/ TimerFires
  \/ Open \/ Close
  \/ \E r \in requests : Serve(r) \/ Fail(r) \/ Receive(r)
  \/ StartChange \/ ChangeServed \/ ChangeFails \/ ChangeAnswered
  \/ EditServed \/ OutlineReload \/ ReloadRevoked

Spec == Init /\ [][Next]_vars

-----------------------------------------------------------------------------
\* No request, timer, effect or operation is outstanding.
Quiet == requests = {} /\ timer = None /\ ~due /\ change = None

\* The panel has something to show.
Wanting ==
  /\ panel \in Followers \ {"tree"} => selected # None
  /\ panel \in {"tree", "licenses"} => visible
  /\ panel \in Fields => typed # 0
  /\ panel # "bookmarks"

ShowsItsSubject ==
  Quiet /\ ~failed =>
    /\ ~loading
    /\ Wanting => shown # None /\ shown.key = Subject
    /\ panel \in Followers \ {"tree"} /\ selected = None => shown = None

\* When nothing is outstanding and nothing failed, a panel shows the answer for what is
\* selected or typed now, in whatever order selections, effects, answers and operations
\* came; but for requests displaced by one that is then dropped.
PanelsShowTheirSubject == ~excused => ShowsItsSubject

\* An answer that was asked for later is not replaced by an earlier one: for one subject
\* the panel never goes back to an older version of the data.
ShownGoesForward ==
  shown # None /\ shown' # None /\ shown'.key = shown.key => shown'.version >= shown.version

NewerAnswersStay == [][ShownGoesForward]_vars
=============================================================================
