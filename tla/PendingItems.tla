----------------------------- MODULE PendingItems -----------------------------
(***************************************************************************)
(* Items that were created empty and not written in: the controller        *)
(* remembers them, in memory and in the storage of the browser, and        *)
(* discards them when their row loses the focus or when the window starts  *)
(* again.  Every operation of the window waits, for a flush of the drafts, *)
(* for the process and for a reload, and the user goes on meanwhile.       *)
(*                                                                         *)
(* An item stands for its placement, its work and its working copy; its    *)
(* text is 0 when it is blank.  A draft is saved in one step here, and a   *)
(* reload is one step that keeps the drafts.                               *)
(***************************************************************************)
EXTENDS Integers, FiniteSets

CONSTANTS
  None,
  MaxItems,      \* a bound on the items that are created
  MaxUser,       \* a bound on what the user does
  MaxOps         \* a bound on the operations that wait at the same time

VARIABLES
  items,         \* the outline of the process: the parent and the text of each item
  snapshot,      \* the outline of the window
  pendingIds,    \* the items that are remembered
  persisted,     \* and the same in the storage of the browser
  ops,           \* the operations of the window that wait
  focus,         \* the row whose editor has the focus
  current,       \* the data load of the startup has not been revoked
  created,       \* how many items there have been
  user,          \* how much the user has done
  unwritten,     \* the remembered items whose record the browser has not taken
  unread,        \* those that a start did not find in the storage of the browser
  tracked, written, nested, held, handled
                 \* the items that were ever remembered, written in, given a child, and
                 \* focused when a startup looked at them; those a startup dealt with

remembered == <<pendingIds, persisted, unwritten, unread>>
window == <<snapshot, remembered, focus, current>>
ghosts == <<tracked, written, nested, held, handled>>
vars == <<items, window, ops, created, user, ghosts>>

Call(kind, ids, at) ==
  [kind |-> kind, ids |-> ids, at |-> at, parent |-> None, text |-> 0,
   dirty |-> {id \in ids \cap DOMAIN snapshot :
                id \in DOMAIN items => snapshot[id].text # items[id].text},
   typed |-> {}, entered |-> {}, heard |-> TRUE]

Becomes(op, other) == ops' = (ops \ {op}) \cup {other}
Ends(op) == ops' = ops \ {op}

Children(S, id) == {x \in DOMAIN S : S[x].parent = id}

isEmptyLeaf(S, id) == id \in DOMAIN S /\ S[id].text = 0 /\ Children(S, id) = {}

\* persist, after each of the items that leave the set: the browser takes the write or
\* does not, which is only reported.  The last write that it takes counts.
Persists(set, leaving) == \E left \in SUBSET leaving :
  persisted' = IF left = {} THEN persisted ELSE set \ left

\* forget
Forget(ids) ==
  /\ pendingIds' = pendingIds \ ids
  /\ Persists(pendingIds, ids \cap pendingIds)
  /\ unwritten' = (unwritten \cap pendingIds') \ persisted'
  /\ UNCHANGED unread

\* track
Track(ids) ==
  /\ pendingIds' = pendingIds \cup ids
  /\ persisted' \in {persisted, pendingIds'}
  /\ unwritten' = (unwritten \cup ids) \ persisted'
  /\ UNCHANGED unread

Remembers == UNCHANGED remembered

-----------------------------------------------------------------------------
Init ==
  /\ items = <<>> /\ snapshot = <<>> /\ ops = {}
  /\ pendingIds = {} /\ persisted = {} /\ unwritten = {} /\ unread = {}
  /\ focus = None /\ current = FALSE /\ created = 0 /\ user = 0
  /\ tracked = {} /\ written = {} /\ nested = {} /\ held = {} /\ handled = {}

Acts == user < MaxUser /\ user' = user + 1

Asks(op) == Cardinality(ops) < MaxOps /\ ops' = ops \cup {op}

\* createRoot, or splitRow of an item with text, whose right part may be blank.
Create == \E parent \in DOMAIN snapshot \cup {None}, text \in 0..1 :
  /\ Acts
  /\ \/ parent = None /\ text = 0
     \/ \E id \in DOMAIN snapshot : snapshot[id].parent = parent /\ snapshot[id].text # 0
  /\ created + Cardinality({op \in ops : op.kind = "create" /\ op.at = "sent"}) < MaxItems
  /\ Asks([Call("create", {}, "sent") EXCEPT !.parent = parent, !.text = text])
  /\ UNCHANGED <<items, window, created, ghosts>>

\* indent: below another row.
Indent == \E id, parent \in DOMAIN snapshot :
  /\ Acts /\ id # parent /\ snapshot[id].parent = snapshot[parent].parent
  /\ Asks([Call("move", {id}, "sent") EXCEPT !.parent = parent])
  /\ UNCHANGED <<items, window, created, ghosts>>

\* Typing in the row that has the focus, or emptying it again: noteTextChange.
Type ==
  /\ Acts /\ focus # None
  /\ snapshot' = [snapshot EXCEPT ![focus].text = 1 - @]
  /\ IF snapshot'[focus].text # 0 THEN Forget({focus}) ELSE Remembers
  /\ written' = written \cup {focus}
  /\ ops' = {IF op.at = "sent" THEN [op EXCEPT !.typed = @ \cup {focus}] ELSE op : op \in ops}
  /\ UNCHANGED <<items, focus, current, created, tracked, nested, held, handled>>

\* The focus moves, and the row that loses it is discarded if it is remembered, shown
\* and blank; a remembered one that is gone or has a text is forgotten.
MoveFocus == \E id \in {None} \cup DOMAIN snapshot :
  LET blank == focus \in DOMAIN snapshot /\ snapshot[focus].text = 0
      on == {IF op.at = "sent" THEN [op EXCEPT !.entered = @ \cup {id}] ELSE op : op \in ops}
  IN  /\ Acts /\ id # focus /\ focus' = id
      /\ IF focus \in pendingIds /\ blank
           THEN /\ Cardinality(ops) < MaxOps
                /\ ops' = on \cup {Call("discard", {focus}, "flush")}
                /\ Remembers
           ELSE Forget({focus}) /\ ops' = on
      /\ UNCHANGED <<items, snapshot, current, created, ghosts>>

\* remove, of any item.
Remove == \E id \in DOMAIN snapshot :
  /\ Acts /\ Asks(Call("remove", {id}, "flush"))
  /\ UNCHANGED <<items, window, created, ghosts>>

\* An empty row, behind another one.
canDeleteEmptyRow(id) ==
  /\ snapshot[id].text = 0
  /\ \E x \in DOMAIN snapshot : x # id /\ snapshot[x].parent = snapshot[id].parent

\* Backspace in such a row.
DeleteEmptyRow ==
  /\ Acts /\ focus # None /\ canDeleteEmptyRow(focus)
  /\ Asks(Call("deleteEmptyRow", {focus}, "flush"))
  /\ UNCHANGED <<items, window, created, ghosts>>

-----------------------------------------------------------------------------
(* Drafts.                                                                 *)

\* The autosave of an item saves what is on screen, if the item still exists.
Save == \E id \in DOMAIN snapshot :
  /\ \/ id \in DOMAIN items /\ items[id].text # snapshot[id].text
     \/ \E op \in ops : id \in op.dirty
  /\ items' = [x \in DOMAIN items |->
                 IF x = id THEN [items[x] EXCEPT !.text = snapshot[id].text] ELSE items[x]]
  /\ ops' = {[op EXCEPT !.dirty = @ \ {id}] : op \in ops}
  /\ UNCHANGED <<window, created, user, ghosts>>

\* A flush that fails ends its operation.
FlushFails == \E op \in ops :
  /\ op.at = "flush" /\ op.dirty # {} /\ Ends(op)
  /\ UNCHANGED <<items, window, created, user, ghosts>>

\* Faulty: what was seen before the flush still counts.
unchecked(op) == op.ids

\* Faulty: the row that is being edited is not spared.
evenEdited(op) ==
  IF op.kind \in {"remove", "deleteEmptyRow"} THEN op.ids
  ELSE {id \in op.ids \cap pendingIds : isEmptyLeaf(snapshot, id)}

\* What an operation still deletes after its flush: discardAfterFlush, and
\* restoredDiscardCandidates; remove and deleteEmptyRow do not look again.
candidates(op) ==
  IF op.kind \in {"remove", "deleteEmptyRow"} THEN op.ids
  ELSE {id \in op.ids \cap pendingIds :
          isEmptyLeaf(snapshot, id) /\ (op.kind = "restored" => id # focus)}

\* Faulty: forgotten as soon as the deletion is asked for.
dismissedFirst(op) == op.ids

\* Those that it forgets: what is edited at a startup stays remembered.
dismissed(op) ==
  IF op.kind \in {"remove", "deleteEmptyRow"} THEN {}
  ELSE {id \in op.ids : ~isEmptyLeaf(snapshot, id) /\ (op.kind = "restored" => id # focus)}

\* The flush has saved what was on screen when it began.
AfterFlush == \E op \in ops :
  /\ op.at = "flush" /\ op.dirty = {}
  /\ IF op.kind = "restored" /\ ~current
       THEN Ends(op) /\ Remembers /\ UNCHANGED <<held, handled>>
       ELSE /\ Forget(dismissed(op))
            /\ held' = IF op.kind = "restored" THEN held \cup ({focus} \cap op.ids) ELSE held
            /\ IF candidates(op) = {}
                 THEN /\ Ends(op)
                      /\ handled' = IF op.kind = "restored" THEN handled \cup op.ids ELSE handled
                 ELSE /\ Becomes(op, [op EXCEPT !.at = "sent", !.ids = candidates(op)])
                      /\ UNCHANGED handled
  /\ UNCHANGED <<items, snapshot, focus, current, created, user, tracked, written, nested>>

-----------------------------------------------------------------------------
(* The process.                                                            *)

\* The answer is lost when the window that asked is gone.
Answers(op, at, ids) ==
  IF op.heard THEN Becomes(op, [op EXCEPT !.at = at, !.ids = ids]) ELSE Ends(op)

\* createItem
ServeCreate == \E op \in ops :
  /\ op.at = "sent" /\ op.kind = "create"
  /\ created' = created + 1
  /\ items' = [id \in DOMAIN items \cup {created'} |->
                 IF id = created' THEN [parent |-> op.parent, text |-> op.text] ELSE items[id]]
  /\ nested' = nested \cup ({op.parent} \ {None})
  /\ Answers(op, "answered", {created'})
  /\ UNCHANGED <<window, user, tracked, written, held, handled>>

\* moveItem
ServeMove == \E op \in ops, id \in DOMAIN items :
  /\ op.at = "sent" /\ op.kind = "move" /\ id \in op.ids
  /\ items' = [items EXCEPT ![id].parent = op.parent]
  /\ nested' = nested \cup {op.parent}
  /\ Answers(op, "answered", op.ids)
  /\ UNCHANGED <<window, created, user, tracked, written, held, handled>>

\* The children go to the parent.
deleteOccurrenceWithPromotion(id) ==
  [x \in DOMAIN items \ {id} |->
     IF items[x].parent = id THEN [items[x] EXCEPT !.parent = items[id].parent] ELSE items[x]]

\* deleteItem, if the item still exists.  The text is not looked at.
ServeDelete == \E op \in ops, id \in 1..MaxItems :
  /\ op.at = "sent" /\ op.kind \in {"discard", "remove", "deleteEmptyRow"} /\ id \in op.ids
  /\ IF id \in DOMAIN items
       THEN /\ items' = deleteOccurrenceWithPromotion(id)
            /\ nested' = IF Children(items, id) = {} THEN nested
                         ELSE nested \cup ({items[id].parent} \ {None})
       ELSE UNCHANGED <<items, nested>>
  /\ Answers(op, "answered", op.ids)
  /\ UNCHANGED <<window, created, user, tracked, written, held, handled>>

\* Faulty: all of them or none.
allOrNone(ids) == IF \A id \in ids : isEmptyLeaf(items, id) THEN ids ELSE {}

\* Those that are still empty leaves.
toDelete(ids) == {id \in ids : isEmptyLeaf(items, id)}

\* discardEmptyItems: every one is handled.
ServeDiscard == \E op \in ops :
  LET deleted == toDelete(op.ids) IN
  /\ op.at = "sent" /\ op.kind = "restored"
  /\ items' = [id \in DOMAIN items \ deleted |-> items[id]]
  /\ Answers(op, IF deleted = {} THEN "nothing" ELSE "answered", op.ids)
  /\ UNCHANGED <<window, created, user, ghosts>>

\* The call fails: nothing is forgotten.
ServeFails == \E op \in ops :
  /\ op.at = "sent" /\ Ends(op)
  /\ UNCHANGED <<items, window, created, user, ghosts>>

\* The answer: a new empty item is remembered, one that was deleted or handled is not.
Answered == \E op \in ops :
  /\ op.at \in {"answered", "nothing"}
  /\ CASE op.kind = "create" /\ op.text = 0 -> Track(op.ids) /\ tracked' = tracked \cup op.ids
       [] op.kind \notin {"create", "move"} -> Forget(op.ids) /\ UNCHANGED tracked
       [] OTHER -> Remembers /\ UNCHANGED tracked
  /\ IF op.at = "nothing" \/ (op.kind = "restored" /\ ~current)
       THEN Ends(op) ELSE Becomes(op, [op EXCEPT !.at = "reload"])
  /\ handled' = IF op.kind = "restored" THEN handled \cup op.ids ELSE handled
  /\ UNCHANGED <<items, snapshot, focus, current, created, user, written, nested, held>>

\* The reload keeps what is on screen.  One that the startup has not asked for revokes
\* its data load, whose own reload is then not shown; a reload may fail.
Reload == \E op \in ops, succeeds \in BOOLEAN :
  /\ op.at = "reload" /\ Ends(op)
  /\ current' = (current /\ op.kind \in {"discard", "restored"})
  /\ IF succeeds /\ (op.kind = "restored" => current)
       THEN /\ snapshot' = [id \in DOMAIN items |->
                 IF id \in DOMAIN snapshot THEN [items[id] EXCEPT !.text = snapshot[id].text]
                 ELSE items[id]]
            /\ focus' = IF focus \in DOMAIN items THEN focus ELSE None
       ELSE UNCHANGED <<snapshot, focus>>
  /\ UNCHANGED <<items, remembered, created, user, ghosts>>

-----------------------------------------------------------------------------
\* The window starts again, with what the browser has stored, if it gives that back, and
\* looks at the items that were left: flushRestoredItems.  The process may still serve
\* what was asked.
Restart == \E sent \in SUBSET {op \in ops : op.at = "sent"}, loaded \in {persisted, {}} :
  LET left == {id \in loaded : id \in DOMAIN items /\ items[id].text = 0} IN
  /\ Acts /\ snapshot' = items /\ focus' = None /\ current' = TRUE
  /\ pendingIds' = left /\ Persists(loaded, loaded \ left)
  /\ unwritten' = {} /\ unread' = (unread \cup unwritten \cup persisted) \ loaded
  /\ ops' = {[op EXCEPT !.heard = FALSE] : op \in sent}
              \cup {[kind |-> "restored", ids |-> left, at |-> "flush", parent |-> None,
                     text |-> 0, dirty |-> {}, typed |-> {}, entered |-> {}, heard |-> TRUE]}
  /\ UNCHANGED <<items, created, ghosts>>

Next ==
  \/ Create \/ Indent \/ Type \/ MoveFocus \/ Remove \/ DeleteEmptyRow
  \/ Save \/ FlushFails \/ AfterFlush
  \/ ServeCreate \/ ServeMove \/ ServeDelete \/ ServeDiscard \/ ServeFails
  \/ Answered \/ Reload \/ Restart

Spec == Init /\ [][Next]_vars

-----------------------------------------------------------------------------
\* No text is discarded with its item, neither one on screen nor one that is saved,
\* unless it was typed while the request was on its way; and a startup does not take
\* the row that is being edited.
TypedItemsStay ==
  \A op \in ops : op.at = "sent" /\ op.kind \in {"discard", "restored"} =>
    \A id \in op.ids :
      /\ \/ id \in DOMAIN items /\ items[id].text # 0
         \/ id \in DOMAIN snapshot /\ snapshot[id].text # 0
         => id \in op.typed
      /\ op.kind = "restored" /\ focus = id => id \in op.entered

\* An item that was created empty and never written in or given a child is remembered
\* until it is gone, and in the storage of the browser too, unless the browser has not
\* taken the record; only a start that does not get the record back loses it.
UntouchedAreRemembered ==
  \A id \in (tracked \cap DOMAIN items) \ (written \cup nested \cup unread) :
    id \in pendingIds \cap (persisted \cup unwritten)

\* What a startup dealt with is gone, unless somebody wrote in it, gave it a child or
\* was in it.
NothingIsLeftBehind ==
  handled \cap DOMAIN items \subseteq written \cup nested \cup held
=============================================================================
