--------------------------- MODULE OutlineViewport ---------------------------
(***************************************************************************)
(* The virtual outline: OutlineVirtualViewportController, the window of    *)
(* rows it has drawn (virtual_outline_viewport.ts), and the view adapter   *)
(* that measures rows, scrolls, and corrects the scroll position when rows *)
(* above change.  The browser keeps its own scroll position, cuts it off   *)
(* at the end of the content, and tells so in an event that may come       *)
(* before or after the animation frame that corrects it.                   *)
(*                                                                         *)
(* Rows are numbered in the order of the outline; heights and positions    *)
(* are whole numbers, so that the tolerance of half a pixel is no more     *)
(* than "equal".  A row that is drawn has the height of the layout until   *)
(* it is measured.                                                         *)
(***************************************************************************)
EXTENDS Integers, Sequences, SequencesExt, FiniteSets, FiniteSetsExt

CONSTANTS
  None,
  RowIds,        \* a set of numbers
  Heights,       \* what rows are measured to be
  DEFAULT_ROW_HEIGHT, MIN_ROWS_THRESHOLD, OVERSCAN,
  ViewportHeight,
  MaxChanges,    \* a bound on the changes of rows, heights and width
  MaxGestures    \* a bound on what the user does in the outline

VARIABLES
  rows,          \* liveRowIds
  heights,       \* measuredHeights
  metrics,       \* liveMetrics
  scrollAnchor, pendingAnchor,
  owner,         \* ownerProtectedIds: the selected row
  focusedIds, composingIds,
  pinned,        \* liveProtectedIds
  view,          \* "away", "mounted" (not connected yet) or "connected"
  top,           \* the scroll position of the browser
  frame,         \* an animation frame is requested
  focus,         \* the row whose editor has the focus
  composing,     \* it is composing a character
  place,         \* the place that is being read: the row at the top, and how far into it
  strayed,       \* the row that was being read is gone, or the browser has cut the position off
  changes, gestures

controller == <<rows, heights, metrics, scrollAnchor, pendingAnchor, owner,
                focusedIds, composingIds, pinned>>
user == <<focus, composing, place, strayed, changes, gestures>>
vars == <<controller, view, top, frame, user>>

-----------------------------------------------------------------------------
(* The layout: offsets of rows that have or have not been measured.        *)

HeightOf(h, id) == IF id \in DOMAIN h THEN h[id] ELSE DEFAULT_ROW_HEIGHT

\* The sums of the first 0, 1, ... elements of a sequence of numbers.
Sums(s) == LET sums[j \in {0} \cup DOMAIN s] == IF j = 0 THEN 0 ELSE sums[j - 1] + s[j] IN sums

\* Where row i begins; row Len(R) + 1 is where the content ends.
Offset(R, h, i) == Sums([j \in DOMAIN R |-> HeightOf(h, R[j])])[i - 1]

TotalHeight(R, h) == Offset(R, h, Len(R) + 1)

IndexOf(R, id) == CHOOSE i \in DOMAIN R : R[i] = id

Least(a, b) == IF a < b THEN a ELSE b
Greatest(a, b) == IF a > b THEN a ELSE b

\* The first row that ends behind y, by binary search in the source.
IndexAt(R, h, y) ==
  LET behind == {i \in DOMAIN R : Offset(R, h, i + 1) > y}
  IN  IF behind = {} THEN Len(R) ELSE Min(behind)

\* captureAnchor: the place at the position y.
PlaceAt(R, h, y) ==
  IF R = <<>> THEN None
  ELSE LET i == IndexAt(R, h, y) IN [id |-> R[i], index |-> i, offset |-> y - Offset(R, h, i)]

-----------------------------------------------------------------------------
(* The rows that are drawn, with gaps for the others.                      *)

\* visibleRange, with the overscan.
Window(R, h, m) ==
  LET y == Least(Greatest(0, m.top), Greatest(0, TotalHeight(R, h) - m.height))
      first == IndexAt(R, h, y)
      reached == {i \in first..Len(R) : Offset(R, h, i) <= y + m.height}
      last == Greatest(first, IF reached = {} THEN first ELSE Max(reached))
  IN  Greatest(1, first - OVERSCAN)..Least(Len(R), last + OVERSCAN)

\* Faulty: what is pinned is not drawn outside the window.
DrawnUnpinned(R, h, m, P) ==
  IF Len(R) <= MIN_ROWS_THRESHOLD THEN DOMAIN R
  ELSE IF m.height = 0 THEN 1..Least(Len(R), OVERSCAN + 1) ELSE Window(R, h, m)

\* calculateVirtualOutlineWindow: the indices of the rows that are drawn.
Drawn(R, h, m, P) ==
  {i \in DOMAIN R : R[i] \in P}
    \cup IF Len(R) <= MIN_ROWS_THRESHOLD THEN DOMAIN R
         ELSE IF m.height = 0 THEN 1..Least(Len(R), OVERSCAN + 1) ELSE Window(R, h, m)

entries == Drawn(rows, heights, metrics, pinned)

\* The end of the last drawn row before row i.
Cursor(i) ==
  LET earlier == {j \in entries : j < i}
  IN  IF earlier = {} THEN 0 ELSE Offset(rows, heights, Max(earlier) + 1)

gapBefore(i) == Offset(rows, heights, i) - Cursor(i)

trailingGap == TotalHeight(rows, heights) - Cursor(Len(rows) + 1)

-----------------------------------------------------------------------------
(* The controller.                                                         *)

\* Faulty: every change keeps the place that is at the top by then.
PreservedLast == PlaceAt(rows, heights, metrics.top)

\* preserveAnchor: several changes keep the place before the first.
Preserved ==
  IF pendingAnchor # None THEN pendingAnchor
  ELSE IF scrollAnchor # None THEN scrollAnchor ELSE PlaceAt(rows, heights, metrics.top)

\* publishProtectedIds
Publish(o, f, c) ==
  /\ owner' = o /\ focusedIds' = f /\ composingIds' = c /\ pinned' = o \cup f \cup c

\* observeScroll in the layout of R and h, when p is pending.
Observe(R, h, m, p) ==
  IF m = metrics
    THEN metrics' = metrics /\ pendingAnchor' = p /\ UNCHANGED scrollAnchor
    ELSE /\ metrics' = m
         /\ pendingAnchor' = IF m.top # metrics.top THEN None ELSE p
         /\ scrollAnchor' = IF pendingAnchor' = None THEN PlaceAt(R, h, m.top) ELSE scrollAnchor

-----------------------------------------------------------------------------
(* The browser.                                                            *)

Shows == [top |-> top, height |-> ViewportHeight]

MaxTop(R, h) == Greatest(0, TotalHeight(R, h) - ViewportHeight)

\* Where the browser is when it is asked to be at y.
Clamped(R, h, y) == Least(Greatest(0, y), MaxTop(R, h))

\* The layout changes under the scroll position.
Relayout(R, h) ==
  /\ top' = Clamped(R, h, top)
  /\ strayed' = (strayed \/ top' # top \/ (place # None /\ place.id \notin ToSet(R)))
  /\ changes' = changes + 1

\* The user sees another place, and reads on there.
Arrive(R, h, y) == place' = PlaceAt(R, h, y) /\ strayed' = FALSE

Connected == view = "connected"

-----------------------------------------------------------------------------
Init ==
  /\ rows = <<>> /\ heights = <<>> /\ metrics = [top |-> 0, height |-> 0]
  /\ scrollAnchor = None /\ pendingAnchor = None
  /\ owner = {} /\ focusedIds = {} /\ composingIds = {} /\ pinned = {}
  /\ view = "away" /\ top = 0 /\ frame = FALSE /\ focus = None /\ composing = FALSE
  /\ place = None /\ strayed = FALSE /\ changes = 0 /\ gestures = 0

\* The rows that can be visible, in the order of the outline.
Outlines ==
  {R \in UNION {[1..n -> RowIds] : n \in 0..Cardinality(RowIds)} :
     \A j \in DOMAIN R : \A i \in 1..(j - 1) : R[i] < R[j]}

\* refreshProjection: R are the rows, id is the one that is selected or dragged.
SetRows(R, id) ==
  LET S == ToSet(R)
      h == [x \in DOMAIN heights \cap S |-> heights[x]]
      gone == (focusedIds \cup composingIds) \ S
  IN  /\ rows' = R /\ heights' = h
      /\ pendingAnchor' = IF R = rows THEN pendingAnchor ELSE Preserved
      /\ IF owner = {id} \ {None}
           THEN /\ focusedIds' = focusedIds \ gone /\ composingIds' = composingIds \ gone
                /\ UNCHANGED <<owner, pinned>>
           ELSE Publish({id} \ {None}, focusedIds \ gone, composingIds \ gone)
      /\ UNCHANGED <<metrics, scrollAnchor>>

\* Rows are collapsed, deleted or shown again, or another row is selected.
RefreshProjection ==
  /\ Connected /\ changes < MaxChanges
  /\ \E R \in Outlines, id \in RowIds \cup {None} :
       (R # rows \/ owner # {id} \ {None}) /\ SetRows(R, id)
  /\ frame' = TRUE /\ Relayout(rows', heights')
  /\ focus' = IF focus \in ToSet(rows') THEN focus ELSE None
  /\ composing' = (composing /\ focus' # None)
  /\ UNCHANGED <<view, place, gestures>>

\* The outline comes to be shown: what is drawn before the view is connected.
Mount ==
  /\ view = "away" /\ view' = "mounted" /\ gestures < MaxGestures /\ gestures' = gestures + 1
  /\ \E R \in Outlines, id \in RowIds \cup {None} : SetRows(R, id)
  /\ frame' = TRUE /\ top' = 0
  /\ strayed' = (strayed \/ (place # None /\ place.id \notin ToSet(rows')))
  /\ UNCHANGED <<focus, composing, place, changes>>

\* connectViewport: the new elements are not scrolled.
Connect ==
  /\ view = "mounted" /\ view' = "connected"
  /\ Observe(rows, heights, Shows, pendingAnchor)
  /\ IF metrics' = metrics THEN UNCHANGED <<place, strayed>> ELSE Arrive(rows, heights, 0)
  /\ UNCHANGED <<rows, heights, owner, focusedIds, composingIds, pinned, top, frame,
                 focus, composing, changes, gestures>>

\* Another screen is shown: disconnect.
Leave ==
  /\ Connected /\ view' = "away"
  /\ Publish({}, {}, {}) /\ frame' = FALSE /\ focus' = None /\ composing' = FALSE
  /\ UNCHANGED <<rows, heights, metrics, scrollAnchor, pendingAnchor, top, place, strayed,
                 changes, gestures>>

\* measureRow
Measured(id, height) ==
  /\ heights' = [x \in DOMAIN heights \cup {id} |-> IF x = id THEN height ELSE heights[x]]
  /\ pendingAnchor' = Preserved

MeasureRow ==
  /\ Connected /\ changes < MaxChanges
  /\ \E i \in entries, height \in Heights :
       HeightOf(heights, rows[i]) # height /\ Measured(rows[i], height)
  /\ frame' = TRUE /\ Relayout(rows, heights')
  /\ UNCHANGED <<view, rows, metrics, scrollAnchor, owner, focusedIds, composingIds, pinned,
                 focus, composing, place, gestures>>

\* observeWidth: the heights of rows that are not drawn are no longer known.
ObserveWidth ==
  /\ Connected /\ changes < MaxChanges /\ top = metrics.top
  /\ heights' = [id \in DOMAIN heights \cap {rows[i] : i \in entries} |-> heights[id]]
  /\ heights' # heights /\ pendingAnchor' = Preserved
  /\ frame' = TRUE /\ Relayout(rows, heights')
  /\ UNCHANGED <<view, rows, metrics, scrollAnchor, owner, focusedIds, composingIds, pinned,
                 focus, composing, place, gestures>>

\* The user scrolls, after the event of an earlier cut.
Scroll ==
  /\ Connected /\ gestures < MaxGestures /\ top = metrics.top
  /\ gestures' = gestures + 1 /\ top' \in 0..MaxTop(rows, heights) \ {top}
  /\ Observe(rows, heights, [top |-> top', height |-> ViewportHeight], pendingAnchor)
  /\ Arrive(rows, heights, top')
  /\ UNCHANGED <<view, rows, heights, owner, focusedIds, composingIds, pinned, frame,
                 focus, composing, changes>>

\* The event after the browser has cut the position off.
ScrollEvent ==
  /\ Connected /\ top # metrics.top
  /\ Observe(rows, heights, Shows, pendingAnchor) /\ Arrive(rows, heights, top)
  /\ UNCHANGED <<view, rows, heights, owner, focusedIds, composingIds, pinned, top, frame,
                 focus, composing, changes, gestures>>

\* takeAnchorAdjustment
anchorAdjustment ==
  IF pendingAnchor = None THEN 0
  ELSE IF rows = <<>> THEN -metrics.top
  ELSE LET i == IF pendingAnchor.id \in ToSet(rows) THEN IndexOf(rows, pendingAnchor.id)
                ELSE Least(pendingAnchor.index, Len(rows))
       IN  Offset(rows, heights, i) + Least(pendingAnchor.offset, HeightOf(heights, rows[i]))
             - metrics.top

\* The animation frame of scheduleAnchorAdjustment.
Frame ==
  /\ frame /\ Connected /\ frame' = FALSE
  /\ IF anchorAdjustment = 0
       THEN pendingAnchor' = None /\ UNCHANGED <<metrics, scrollAnchor, top>>
       ELSE /\ top' = Clamped(rows, heights, top + anchorAdjustment)
            /\ Observe(rows, heights, [top |-> top', height |-> ViewportHeight], None)
  /\ IF metrics' = metrics THEN UNCHANGED <<place, strayed>> ELSE Arrive(rows, heights, top')
  /\ UNCHANGED <<view, rows, heights, owner, focusedIds, composingIds, pinned,
                 focus, composing, changes, gestures>>

-----------------------------------------------------------------------------
(* Focus.                                                                  *)

\* The focus goes from one editor to another, or away.
MoveFocus ==
  /\ Connected /\ gestures < MaxGestures /\ gestures' = gestures + 1 /\ ~composing
  /\ focus' \in ({rows[i] : i \in entries} \cup {None}) \ {focus}
  /\ Publish(owner, (focusedIds \ {focus}) \cup ({focus'} \ {None}), composingIds)
  /\ UNCHANGED <<view, rows, heights, metrics, scrollAnchor, pendingAnchor, top, frame,
                 composing, place, strayed, changes>>

Compose ==
  /\ focus # None /\ ~composing /\ composing' = TRUE
  /\ gestures < MaxGestures /\ gestures' = gestures + 1
  /\ Publish(owner, focusedIds, composingIds \cup {focus})
  /\ UNCHANGED <<view, rows, heights, metrics, scrollAnchor, pendingAnchor, top, frame,
                 focus, place, strayed, changes>>

\* trackCompositionEnd, of an editor that keeps the focus or is losing it.
EndComposition == \E keeps \in BOOLEAN :
  /\ composing /\ composing' = FALSE /\ focus' = IF keeps THEN focus ELSE None
  /\ Publish(owner, IF keeps THEN focusedIds ELSE focusedIds \ {focus}, composingIds \ {focus})
  /\ UNCHANGED <<view, rows, heights, metrics, scrollAnchor, pendingAnchor, top, frame,
                 place, strayed, changes, gestures>>

\* scrollTopFor: as little as brings the row into view.
scrollTopFor(i) ==
  LET begins == Offset(rows, heights, i)
      ends == Offset(rows, heights, i + 1)
      target == IF begins < metrics.top THEN begins
                ELSE IF ends > metrics.top + metrics.height THEN ends - metrics.height
                ELSE metrics.top
  IN  Clamped(rows, heights, target)

\* ensureMounted, and the focus when the row is there.
EnsureMounted ==
  /\ Connected /\ gestures < MaxGestures /\ gestures' = gestures + 1 /\ ~composing
  /\ \E i \in DOMAIN rows :
       LET m == [top |-> Clamped(rows, heights, scrollTopFor(i)), height |-> ViewportHeight]
           mounted == i \in Drawn(rows, heights, m, pinned)
       IN  /\ focus # rows[i]
           /\ IF scrollTopFor(i) # metrics.top
                THEN /\ top' = m.top /\ Observe(rows, heights, m, pendingAnchor)
                     /\ Arrive(rows, heights, m.top)
                ELSE UNCHANGED <<top, metrics, scrollAnchor, pendingAnchor, place, strayed>>
           /\ focus' = IF mounted THEN rows[i] ELSE focus
           /\ IF mounted
                THEN Publish(owner, (focusedIds \ {focus}) \cup {rows[i]}, composingIds)
                ELSE UNCHANGED <<owner, focusedIds, composingIds, pinned>>
  /\ UNCHANGED <<view, rows, heights, frame, composing, changes>>

Next ==
  \/ Mount \/ Connect \/ Leave \/ RefreshProjection \/ MeasureRow \/ ObserveWidth
  \/ Scroll \/ ScrollEvent \/ Frame
  \/ MoveFocus \/ Compose \/ EndComposition \/ EnsureMounted

Spec == Init /\ [][Next]_vars

-----------------------------------------------------------------------------
IsDrawn(id) == \E i \in entries : rows[i] = id

\* What the user sees or works in is drawn: the rows in view, the one selected or
\* dragged, and the one with the focus, so that scrolling never takes the editor
\* away from under the user's typing or an open composition.
RowsInUseAreDrawn ==
  /\ \A i \in DOMAIN rows :
       Offset(rows, heights, i) < metrics.top + metrics.height
         /\ Offset(rows, heights, i + 1) > metrics.top => i \in entries
  /\ \A id \in owner \cap ToSet(rows) : IsDrawn(id)
  /\ focus # None => IsDrawn(focus)

\* The page: gaps and drawn rows one below the other.
Bottoms ==
  Sums([i \in DOMAIN rows |->
          IF i \in entries THEN gapBefore(i) + HeightOf(heights, rows[i]) ELSE 0])

\* Every drawn row is where the layout has it, and what follows the last one makes
\* the content as high as it is.
DrawnInPlace ==
  /\ \A i \in entries : Bottoms[i - 1] + gapBefore(i) = Offset(rows, heights, i)
  /\ Bottoms[Len(rows)] + trailingGap = TotalHeight(rows, heights)

\* After the correction the place that was being read is where it was, whatever
\* was measured, shown or hidden around it, in however many steps.  Nothing is said
\* once the row that was read is gone or the browser has cut the position off, until
\* the user sees another place: the correction is then dropped, or added to the cut.
PlaceIsKept ==
  frame /\ ~frame' /\ view' = view /\ ~strayed /\ place # None =>
    top' = Clamped(rows, heights,
             Offset(rows, heights, IndexOf(rows, place.id))
               + Least(place.offset, HeightOf(heights, rows[IndexOf(rows, place.id)])))

PlaceStays == [][PlaceIsKept]_vars
=============================================================================
