------------------------------- MODULE MCViews -------------------------------
(***************************************************************************)
(* The parts of the window that do not share state, each followed on its   *)
(* own on a small instance: a row of the outline, the panels, the selection*)
(* with its form, a manuscript, files that are exported and imported, and  *)
(* the viewport in which the outline is drawn.                             *)
(* scene is chosen once; what belongs to the other scenes stands still.  A *)
(* variable that several scenes have is declared once.                     *)
(***************************************************************************)
EXTENDS OutlineWindow, Integers, FiniteSets, TLC

CONSTANTS Panels, MaxRequests, MaxChanges, MaxNavigations, MaxSaves, Works, MaxTexts, MaxCalls,
          MaxOperations, RowIds, Heights, DEFAULT_ROW_HEIGHT, MIN_ROWS_THRESHOLD, OVERSCAN,
          ViewportHeight, MaxRelayouts, MaxGestures

\* None is like nothing that it stands in for.
ASSUME NoneAssumption ==
  /\ None \notin Nat /\ None \notin BOOLEAN /\ None \notin Works
  /\ None \notin {"x1", "x2", "y", "x", "p1", "p2"}

\* At most so many calls of save.
ASSUME CallsAssumption == MaxCalls \in Nat

VARIABLES
  scene,
  visible, form, version,
  panel, selected, due, timer, newest, requests, loading, failed, change, excused,
  items, sel, panes, active, request, open, navigations, saves,
  save, promise, reading, asking, abandoned,
  operations, generation, notice, requested, wiped,
  rows, heights, metrics, scrollAnchor, pendingAnchor, owner, focusedIds, composingIds, pinned,
  view, top, frame, focus, composing, place, strayed, changes, gestures

Panel == INSTANCE PanelReads
Selecting == INSTANCE Selection
Manuscript == INSTANCE LongForm WITH MaxTyped <- MaxTexts
Files == INSTANCE FileExchange WITH MaxTyped <- MaxTexts, MaxRequests <- MaxOperations
Viewport == INSTANCE OutlineViewport WITH MaxChanges <- MaxRelayouts

\* What panels there are, what they may be about, and what they show.
PanelNames == Panel!Followers \cup Panel!Fields \cup {"bookmarks", "licenses"}
Selections == {None, "a1", "a2", "b1"}
PanelKeys ==
  {None, "a", "b", "a1", "a2", "b1", "bookmarks", "licenses"} \cup Nat
  \cup ({"tree"} \X {None, "a", "b"}) \cup (Selections \X Nat)
ShownAnswers == [key : PanelKeys, version : Nat]

ASSUME PanelsAssumption == Panels \subseteq PanelNames
ASSUME ShownAssumption ==
  None \notin {"a", "b", "a1", "a2", "b1"} /\ None \notin ShownAnswers

\* A place in the outline: a row, where that is, and how far into it.
PlaceRecord == [id : RowIds, index : Nat \ {0}, offset : Int]

\* The rows are numbered, heights are numbers, and the viewport has one that is not 0.
ASSUME RowsAssumption ==
  /\ RowIds \subseteq Nat /\ IsFiniteSet(RowIds) /\ Heights \subseteq Nat
  /\ {DEFAULT_ROW_HEIGHT, MIN_ROWS_THRESHOLD, OVERSCAN} \subseteq Nat
  /\ ViewportHeight \in Nat \ {0} /\ None \notin RowIds /\ None \notin PlaceRecord

\* What one scene alone has.
onlyRow == <<toggle, left>>
onlyPanel == <<panel, selected, due, timer, newest, requests, loading, failed, change, excused>>
onlySelection == <<items, sel, panes, active, request, open, navigations, saves>>
onlyManuscript == <<save, promise, reading, asking, abandoned>>
onlyFiles == <<operations, generation, notice, requested, wiped>>
onlyViewport ==
  <<rows, heights, metrics, scrollAnchor, pendingAnchor, owner, focusedIds, composingIds, pinned,
    view, top, frame, focus, composing, place, strayed, changes, gestures>>

mcvars ==
  <<scene, stored, shown, typed, saved, read, saving, nav, visible, form, version,
    onlyRow, onlyPanel, onlySelection, onlyManuscript, onlyFiles,
    onlyViewport>>

RowRests == toggle = NoCall /\ left = {}

NothingRead == saved = 0 /\ read = NoCall

PanelRests ==
  /\ panel = None /\ selected = None /\ due = FALSE /\ timer = None /\ newest = 0
  /\ requests = {} /\ loading = FALSE /\ failed = FALSE /\ change = None /\ excused = FALSE

SelectionRests ==
  /\ items = {} /\ sel = None /\ panes = <<>> /\ active = None
  /\ request = None /\ open = FALSE /\ navigations = 0 /\ saves = 0

ManuscriptRests ==
  save = <<>> /\ promise = 0 /\ reading = 0 /\ asking = FALSE /\ abandoned = FALSE

FilesRest ==
  operations = {} /\ generation = <<>> /\ notice = <<>> /\ requested = 0 /\ wiped = 0

ViewportRests ==
  /\ rows = <<>> /\ heights = <<>> /\ metrics = None /\ scrollAnchor = None
  /\ pendingAnchor = None /\ owner = {} /\ focusedIds = {} /\ composingIds = {} /\ pinned = {}
  /\ view = "away" /\ top = 0 /\ frame = FALSE /\ focus = None /\ composing = FALSE
  /\ place = None /\ strayed = FALSE /\ changes = 0 /\ gestures = 0

RowBegins ==
  /\ scene = "row" /\ Init /\ visible = FALSE /\ form = None /\ version = 0
  /\ PanelRests /\ SelectionRests /\ ManuscriptRests /\ FilesRest /\ ViewportRests

PanelBegins ==
  /\ scene = "panel" /\ Panel!Init /\ stored = None /\ saving = None /\ nav = None /\ form = None
  /\ NothingRead /\ RowRests /\ SelectionRests /\ ManuscriptRests /\ FilesRest /\ ViewportRests

SelectionBegins ==
  /\ scene = "selection" /\ Selecting!Init /\ shown = None /\ typed = 0 /\ version = 0
  /\ NothingRead /\ RowRests /\ PanelRests /\ ManuscriptRests /\ FilesRest /\ ViewportRests

ManuscriptBegins ==
  /\ scene = "manuscript" /\ Manuscript!Init /\ shown = None /\ saving = None /\ visible = FALSE
  /\ NothingRead /\ RowRests /\ PanelRests /\ SelectionRests /\ FilesRest /\ ViewportRests

FilesBegin ==
  /\ scene = "files" /\ Files!Init
  /\ saving = None /\ nav = None /\ visible = FALSE /\ form = None /\ version = 0
  /\ RowRests /\ PanelRests /\ SelectionRests /\ ManuscriptRests /\ ViewportRests

ViewportBegins ==
  /\ scene = "viewport" /\ Viewport!Init /\ stored = None /\ shown = None /\ typed = 0
  /\ saving = None /\ nav = None /\ visible = FALSE /\ form = None /\ version = 0
  /\ NothingRead /\ RowRests /\ PanelRests /\ SelectionRests /\ ManuscriptRests /\ FilesRest

MCInit ==
  \/ RowBegins \/ PanelBegins \/ SelectionBegins \/ ManuscriptBegins \/ FilesBegin
  \/ ViewportBegins

Row ==
  /\ scene = "row" /\ Next
  /\ UNCHANGED <<scene, visible, form, version,
                 onlyPanel, onlySelection, onlyManuscript, onlyFiles, onlyViewport>>

Panelled ==
  /\ scene = "panel" /\ Panel!Next
  /\ UNCHANGED <<scene, stored, saved, read, saving, nav, form,
                 onlyRow, onlySelection, onlyManuscript, onlyFiles, onlyViewport>>

Selects ==
  /\ scene = "selection" /\ Selecting!Next
  /\ UNCHANGED <<scene, shown, typed, saved, read, version,
                 onlyRow, onlyPanel, onlyManuscript, onlyFiles, onlyViewport>>

Writes ==
  /\ scene = "manuscript" /\ Manuscript!Next
  /\ UNCHANGED <<scene, shown, saved, read, saving, visible,
                 onlyRow, onlyPanel, onlySelection, onlyFiles, onlyViewport>>

Exchanges ==
  /\ scene = "files" /\ Files!Next
  /\ UNCHANGED <<scene, saving, nav, visible, form, version,
                 onlyRow, onlyPanel, onlySelection, onlyManuscript, onlyViewport>>

Scrolls ==
  /\ scene = "viewport" /\ Viewport!Next
  /\ UNCHANGED <<scene, stored, shown, typed, saved, read, saving, nav, visible, form, version,
                 onlyRow, onlyPanel, onlySelection, onlyManuscript, onlyFiles>>

MCNext == Row \/ Panelled \/ Selects \/ Writes \/ Exchanges \/ Scrolls

MCSpec == MCInit /\ [][MCNext]_mcvars

Symmetry == Permutations(Works)

\* A manuscript is not followed past its being closed in the middle of a save: what may
\* happen then is the subject of LongForm_manuscripts.
NotAbandoned == ~abandoned

-----------------------------------------------------------------------------
\* See OutlineWindow: the text and the collapse of a row while it is typed in,
\* collapsed, saved and reloaded, and what a navigation leaves behind.
RowIsUpToDate ==
  scene = "row" => TypedTextStays /\ CollapseShownIsStored /\ NavigationLeavesNothingUnsaved

\* See PanelReads: what a panel shows, and that it never goes back.
PanelsAreUpToDate ==
  [][scene = "panel" => Panel!PanelsShowTheirSubject' /\ Panel!ShownGoesForward]_mcvars

\* See Selection: unsaved input of the form, and where the selection and its form are.
DraftsAreKept == [][scene = "selection" => Selecting!DraftIsKept]_mcvars
SelectionIsConsistent ==
  scene = "selection" => Selecting!SelectionIsBrowsed /\ Selecting!FormIsOfSelection

\* See LongForm: what is typed into a manuscript while it is saved and read.
ManuscriptsAreKept == scene = "manuscript" => Manuscript!TypedIsKept

\* See FileExchange: what the notice of an export or an import says is so.
NoticesAreTrue == scene = "files" => Files!NoticesAreTrue

\* See OutlineViewport: what is in use is drawn, and in its place.
ViewportShowsWhatIsUsed ==
  scene = "viewport" => Viewport!RowsInUseAreDrawn /\ Viewport!DrawnInPlace

\* See OutlineViewport: the place that is read stays where it is.
PlaceStays == [][scene = "viewport" => Viewport!PlaceIsKept]_mcvars
=============================================================================
