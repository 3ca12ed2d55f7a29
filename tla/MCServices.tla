----------------------------- MODULE MCServices -----------------------------
(***************************************************************************)
(* The services that work in several steps, each followed on its own on a  *)
(* small instance: the calls of OccurrenceOperations, of BranchService and *)
(* of TagService, the rule for recovery snapshots, the window's calls that *)
(* discard empty items, and the walks over the outline and the family tree.*)
(* scene is chosen once; what belongs to the other services stands still.  *)
(* The first three keep their calls in the same variables, and the walks   *)
(* of the outline and of the lineage share their pc.                       *)
(***************************************************************************)
EXTENDS Tags, SnapshotSpans, Integers, TLC

CONSTANTS
  InitialOutlines, MaxId, ORDER_STEP, MaxOutlineCalls,
  Branches, main, Texts, MaxRevs, MaxBranchCalls,
  Contents, MaxSnapshots,
  MaxItems, MaxUser, MaxOps,
  N, Works, Gone, WorkIds, MaxLinks,
  Entries, MaxNodes, LaneX, LabelWidths, NodeRadius, NODE_GAP,
  MaxPoints, ScreenX, ScreenY, CellWidth, CellHeight

\* The branch "main" is one of the branches, and None is the number of no item.
ASSUME NamesAssumption == main \in Branches /\ None \notin Nat

VARIABLES
  scene, meant,
  occ, blank, trash, batch, raced,
  branch, draft, revs, detached, excused,
  clock, copy, snapshots, taken,
  items, snapshot, pendingIds, persisted, unwritten, unread, ops, focus, current, created,
  user, tracked, written, nested, held, handled,
  pc, parent, work, scan, stack, counts, path, visited, recursive, knots,
  children, frames, index, lowLink, waiting, cyclic, indegree, ready, generations,
  stage, above, keys, links, order, unvisited, minTree, nodes, points

Placing == INSTANCE OccurrenceEditing WITH MaxCalls <- MaxOutlineCalls
Branching == INSTANCE BranchService WITH MaxCalls <- MaxBranchCalls
Snapshots == INSTANCE SnapshotPolicy
EmptyItems == INSTANCE PendingItems
Structure == INSTANCE OutlineStructure
Generations == INSTANCE Lineage
Picture == INSTANCE TreePicture

placements == <<occ, blank, trash, batch, raced>>
branches == <<branch, draft, revs, detached, excused>>
names == <<aliases, used, misled>>
copies == <<clock, copy, snapshots, taken>>
emptyItems ==
  <<items, snapshot, pendingIds, persisted, unwritten, unread, ops, focus, current,
    created, user, tracked, written, nested, held, handled>>
outline == <<parent, work, scan, stack, counts, path, visited, recursive, knots>>
lineage == <<children, frames, index, lowLink, waiting, cyclic, indegree, ready, generations>>
picture == <<stage, above, keys, links, order, unvisited, minTree, nodes, points>>
mcvars ==
  <<scene, placements, branches, names, copies, emptyItems, pc, outline, lineage, picture,
    call, calls, meant>>

At(w, p, k, h) ==
  [work |-> w, parent |-> p, key |-> k, collapsed |-> FALSE, heading |-> h, pinned |-> FALSE]

\* A parent with two children, and two roots of which one has a child.
MCOutlines ==
  { (1 :> At(1, None, 4, TRUE)) @@ (2 :> At(2, 1, 4, FALSE)) @@ (3 :> At(2, 1, 8, TRUE)),
    (1 :> At(1, None, 4, TRUE)) @@ (2 :> At(2, None, 8, FALSE)) @@ (3 :> At(3, 2, 4, FALSE)) }

\* What the proofs about the placements assume of the constants.
PlaceIds == Placing!Ids \cup {None}

Placement == [work : Nat, parent : PlaceIds, key : Int, collapsed : BOOLEAN,
              heading : BOOLEAN, pinned : BOOLEAN]

ASSUME PlacesAssumption ==
  /\ MaxId \in Nat /\ ORDER_STEP \in Nat \ {0} /\ None \notin Callers
  /\ \A o \in InitialOutlines : DOMAIN o \subseteq Placing!Ids /\ o \in [DOMAIN o -> Placement]

Symmetry == Permutations(Callers) \cup Permutations(Works)

PlacementsRest == occ = <<>> /\ blank = {} /\ trash = {} /\ batch = None /\ raced = {}

BranchesRest ==
  branch = <<>> /\ draft = <<>> /\ revs = <<>> /\ detached = <<>> /\ excused = {}

TagsRest == aliases = {} /\ used = {} /\ misled = FALSE

SnapshotsRest == clock = 0 /\ copy = None /\ snapshots = {} /\ taken = {}

EmptyItemsRest ==
  /\ items = <<>> /\ snapshot = <<>> /\ ops = {}
  /\ pendingIds = {} /\ persisted = {} /\ unwritten = {} /\ unread = {}
  /\ focus = None /\ current = FALSE /\ created = 0 /\ user = 0
  /\ tracked = {} /\ written = {} /\ nested = {} /\ held = {} /\ handled = {}

CallsRest == call = None /\ calls = 0 /\ meant = None

OutlineRests ==
  /\ parent = <<>> /\ work = <<>> /\ scan = 0 /\ stack = <<>> /\ counts = <<>>
  /\ path = <<>> /\ visited = {} /\ recursive = {} /\ knots = {}

LineageRests ==
  /\ children = <<>> /\ frames = <<>> /\ index = <<>> /\ lowLink = <<>> /\ waiting = <<>>
  /\ cyclic = {} /\ indegree = <<>> /\ ready = {} /\ generations = <<>>

PictureRests ==
  /\ stage = None /\ above = <<>> /\ keys = <<>> /\ links = {} /\ order = <<>>
  /\ unvisited = <<>> /\ minTree = <<>> /\ nodes = <<>> /\ points = <<>>

WalksRest == pc = "rest" /\ OutlineRests /\ LineageRests /\ PictureRests

ServicesRest ==
  PlacementsRest /\ BranchesRest /\ TagsRest /\ SnapshotsRest /\ EmptyItemsRest /\ CallsRest

MCInit ==
  \/ /\ scene = "placements" /\ Placing!Init
     /\ BranchesRest /\ TagsRest /\ SnapshotsRest /\ EmptyItemsRest /\ WalksRest
  \/ /\ scene = "branches" /\ Branching!Init
     /\ PlacementsRest /\ TagsRest /\ SnapshotsRest /\ EmptyItemsRest /\ WalksRest
  \/ /\ scene = "tags" /\ Init /\ meant = None
     /\ PlacementsRest /\ BranchesRest /\ SnapshotsRest /\ EmptyItemsRest /\ WalksRest
  \/ /\ scene = "snapshots" /\ Snapshots!Init /\ CallsRest
     /\ PlacementsRest /\ BranchesRest /\ TagsRest /\ EmptyItemsRest /\ WalksRest
  \/ /\ scene = "empty items" /\ EmptyItems!Init /\ CallsRest
     /\ PlacementsRest /\ BranchesRest /\ TagsRest /\ SnapshotsRest /\ WalksRest
  \/ /\ scene = "outline" /\ Structure!Init /\ ServicesRest /\ LineageRests /\ PictureRests
  \/ /\ scene = "lineage" /\ Generations!Init /\ ServicesRest /\ OutlineRests /\ PictureRests
  \/ /\ scene = "picture" /\ Picture!Init /\ ServicesRest /\ pc = "rest"
     /\ OutlineRests /\ LineageRests

walks == <<pc, outline, lineage, picture>>
services == <<placements, branches, names, copies, emptyItems, call, calls, meant>>

Places ==
  /\ scene = "placements" /\ Placing!Next
  /\ UNCHANGED <<scene, branches, names, copies, emptyItems, walks>>

BranchesChange ==
  /\ scene = "branches" /\ Branching!Next
  /\ UNCHANGED <<scene, placements, names, copies, emptyItems, walks>>

TagsChange ==
  /\ scene = "tags" /\ Next
  /\ UNCHANGED <<scene, meant, placements, branches, copies, emptyItems, walks>>

SnapshotsChange ==
  /\ scene = "snapshots" /\ Snapshots!Next
  /\ UNCHANGED <<scene, call, calls, meant, placements, branches, names, emptyItems, walks>>

EmptyItemsChange ==
  /\ scene = "empty items" /\ EmptyItems!Next
  /\ UNCHANGED <<scene, call, calls, meant, placements, branches, names, copies, walks>>

OutlineIsWalked ==
  scene = "outline" /\ Structure!Next /\ UNCHANGED <<scene, services, lineage, picture>>

LineageIsWalked ==
  scene = "lineage" /\ Generations!Next /\ UNCHANGED <<scene, services, outline, picture>>

PictureIsMade ==
  scene = "picture" /\ Picture!Next /\ UNCHANGED <<scene, services, pc, outline, lineage>>

MCNext ==
  \/ Places \/ BranchesChange \/ TagsChange \/ SnapshotsChange \/ EmptyItemsChange
  \/ OutlineIsWalked \/ LineageIsWalked \/ PictureIsMade

\* Tags are not followed past the point where nothing is promised any more.
NotMisled == ~misled

MCSpec == MCInit /\ [][MCNext]_mcvars

-----------------------------------------------------------------------------
\* See OccurrenceEditing: a placement is where, and as, it was last asked to be,
\* and among its siblings where it was put.
EditsAreKept == scene = "placements" => Placing!PlacementsAreAsAsked
OrderIsAsAsked == [][scene = "placements" => Placing!OrderedAsAsked]_mcvars

\* See BranchService: a call on a branch happens, or does not, as a whole.
BranchesAreAsAsked == scene = "branches" => Branching!BranchesAreAsAsked

\* See SnapshotPolicy: what is gone has a later snapshot of its period in its place.
NothingIsLostUnrepresented == scene = "snapshots" => Snapshots!NothingIsLostUnrepresented

\* See PendingItems: empty items are discarded, and nothing else with them.
EmptyItemsAreDiscarded ==
  scene = "empty items" =>
    /\ EmptyItems!TypedItemsStay
    /\ EmptyItems!UntouchedAreRemembered
    /\ EmptyItems!NothingIsLeftBehind

\* See OutlineStructure, Lineage and TreePicture: the knots that are found, the marks
\* of recursive placements, the generations of the others, the order of their lanes,
\* the lanes, and what is drawn as one.
StructureIsAnalysed ==
  /\ scene = "outline" => Structure!KnotsAreTheCycles /\ Structure!MarksAreRecursive
  /\ scene = "lineage" => Generations!LineageIsRight
  /\ scene = "picture" =>
       Picture!OrderKeepsTogether /\ Picture!LanesAreFree /\ Picture!ClustersAreCollisions
=============================================================================
