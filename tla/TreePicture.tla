----------------------------- MODULE TreePicture -----------------------------
(***************************************************************************)
(* The picture of the family tree: the order in which its items take their *)
(* lanes (tree_lane_order.ts), the lanes (assignLanes of tree_layout.ts),  *)
(* and the items that are drawn as one because they would collide on the   *)
(* screen (tree_spatial_aggregation.ts).  Each of the three is followed on *)
(* an input of its own.  Positions and sizes are whole numbers of pixels   *)
(* on the screen, at the zoom for which the lanes were made.               *)
(***************************************************************************)
EXTENDS Integers, Sequences, SequencesExt, FiniteSets, FiniteSetsExt

CONSTANTS
  None,
  Entries,       \* the items whose order is computed, a set of numbers
  MaxNodes,      \* a bound on the nodes that get a lane
  LaneX, LabelWidths, NodeRadius, NODE_GAP,
  MaxPoints,     \* a bound on the nodes on the screen
  ScreenX, ScreenY, CellWidth, CellHeight

VARIABLES
  stage,         \* which of the three
  above,         \* the parents of the items
  keys,          \* their order keys
  links,
  order,         \* the items that are numbered, in that order
  unvisited,     \* the stack of visitLaneFrom
  minTree,       \* the ends of the lanes, and the minima above them
  nodes,         \* the nodes that have a lane
  points         \* the positions of the nodes on the screen

ordering == <<above, keys, links, order, unvisited>>
laning == <<minTree, nodes>>
vars == <<stage, ordering, laning, points>>

-----------------------------------------------------------------------------
(* The order of the lanes.                                                 *)

\* buildAdjacency: the links join the items that stand for their works.
neighbours(x) ==
  {y \in Entries \ {x} : above[x] = y \/ above[y] = x \/ {x, y} \in links}

\* compareByOrderKeyThenId
Precedes(x, y) == keys[x] < keys[y] \/ (keys[x] = keys[y] /\ x < y)

\* orderedNeighbors: those of the outline first.
orderedNeighbours(x) ==
  LET outline == {y \in neighbours(x) : above[x] = y \/ above[y] = x}
  IN  SetToSortSeq(outline, Precedes) \o SetToSortSeq(neighbours(x) \ outline, Precedes)

numbered == ToSet(order)

\* Where the next component begins.
First == CHOOSE x \in Entries \ numbered : \A y \in Entries \ numbered : x = y \/ Precedes(x, y)

BeginComponent ==
  /\ stage = "order" /\ unvisited = <<>> /\ numbered # Entries
  /\ unvisited' = <<First>>
  /\ UNCHANGED <<stage, above, keys, links, order, laning, points>>

\* Faulty: the stack is emptied from the wrong end.
fromBehind(x, rest) ==
  rest \o Reverse(SelectSeq(orderedNeighbours(x), LAMBDA y : y \notin numbered \cup {x}))

\* The neighbours of x on top of the rest, the first of them above the others.
pushed(x, rest) ==
  SelectSeq(orderedNeighbours(x), LAMBDA y : y \notin numbered \cup {x}) \o rest

\* One turn of visitLaneFrom.
VisitLane ==
  LET x == Head(unvisited) IN
  /\ unvisited # <<>>
  /\ IF x \in numbered
       THEN unvisited' = Tail(unvisited) /\ UNCHANGED order
       ELSE unvisited' = pushed(x, Tail(unvisited)) /\ order' = Append(order, x)
  /\ UNCHANGED <<stage, above, keys, links, laning, points>>

-----------------------------------------------------------------------------
(* The lanes.                                                              *)

\* treeCap
Capacity == Min({c \in {1, 2, 4, 8, 16} : c >= Max({MaxNodes, 2})})

Nowhere == -1000

\* Down from t to the leftmost lane that is free at the threshold.
Descend(t, threshold) ==
  LET down[i \in 1..(2 * Capacity - 1)] ==
        IF i >= Capacity THEN i
        ELSE IF minTree[2 * i] <= threshold THEN down[2 * i] ELSE down[2 * i + 1]
  IN  down[t]

\* Faulty: the minimum of a node is not renewed above its parent.
RaisedOnce(leaf, end) ==
  [minTree EXCEPT ![leaf] = end,
                  ![leaf \div 2] = Min({end, minTree[IF leaf % 2 = 0 THEN leaf + 1 ELSE leaf - 1]})]

\* The lane at the leaf now ends at end, and so do the minima above it.
Raised(leaf, end) ==
  LET new[i \in 1..(2 * Capacity - 1)] ==
        IF i = leaf THEN end
        ELSE IF i >= Capacity THEN minTree[i] ELSE Min({new[2 * i], new[2 * i + 1]})
  IN  new

\* assignLanes, one node: they come from left to right.
AssignLane == \E x \in LaneX, width \in LabelWidths :
  LET begins == x - NodeRadius
      ends == x + NodeRadius + width
      leaf == Descend(1, begins - NODE_GAP)
  IN  /\ stage = "lanes" /\ Len(nodes) < MaxNodes
      /\ nodes # <<>> => Last(nodes).x <= x
      /\ minTree' = Raised(leaf, ends)
      /\ nodes' = Append(nodes, [x |-> x, begins |-> begins, ends |-> ends,
                                 lane |-> leaf - Capacity])
      /\ UNCHANGED <<stage, ordering, points>>

-----------------------------------------------------------------------------
(* The items that are drawn as one.                                        *)

\* A node comes on the screen; they are numbered from left to right.
AddPoint == \E x \in ScreenX, y \in ScreenY :
  /\ stage = "screen" /\ Len(points) < MaxPoints
  /\ points # <<>> => \/ Last(points).x < x
                      \/ Last(points).x = x /\ Last(points).y < y
  /\ points' = Append(points, [x |-> x, y |-> y])
  /\ UNCHANGED <<stage, ordering, laning>>

Shown == DOMAIN points

\* positionsCollide
Collide(i, j) ==
  /\ points[i].x - points[j].x \in (1 - CellWidth)..(CellWidth - 1)
  /\ points[i].y - points[j].y \in (1 - CellHeight)..(CellHeight - 1)

\* addPointToBucket: cells are counted from the upper left corner of the picture.
cell(i) ==
  <<(points[i].x - points[1].x) \div CellWidth,
    (points[i].y - Min({points[j].y : j \in Shown})) \div CellHeight>>

buckets ==
  LET cells == [i \in Shown |-> cell(i)] IN {{j \in Shown : cells[j] = cells[i]} : i \in Shown}

\* The first of S with the greatest, or the least, value; which of several with the
\* same value is taken decides no collision.
Most(S, value) ==
  CHOOSE i \in S : \A j \in S : value[j] < value[i] \/ (value[j] = value[i] /\ i <= j)
Fewest(S, value) ==
  CHOOSE i \in S : \A j \in S : value[j] > value[i] \/ (value[j] = value[i] /\ i <= j)
X == [i \in Shown |-> points[i].x]
Y == [i \in Shown |-> points[i].y]

\* Faulty: only the nearest node of the left cell is tried.
nearestOnly(L, R, offsetY) ==
  LET i == Most(L, X)
      hits == {j \in R : Collide(i, j)}
  IN  IF hits = {} THEN {} ELSE {<<i, Most(hits, X)>>}

\* findDiagonalCollisionBridge: from right to left through R, with the extreme of those
\* nodes of L that are near enough.
diagonalBridge(L, R, offsetY) ==
  LET near(j) == {i \in L : X[j] - X[i] < CellWidth}
      extreme(j) == IF offsetY > 0 THEN Most(near(j), Y) ELSE Fewest(near(j), Y)
      hits == {j \in R : near(j) # {} /\ Collide(extreme(j), j)}
  IN  IF hits = {} THEN {} ELSE {<<extreme(Most(hits, X)), Most(hits, X)>>}

\* findCollisionBridge: at most one pair joins two buckets.
bridge(L, R, offset) ==
  LET pair == IF offset[2] = 0 THEN <<Most(L, X), Fewest(R, X)>> ELSE <<Most(L, Y), Fewest(R, Y)>>
  IN  IF offset[1] = 1 /\ offset[2] # 0 THEN diagonalBridge(L, R, offset[2])
      ELSE IF Collide(pair[1], pair[2]) THEN {pair} ELSE {}

\* forEachNeighborBucketPair
bridges ==
  LET at(B) == cell(CHOOSE i \in B : TRUE)
      offset(B, C) == <<at(C)[1] - at(B)[1], at(C)[2] - at(B)[2]>>
  IN  UNION {bridge(p[1], p[2], offset(p[1], p[2])) :
               p \in {q \in buckets \X buckets :
                        offset(q[1], q[2]) \in {<<1, 0>>, <<0, 1>>, <<1, 1>>, <<1, -1>>}}}

\* connectBucketCollisions: the nodes of a bucket are joined to its first.
adjacent ==
  bridges \cup UNION {{<<Most(B, X), i>> : i \in B \ {Most(B, X)}} : B \in buckets}

\* What is reached from i along the pairs of E, in either direction.
Reached(i, E) ==
  LET after[n \in 0..Len(points)] ==
        IF n = 0 THEN {i}
        ELSE LET S == after[n - 1]
             IN  S \cup {p[1] : p \in {q \in E : q[2] \in S}} \cup {p[2] : p \in {q \in E : q[1] \in S}}
  IN  after[Len(points)]

\* buildCollisionComponents: what becomes a node or a cluster of the picture.
components == LET E == adjacent IN {Reached(i, E) : i \in Shown}

\* The nodes that lodForScreenCollisions counts.
colliding ==
  UNION {B \in buckets : Cardinality(B) > 1} \cup UNION {{p[1], p[2]} : p \in bridges}

lod ==
  IF Shown # {} /\ 2 * Cardinality(colliding) >= Cardinality(Shown) THEN "overview"
  ELSE IF colliding # {} THEN "context" ELSE "detail"

-----------------------------------------------------------------------------
Init ==
  /\ order = <<>> /\ unvisited = <<>> /\ nodes = <<>> /\ points = <<>>
  /\ minTree = [i \in 1..(2 * Capacity - 1) |-> Nowhere]
  /\ \/ /\ stage = "order"
        /\ above \in [Entries -> Entries \cup {None}]
        /\ keys \in {[x \in Entries |-> x], [x \in Entries |-> -x], [x \in Entries |-> 0]}
        /\ links \in SUBSET kSubset(2, Entries)
     \/ stage \in {"lanes", "screen"} /\ above = <<>> /\ keys = <<>> /\ links = {}

Next == BeginComponent \/ VisitLane \/ AssignLane \/ AddPoint

Spec == Init /\ [][Next]_vars

-----------------------------------------------------------------------------
\* Items that belong together get lanes next to each other: each item is numbered
\* once; after its component has begun, an item follows the latest of those before
\* it that have unnumbered neighbours, and is one of them, of the outline if
\* there is one.
OrderKeepsTogether ==
  stage = "order" =>
    /\ \A i, j \in DOMAIN order : order[i] = order[j] => i = j
    /\ \A i \in DOMAIN order :
         LET before == {order[j] : j \in 1..(i - 1)}
             open == {j \in 1..(i - 1) : neighbours(order[j]) \ before # {}}
             from == order[Max(open)]
         IN  IF open = {}
               THEN \A x \in Entries \ before : x = order[i] \/ Precedes(order[i], x)
               ELSE order[i] = SelectSeq(orderedNeighbours(from), LAMBDA y : y \notin before)[1]

\* Each node has the first lane in which nothing reaches into it and its label,
\* whatever the labels before it are.
LanesAreFree ==
  \A i \in DOMAIN nodes :
    nodes[i].lane =
      Min({l \in 0..Len(nodes) :
             \A j \in 1..(i - 1) :
               nodes[j].lane = l => nodes[j].ends + NODE_GAP <= nodes[i].begins})

\* The cells find what comparing all nodes would find: two nodes are drawn as one
\* exactly if a chain of collisions joins them, the same nodes count for the level of
\* detail, and nothing is drawn as one exactly if no two nodes collide.
ClustersAreCollisions ==
  LET pairs == {p \in Shown \X Shown : p[1] # p[2] /\ Collide(p[1], p[2])}
  IN  /\ components = {Reached(i, pairs) : i \in Shown}
      /\ colliding = {p[1] : p \in pairs} /\ (lod = "detail" <=> pairs = {})
=============================================================================
