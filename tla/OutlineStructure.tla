--------------------------- MODULE OutlineStructure ---------------------------
(***************************************************************************)
(* occurrence_knot_detection: markRecursivePlacements, which marks the     *)
(* placements under a placement of the same work, or detectOutlineKnots,   *)
(* which finds the cycles and orphans of the parent relation, on any       *)
(* outline, also one with cycles or with parents that are gone.  One step  *)
(* is one turn of a loop; the items are 1..N in the order of the list.     *)
(***************************************************************************)
EXTENDS Naturals, Sequences, FiniteSets, FiniteSetsExt, SequencesExt

CONSTANTS
  N,       \* the number of items
  Works,
  None,    \* no parent
  Gone     \* a parent that is not in the list

VARIABLES
  parent, work,  \* the input
  pc,            \* which of the two runs, and where it is
  scan,          \* the item the scan of the list has come to
  stack,         \* of traversePlacements: frames to enter or to leave
  counts,        \* workCounts
  path,          \* of a climb from an item towards its root
  visited,       \* the placements entered; the items whose path is complete
  recursive,     \* recursiveItemIds
  knots          \* the cycleIds found, and the orphans

vars == <<parent, work, pc, scan, stack, counts, path, visited, recursive, knots>>

Items == 1..N

Known(x) == x \in Items

children(p) ==
  SetToSortSeq({x \in Items : IF Known(parent[x]) THEN parent[x] = p ELSE p = None}, <)

Enter(x) == [item |-> x, entered |-> FALSE]

\* Pushed from last to first, so that the first is on top.
Pushed(s, xs) == [i \in 1..Len(xs) |-> Enter(xs[i])] \o s

noCounts == [w \in Works |-> 0]

Init ==
  /\ parent \in [Items -> Items \cup {None, Gone}] /\ scan = 1 /\ counts = noCounts
  /\ \/ pc = "traverse" /\ work \in [Items -> Works] /\ stack = Pushed(<<>>, children(None))
     \/ pc = "inspect" /\ work = <<>> /\ stack = <<>>
  /\ path = <<>> /\ visited = {} /\ recursive = {} /\ knots = {}

input == <<parent, work>>

-----------------------------------------------------------------------------
(* markRecursivePlacements.                                                *)

\* Faulty: a work counts for good once it was entered.
stayOnPath(w) == counts[w]

\* leavePlacement
leftPath(w) == counts[w] - 1

LeavePlacement ==
  /\ pc = "traverse" /\ stack # <<>> /\ Head(stack).entered
  /\ stack' = Tail(stack)
  /\ counts' = [counts EXCEPT ![work[Head(stack).item]] = leftPath(work[Head(stack).item])]
  /\ UNCHANGED <<input, pc, scan, path, visited, recursive, knots>>

EnterPlacement ==
  LET x == Head(stack).item
      w == work[x]
      below == SelectSeq(children(x), LAMBDA y : y \notin visited \cup {x})
  IN  /\ pc = "traverse" /\ stack # <<>> /\ ~Head(stack).entered
      /\ IF x \in visited
           THEN stack' = Tail(stack) /\ UNCHANGED <<counts, visited, recursive>>
           ELSE /\ stack' = Pushed(<<[item |-> x, entered |-> TRUE]>> \o Tail(stack), below)
                /\ counts' = [counts EXCEPT ![w] = @ + 1]
                /\ visited' = visited \cup {x}
                /\ recursive' = IF counts[w] > 0 THEN recursive \cup {x} ELSE recursive
      /\ UNCHANGED <<input, pc, scan, path, knots>>

\* The next item that no traversal has reached.
ScanPlacements ==
  LET left == {x \in Items : x >= scan /\ x \notin visited} IN
  /\ pc = "traverse" /\ stack = <<>>
  /\ path' = <<>> /\ counts' = noCounts
  /\ IF left = {}
       THEN pc' = "marked" /\ UNCHANGED scan
       ELSE pc' = "climb" /\ scan' = Min(left)
  /\ UNCHANGED <<input, stack, visited, recursive, knots>>

\* The item the climb has come to, or one that is not an item.
current == IF path = <<>> THEN scan ELSE parent[Last(path)]

OnPath == ToSet(path)

\* The part of the path from x on.
From(x) == {path[i] : i \in {j \in 1..Len(path) : \E k \in 1..j : path[k] = x}}

\* traverseUnvisitedComponent
Climb ==
  /\ pc = "climb" /\ Known(current) /\ current \notin visited \cup OnPath
  /\ path' = Append(path, current)
  /\ UNCHANGED <<input, pc, scan, stack, counts, visited, recursive, knots>>

\* handlePlacementCycle: the items of the cycle are recursive, and what hangs on
\* the cycle is traversed as being below all of it.
HandleCycle ==
  LET cycle == SubSeq(path, CHOOSE i \in 1..Len(path) : path[i] = current, Len(path))
      attached == SelectSeq(FlattenSeq([i \in 1..Len(cycle) |-> children(cycle[i])]),
                            LAMBDA y : y \notin ToSet(cycle) \cup visited)
  IN  /\ pc = "climb" /\ current \in OnPath
      /\ recursive' = recursive \cup ToSet(cycle) /\ visited' = visited \cup ToSet(cycle)
      /\ counts' = [w \in Works |-> Cardinality({x \in ToSet(cycle) : work[x] = w})]
      /\ stack' = Pushed(<<>>, attached)
      /\ pc' = "traverse"
      /\ UNCHANGED <<input, scan, path, knots>>

-----------------------------------------------------------------------------
(* detectOutlineKnots.                                                     *)

Complete == visited' = visited \cup OnPath /\ path' = <<>>

\* inspectKnotPath, one turn of its loop: an item on the way up.
InspectUp ==
  /\ pc = "inspect" /\ Known(current) /\ current \notin visited \cup OnPath
  /\ path' = Append(path, current)
  /\ UNCHANGED <<input, pc, scan, stack, counts, visited, recursive, knots>>

\* Faulty: the whole path is taken for the cycle.
WholePath(x) == OnPath

\* path.slice(cycleStart)
Cycle(x) == From(x)

\* Its end: a cycle, an orphan, a root, or an item inspected before.
InspectEnds ==
  /\ pc = "inspect" /\ scan <= N
  /\ ~Known(current) \/ current \in visited \cup OnPath
  /\ knots' = knots \cup
       (IF current \in OnPath THEN {Cycle(current)}
        ELSE IF current = Gone THEN {{Last(path)}} ELSE {})
  /\ Complete /\ scan' = scan + 1
  /\ UNCHANGED <<input, pc, stack, counts, recursive>>

Finish ==
  /\ pc = "inspect" /\ scan > N /\ pc' = "inspected"
  /\ UNCHANGED <<input, scan, stack, counts, path, visited, recursive, knots>>

Next ==
  \/ LeavePlacement \/ EnterPlacement \/ ScanPlacements \/ Climb \/ HandleCycle
  \/ InspectUp \/ InspectEnds \/ Finish

Spec == Init /\ [][Next]_vars

-----------------------------------------------------------------------------
\* The smallest nonempty sets that the parents do not leave: the cycles.
Closed == {S \in SUBSET Items : S # {} /\ \A x \in S : parent[x] \in S}
Cycles == {S \in Closed : \A R \in Closed : R \subseteq S => R = S}

\* x and what is above it, as far as the parents are there.
Above(x) ==
  CHOOSE S \in SUBSET Items :
    /\ x \in S /\ \A y \in S : Known(parent[y]) => parent[y] \in S
    /\ \A R \in SUBSET Items :
         x \in R /\ (\A y \in R : Known(parent[y]) => parent[y] \in R) => S \subseteq R

\* The knots are the cycles of the outline and the items whose parent is gone,
\* each once, wherever the scan begins.
KnotsAreTheCycles ==
  LET expected == Cycles \cup {{x} : x \in {y \in Items : parent[y] = Gone}}
  IN knots \subseteq expected /\ (pc = "inspected" => knots = expected)

\* A placement is marked exactly if it is on a cycle or some placement above it is
\* of the same work: the outline that is drawn without unfolding the marked ones
\* is finite and shows every item.
MarksAreRecursive ==
  pc = "marked" =>
    recursive = UNION Cycles \cup {x \in Items : \E y \in Above(x) \ {x} : work[y] = work[x]}
=============================================================================
