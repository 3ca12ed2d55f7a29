-------------------------- MODULE OccurrenceEditing --------------------------
(***************************************************************************)
(* OccurrenceOperations between its awaits.  Every operation reads the     *)
(* outline or one item, computes a full occurrence record and writes it    *)
(* back; other calls run in between.  Deletions, discards and collapses of *)
(* many items run in a batch of the store: no other write comes between    *)
(* theirs, but reads do, and a batch that fails is taken back as a whole.  *)
(*                                                                         *)
(* Ids are numbers in the order of creation, which is the order of the     *)
(* array and settles equal order keys.  Keys are integers: halving a gap   *)
(* rounds, as a double does when its digits are used up.  Trash, branches  *)
(* and revisions are in GraphStore; here a selector is pinned or not.      *)
(***************************************************************************)
EXTENDS Integers, FiniteSets

CONSTANTS
  None,
  Callers,
  InitialOutlines, \* the placements to start from
  MaxId,           \* a bound on the placements
  MaxCalls,        \* a bound on the calls
  ORDER_STEP

VARIABLES
  occ,     \* the placements: id -> record
  blank,   \* the works whose text is blank
  trash,   \* the works trashed because they were blank and unplaced
  call,    \* for each caller its call under way
  batch,   \* the caller inside a batch of the store, or None
  calls,   \* how many calls there have been
  meant,   \* the placements, had every call taken effect at once when it ended
  raced    \* the placements overwritten by a call that had read them before others wrote

vars == <<occ, blank, trash, call, batch, calls, meant, raced>>

Ids == 1..MaxId

Idle == [op |-> "none"]

Put(f, k, v) == [x \in DOMAIN f \cup {k} |-> IF x = k THEN v ELSE f[x]]

Without(f, S) == [x \in DOMAIN f \ S |-> f[x]]

\* What a new placement may be called: behind all that are there now or were at first.
Fresh == {x \in Ids : \A y \in DOMAIN occ \cup UNION {DOMAIN o : o \in InitialOutlines} : y < x}

\* What of a placement the user asks for: all but its key.
Intent(o) == [parent |-> o.parent, collapsed |-> o.collapsed, heading |-> o.heading,
              pinned |-> o.pinned]

-----------------------------------------------------------------------------
(* Order keys.                                                             *)

siblings(items, p) == {x \in DOMAIN items : items[x].parent = p}

Before(items, x, y) ==
  items[x].key < items[y].key \/ (items[x].key = items[y].key /\ x < y)

First(items, S) == CHOOSE x \in S : \A y \in S \ {x} : Before(items, x, y)

Last(items, S) == CHOOSE x \in S : \A y \in S \ {x} : Before(items, y, x)

\* Faulty: behind the sibling after the given one.
orderBehind(items, p, after) ==
  IF siblings(items, p) = {} THEN ORDER_STEP
  ELSE items[Last(items, siblings(items, p))].key + ORDER_STEP

orderAfter(items, p, after) ==
  LET S == siblings(items, p)
      next == {x \in S : after # None /\ Before(items, after, x)}
  IN  IF S = {} THEN ORDER_STEP
      ELSE IF after = None THEN items[First(items, S)].key - ORDER_STEP
      ELSE IF after \notin S \/ next = {} THEN items[Last(items, S)].key + ORDER_STEP
      ELSE (items[after].key + items[First(items, next)].key) \div 2

-----------------------------------------------------------------------------
(* Calls.                                                                  *)

Init ==
  /\ occ \in InitialOutlines
  /\ blank \in SUBSET {occ[x].work : x \in DOMAIN occ}
  /\ trash = {} /\ batch = None /\ calls = 0 /\ raced = {}
  /\ call = [c \in Callers |-> Idle]
  /\ meant = [x \in DOMAIN occ |-> Intent(occ[x])]

Parents == {None} \cup DOMAIN occ

\* The arguments of a call that reads first and writes later.
Requests ==
  [op : {"collapse", "heading", "pin"}, id : DOMAIN occ, value : BOOLEAN]
  \cup [op : {"move"}, id : DOMAIN occ, parent : Parents, after : Parents]
  \cup [op : {"text"}, id : {x \in DOMAIN occ : ~occ[x].pinned}, value : BOOLEAN]
  \cup [op : {"create"}, parent : Parents, after : Parents, value : BOOLEAN]
  \cup [op : {"place"}, of : DOMAIN occ, parent : Parents, after : Parents]

MayBegin(c) == call[c] = Idle /\ calls < MaxCalls

Begin(c, r, at) ==
  /\ calls' = calls + 1
  /\ call' = [call EXCEPT ![c] = [op |-> r.op, arg |-> r, at |-> at, items |-> occ,
                                  stale |-> {}, left |-> {}]]

\* The await of listItems or getItem.
Read(c) ==
  /\ MayBegin(c)
  /\ \E r \in Requests : Begin(c, r, "read")
  /\ UNCHANGED <<occ, blank, trash, batch, meant, raced>>

\* The writes of caller c to the placements X: every other call has read them as
\* they were.
Overtake(c, X, done) ==
  call' = [d \in Callers |->
             IF d = c THEN done
             ELSE IF call[d] = Idle THEN Idle ELSE [call[d] EXCEPT !.stale = @ \cup X]]

MayWrite(c) == batch \in {None, c}

\* Faulty: moving an item forgets its contextual heading.
forgetHeading(o, r) ==
  [o EXCEPT !.heading = IF r.op = "move" THEN FALSE ELSE @,
            !.collapsed = IF r.op = "collapse" THEN r.value ELSE @,
            !.pinned = IF r.op = "pin" THEN r.value ELSE @,
            !.parent = IF r.op = "move" THEN r.parent ELSE @]

\* The record written for an item as it was read.
Changed(o, r) ==
  CASE r.op = "collapse" -> [o EXCEPT !.collapsed = r.value]
    [] r.op = "heading" -> [o EXCEPT !.heading = r.value]
    [] r.op = "pin" -> [o EXCEPT !.pinned = r.value]
    [] OTHER -> [o EXCEPT !.parent = r.parent]

\* setCollapsed, setContextualHeading, setOccurrenceRevision, moveItem: the full
\* record replaces whatever is stored under its id by now, if anything is.
WriteRecord(c) ==
  LET r == call[c].arg
      items == call[c].items
      rec == [Changed(items[r.id], r) EXCEPT
                !.key = IF r.op = "move"
                          THEN orderAfter(Without(items, {r.id}), r.parent, r.after) ELSE @]
      there == r.id \in DOMAIN occ
  IN  /\ call[c].op \in {"collapse", "heading", "pin", "move"} /\ call[c].at = "read"
      /\ MayWrite(c)
      /\ occ' = IF there THEN [occ EXCEPT ![r.id] = rec] ELSE occ
      /\ meant' = IF there
           THEN [meant EXCEPT ![r.id] =
                   IF r.op = "collapse" THEN [@ EXCEPT !.collapsed = r.value]
                   ELSE IF r.op = "heading" THEN [@ EXCEPT !.heading = r.value]
                   ELSE IF r.op = "pin" THEN [@ EXCEPT !.pinned = r.value]
                   ELSE [@ EXCEPT !.parent = r.parent]]
           ELSE meant
      /\ raced' = raced \cup ({r.id} \cap call[c].stale)
      /\ Overtake(c, {r.id}, Idle)
      /\ UNCHANGED <<blank, trash, batch, calls>>

\* updateItemText, when the item was not pinned.
WriteText(c) ==
  LET r == call[c].arg
      w == call[c].items[r.id].work
  IN  /\ call[c].op = "text" /\ MayWrite(c)
      /\ blank' = IF r.value THEN blank \cup {w} ELSE blank \ {w}
      /\ call' = [call EXCEPT ![c] = Idle]
      /\ UNCHANGED <<occ, trash, batch, calls, meant, raced>>

\* createItem and createOccurrence, which copies the selector of its source.
WriteNew(c) ==
  /\ call[c].op \in {"create", "place"} /\ MayWrite(c)
  /\ \E x \in Fresh :
       LET r == call[c].arg
           items == call[c].items
           new == [work |-> IF r.op = "create" THEN x ELSE items[r.of].work,
                   parent |-> r.parent, key |-> orderAfter(items, r.parent, r.after),
                   collapsed |-> FALSE, heading |-> FALSE,
                   pinned |-> r.op = "place" /\ items[r.of].pinned]
       IN  /\ occ' = Put(occ, x, new) /\ meant' = Put(meant, x, Intent(new))
           /\ blank' = IF r.op = "create" /\ r.value THEN blank \cup {x} ELSE blank
           /\ Overtake(c, {x}, Idle)
           /\ UNCHANGED <<trash, batch, calls, raced>>

-----------------------------------------------------------------------------
(* Batches.                                                                *)

Children(items, x) == siblings(items, x)

\* discardEmptyItems keeps what has a text or a child.
Discardable == {x \in DOMAIN occ : occ[x].work \in blank /\ Children(occ, x) = {}}

BatchRequests ==
  [op : {"delete"}, id : DOMAIN occ]
  \cup [op : {"discard"}, ids : (SUBSET DOMAIN occ) \ {{}}]
  \cup [op : {"collapseAll"}, ids : (SUBSET DOMAIN occ) \ {{}}, value : BOOLEAN]

\* The batch is alone and lists the items: what is left to write.
BeginBatch(c) == MayBegin(c) /\ batch = None /\ \E r \in BatchRequests :
  /\ calls' = calls + 1 /\ batch' = c
  /\ call' = [call EXCEPT ![c] =
       [op |-> r.op, arg |-> r, at |-> "batch", items |-> occ, stale |-> {},
        left |-> CASE r.op = "delete" -> Children(occ, r.id)
                   [] r.op = "discard" -> r.ids \cap Discardable
                   [] OTHER -> r.ids]]
  /\ UNCHANGED <<occ, blank, trash, meant, raced>>

\* The siblings a promoted child is put among, and the one it comes after.  (When the
\* deleted item is its own parent, the code's list has the children that have moved twice,
\* with their old keys too; where their new keys are then is not promised by any property.)
workingSiblings(c) ==
  Without(occ, {call[c].arg.id} \ (Children(call[c].items, call[c].arg.id) \ call[c].left))

afterId(c) ==
  LET items == call[c].items
      item == items[call[c].arg.id]
      done == Children(items, call[c].arg.id) \ call[c].left
      earlier == {x \in siblings(items, item.parent) \ {call[c].arg.id} : items[x].key < item.key}
  IN  IF done # {} THEN Last(items, done)
      ELSE IF earlier # {} THEN Last(items, earlier) ELSE None

\* deleteOccurrenceWithPromotion: the next child takes a place among the siblings
\* of its parent.
PromoteChild(c) ==
  LET items == call[c].items
      child == First(items, call[c].left)
      p == items[call[c].arg.id].parent
      rec == [items[child] EXCEPT !.parent = p,
                !.key = orderAfter(workingSiblings(c), p, afterId(c))]
  IN  /\ batch = c /\ call[c].op = "delete" /\ call[c].left # {}
      /\ occ' = [occ EXCEPT ![child] = rec]
      /\ Overtake(c, {child}, [call[c] EXCEPT !.left = @ \ {child}])
      /\ UNCHANGED <<blank, trash, batch, calls, meant, raced>>

\* trashBlankUnplacedWork, after the placements X are gone.
Unplaced(X) ==
  {w \in blank \cap {occ[x].work : x \in X} : \A y \in DOMAIN occ \ X : occ[y].work # w}

Remove(c, X) ==
  /\ occ' = Without(occ, X) /\ trash' = trash \cup Unplaced(X)
  /\ batch' = None /\ Overtake(c, X, Idle)
  /\ UNCHANGED <<blank, calls>>

\* The children of a placement that was overwritten go where it is, not where it was meant
\* to be.
DeleteItem(c) ==
  LET x == call[c].arg.id IN
  /\ batch = c /\ call[c].op = "delete" /\ call[c].left = {}
  /\ Remove(c, {x})
  /\ meant' = [y \in DOMAIN occ \ {x} |->
                 IF meant[y].parent = x THEN [meant[y] EXCEPT !.parent = meant[x].parent]
                 ELSE meant[y]]
  /\ raced' = IF x \in raced THEN raced \cup Children(call[c].items, x) ELSE raced

\* The deletions of a discard, in one step.
DiscardItems(c) ==
  /\ batch = c /\ call[c].op = "discard"
  /\ Remove(c, call[c].left)
  /\ meant' = Without(meant, call[c].arg.ids \cap Discardable)
  /\ raced' = raced

\* setCollapsedBatch: one full record after the other, in the order of the array.
CollapseNext(c) ==
  /\ batch = c /\ call[c].op = "collapseAll"
  /\ \E x \in call[c].left :
       LET rec == [call[c].items[x] EXCEPT !.collapsed = call[c].arg.value]
           last == call[c].left = {x}
       IN  /\ \A y \in call[c].left : x <= y
           /\ occ' = [occ EXCEPT ![x] = rec]
           /\ meant' = [meant EXCEPT ![x].collapsed = call[c].arg.value]
           /\ batch' = IF last THEN None ELSE batch
           /\ Overtake(c, {x}, IF last THEN Idle ELSE [call[c] EXCEPT !.left = @ \ {x}])
           /\ UNCHANGED <<blank, trash, calls, raced>>

\* The store refuses a write of the batch, and takes back the others.
BatchFails(c) ==
  /\ batch = c /\ batch' = None
  /\ occ' = call[c].items
  /\ meant' = IF call[c].op = "collapseAll"
                THEN [x \in DOMAIN meant |->
                        [meant[x] EXCEPT !.collapsed = call[c].items[x].collapsed]]
                ELSE meant
  /\ Overtake(c, {x \in DOMAIN occ : occ[x] # call[c].items[x]}, Idle)
  /\ UNCHANGED <<blank, trash, calls, raced>>

Next == \E c \in Callers :
  \/ Read(c) \/ WriteRecord(c) \/ WriteText(c) \/ WriteNew(c)
  \/ BeginBatch(c) \/ PromoteChild(c) \/ DeleteItem(c) \/ DiscardItems(c) \/ CollapseNext(c)
  \/ BatchFails(c)

Spec == Init /\ [][Next]_vars

-----------------------------------------------------------------------------
\* A placement is where, and as, it was last asked to be: each operation keeps the
\* fields that are not its own, promotion and discards included, unless a call
\* wrote a record that others had changed since it was read.
PlacementsAreAsAsked ==
  batch = None =>
    /\ DOMAIN occ = DOMAIN meant
    /\ \A x \in DOMAIN occ \ raced : Intent(occ[x]) = meant[x]

\* The keys of the siblings leave room for n more between any two.
Roomy(items, S, n) ==
  \A x, y \in S : x # y => items[x].key - items[y].key >= 2^n \/ items[y].key - items[x].key >= 2^n

\* x stands right behind `after` (first if that is None, last if it is elsewhere).
StandsAfter(items, x, after) ==
  LET S == siblings(items, items[x].parent) \ {x} IN
  IF after \in S
    THEN Before(items, after, x)
         /\ \A y \in S : Before(items, after, y) => Before(items, x, y)
    ELSE \A y \in S : IF after = None THEN Before(items, x, y) ELSE Before(items, y, x)

PlacedAsAsked(c, x) ==
  LET r == call[c].arg
      S == siblings(call[c].items, r.parent)
  IN  call[c].stale = {} /\ Roomy(call[c].items, S, 1) => StandsAfter(occ', x, r.after)

\* Siblings and promoted children, as they were and in their new order.
PromotedInPlace(c) ==
  LET items == call[c].items
      x == call[c].arg.id
      S == siblings(items, items[x].parent) \ {x}
      C == Children(items, x) \ {x}
      Was(a, b) == IF (a \in C) = (b \in C) THEN Before(items, a, b)
                   ELSE IF a \in C THEN Before(items, x, b) ELSE Before(items, a, x)
      n == Cardinality(C)
  IN  Roomy(items, S \cup {x}, n) /\ 2^n <= 2 * ORDER_STEP /\ items[x].parent # x =>
        \A a, b \in S \cup C : a # b => (Before(occ', a, b) <=> Was(a, b))

\* An item lands where it was asked to, and the children of a deleted item take
\* its place in their order, unless others wrote since the siblings were read or
\* their keys lie so close that the gap, or a step, cannot be halved so often.
OrderedAsAsked ==
  \A c \in Callers :
    /\ call[c].op = "move" /\ call'[c] = Idle /\ call[c].arg.id \in DOMAIN occ
         => PlacedAsAsked(c, call[c].arg.id)
    /\ call[c].op \in {"create", "place"} /\ call'[c] = Idle
         => \A x \in DOMAIN occ' \ DOMAIN occ : PlacedAsAsked(c, x)
    /\ call[c].op = "delete" /\ call[c].arg.id \notin DOMAIN occ' => PromotedInPlace(c)
=============================================================================
