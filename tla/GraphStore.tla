----------------------------- MODULE GraphStore -----------------------------
(***************************************************************************)
(* The outline graph and the operations the services run on it, behind the *)
(* validation that guards every commit of the SQLite store.                *)
(*                                                                         *)
(* The graph is one record.  Each array of MemoryStateContainer is a       *)
(* function from the ids present in the array to their records, so that    *)
(* push is Put, filter is Without and find is membership in DOMAIN.  Each  *)
(* operation is an operator that returns the graph the in-memory mutation  *)
(* produces; Commit then does what SqlitePersistence.commitFullMutation    *)
(* does with it: keep it if validatedGraphStateSnapshot accepts it, else   *)
(* put the previous graph back and report an error to the caller.          *)
(*                                                                         *)
(* Abstracted: texts (only "is it blank" is kept), order keys, headings,   *)
(* timestamps, tags, aliases, historical time, and the derived knots.      *)
(* Links are of one symmetric type.                                        *)
(***************************************************************************)
EXTENDS FiniteSets

CONSTANTS
  WorkIds, BranchIds, OccIds, RevIds, SnapIds, MarkIds, LinkIds,
  RewriteNames,   \* the names a user may type for a rewrite branch
  None            \* null: no parent, no head, no resume position

ASSUME NoneAssumption ==
  None \notin WorkIds \cup BranchIds \cup OccIds \cup RevIds \cup SnapIds

ASSUME SelectorAssumption == BranchIds \cap RevIds = {}

VARIABLES
  graph,     \* the state arrays of the store
  refused,   \* the operation the last commit validation rejected, or None
  rewriting  \* a rewrite between its two commits, or None

vars == <<graph, refused, rewriting>>

-----------------------------------------------------------------------------
\* Arrays as functions on the ids they hold.

Put(f, k, v) == [x \in DOMAIN f \cup {k} |-> IF x = k THEN v ELSE f[x]]

Without(f, S) == [x \in DOMAIN f \ S |-> f[x]]

\* Every entry that belongs to work `from` is given to work `to`.
reassignWorkId(f, from, to) ==
  [x \in DOMAIN f |->
     IF f[x].work = from THEN [f[x] EXCEPT !.work = to] ELSE f[x]]

Owned(f, w) == {x \in DOMAIN f : f[x].work = w}

Endpoints == [work : WorkIds, rev : RevIds \cup {None}]

WorkEnd(w) == [work |-> w, rev |-> None]

WorksOf(ends) == {e.work : e \in ends}

-----------------------------------------------------------------------------
\* Views of a graph.

\* Faulty: a merged work still counts as active.
ActiveWithTombstones(g) == {w \in DOMAIN g.work : ~g.work[w].deleted}

Active(g) == {w \in DOMAIN g.work : ~g.work[w].deleted /\ g.work[w].merged = None}

\* listItems: the occurrences of works that are not in the trash.
Items(g) ==
  {o \in DOMAIN g.occ : g.occ[o].work \in DOMAIN g.work /\ ~g.work[g.occ[o].work].deleted}

\* listOccurrences: merged works are hidden as well.
Placements(g) == {o \in DOMAIN g.occ : g.occ[o].work \in Active(g)}

Mains(g, w) == {b \in DOMAIN g.branch : g.branch[b].work = w /\ g.branch[b].name = "main"}

Unplaced(g) == {w \in Active(g) : \A o \in Placements(g) : g.occ[o].work # w}

\* A work whose only main branch has a blank draft.
BlankMain(g, w) ==
  \E b \in Mains(g, w) : b \in DOMAIN g.copy /\ g.copy[b].blank

CopyOf(g, b) ==
  b \in DOMAIN g.branch /\ b \in DOMAIN g.copy /\ g.copy[b].work = g.branch[b].work

-----------------------------------------------------------------------------
\* validatedGraphStateSnapshot, part by part.

validateWorks(g) ==
  \A w \in DOMAIN g.work :
    LET m == g.work[w].merged IN
      m # None => m \in DOMAIN g.work \cup g.purgedWorks /\ m # w

validateBranches(g) ==
  \A b \in DOMAIN g.branch :
    LET r == g.branch[b].head IN
      /\ g.branch[b].work \in DOMAIN g.work
      /\ r # None => r \in DOMAIN g.rev /\ g.rev[r].work = g.branch[b].work

validateWorkingCopies(g) ==
  \A b \in DOMAIN g.copy :
    CopyOf(g, b) /\ g.copy[b].work \in DOMAIN g.work

validateRevisions(g) ==
  \A r \in DOMAIN g.rev :
    /\ g.rev[r].work \in DOMAIN g.work
    /\ \A p \in g.rev[r].parents :
         p \in DOMAIN g.rev /\ p # r /\ g.rev[p].work = g.rev[r].work

\* assertRevisionDag: a cycle is a non-empty set each member of which has a
\* parent in the set.
assertRevisionDag(g) ==
  ~ \E C \in SUBSET DOMAIN g.rev :
      C # {} /\ \A r \in C : g.rev[r].parents \cap C # {}

validateRecoverySnapshots(g) ==
  \A n \in DOMAIN g.snap :
    LET s == g.snap[n] IN
      /\ s.work \in DOMAIN g.work
      /\ s.branch \in DOMAIN g.branch /\ g.branch[s.branch].work = s.work
      /\ s.source # None => s.source \in DOMAIN g.rev /\ g.rev[s.source].work = s.work

validateOccurrences(g) ==
  \A o \in DOMAIN g.occ :
    LET s == g.occ[o].sel IN
      /\ g.occ[o].work \in DOMAIN g.work
      /\ \/ s \in DOMAIN g.branch /\ g.branch[s].work = g.occ[o].work
         \/ s \in DOMAIN g.rev /\ g.rev[s].work = g.occ[o].work

validateLinks(g) ==
  \A l \in DOMAIN g.link : \A e \in g.link[l].ends :
    /\ e.work \in DOMAIN g.work
    /\ e.rev # None => e.rev \in DOMAIN g.rev /\ g.rev[e.rev].work = e.work

validateSystemRelations(g) == g.related \subseteq DOMAIN g.work

OccurrenceOf(g, o, w) == o \in DOMAIN g.occ /\ g.occ[o].work = w

\* The work pairs are the ids; a purged work or occurrence is tolerated.
validateEmergenceSuggestions(g) ==
  \A p \in DOMAIN g.sugg :
    /\ {p[1], p[2]} \subseteq DOMAIN g.work \cup g.purgedWorks
    /\ g.sugg[p].from \in g.purgedOccs \/ OccurrenceOf(g, g.sugg[p].from, p[1])
    /\ g.sugg[p].to \in g.purgedOccs \/ OccurrenceOf(g, g.sugg[p].to, p[2])

ValidTarget(g, t) == t.work \in DOMAIN g.work /\ OccurrenceOf(g, t.occ, t.work)

validateBookmarks(g) == \A m \in DOMAIN g.mark : ValidTarget(g, g.mark[m])

validateResumePosition(g) == g.resume # None => ValidTarget(g, g.resume)

Valid(g) ==
  /\ validateWorks(g)
  /\ validateBranches(g)
  /\ validateWorkingCopies(g)
  /\ validateRevisions(g)
  /\ assertRevisionDag(g)
  /\ validateRecoverySnapshots(g)
  /\ validateOccurrences(g)
  /\ validateLinks(g)
  /\ validateSystemRelations(g)
  /\ validateEmergenceSuggestions(g)
  /\ validateBookmarks(g)
  /\ validateResumePosition(g)

-----------------------------------------------------------------------------
(***************************************************************************)
(* Works, placements and the trash.                                        *)
(***************************************************************************)
NewWork(stub) == [deleted |-> FALSE, merged |-> None, stub |-> stub]

createUnplacedWork(g, w, b, stub, blank) ==
  [g EXCEPT !.work = Put(@, w, NewWork(stub)),
            !.branch = Put(@, b, [work |-> w, name |-> "main", head |-> None]),
            !.copy = Put(@, b, [work |-> w, blank |-> blank])]

createOccurrence(g, o, w, parent, sel) ==
  [g EXCEPT !.occ = Put(@, o, [work |-> w, parent |-> parent, sel |-> sel]),
            !.issued = @ \cup {o}]

createWorkBundle(g, w, b, o, parent, blank) ==
  createOccurrence(createUnplacedWork(g, w, b, FALSE, blank), o, w, parent, b)

updateBranchWorkingCopy(g, b, blank) == [g EXCEPT !.copy[b].blank = blank]

resolveWorkStub(g, w) == [g EXCEPT !.work[w].stub = FALSE]

applyWorkTrash(g, W) ==
  [g EXCEPT !.work = [w \in DOMAIN @ |->
     IF w \in W THEN [@[w] EXCEPT !.deleted = TRUE] ELSE @[w]]]

\* The works in W that have no placement and a blank draft go to the trash.
trashBlankUnplacedWorks(g, W) ==
  applyWorkTrash(g, {w \in W \cap DOMAIN g.work :
    /\ ~g.work[w].deleted /\ ~g.work[w].stub
    /\ \A o \in Placements(g) : g.occ[o].work # w
    /\ BlankMain(g, w)})

\* Faulty: children keep the parent that is gone.
keepOrphans(g, O) == g

cleanupOrphanOccurrences(g, O) ==
  [g EXCEPT !.occ = [o \in DOMAIN @ |->
     IF o \in O /\ @[o].parent # None /\ @[o].parent \notin DOMAIN @
       THEN [@[o] EXCEPT !.parent = None] ELSE @[o]]]

applyWorkRestore(g, w) ==
  LET h == [g EXCEPT !.work[w].deleted = FALSE]
  IN  cleanupOrphanOccurrences(h, Owned(h.occ, w))

\* The children the outline shows move up to the parent of the deleted item;
\* children in the trash keep their parent.
deleteOccurrenceWithPromotion(g, o) ==
  [g EXCEPT !.occ = [c \in DOMAIN @ \ {o} |->
     IF c \in Items(g) /\ @[c].parent = o
       THEN [@[c] EXCEPT !.parent = g.occ[o].parent] ELSE @[c]]]

deleteItem(g, o) ==
  trashBlankUnplacedWorks(deleteOccurrenceWithPromotion(g, o), {g.occ[o].work})

\* The shown items whose text may be blank.  (The text of a revision is left
\* out: it may be.)  Faulty as EmptyItems: the children are not looked at.
BlankItems(g) ==
  {o \in Items(g) : g.occ[o].sel \in DOMAIN g.copy => g.copy[g.occ[o].sel].blank}

\* The blank items that are nobody's parent in the outline.
EmptyItems(g) == {o \in BlankItems(g) : \A c \in Items(g) : g.occ[c].parent # o}

discardEmptyItems(g, O) ==
  trashBlankUnplacedWorks([g EXCEPT !.occ = Without(@, O)], {g.occ[o].work : o \in O})

\* Faulty: the bookmarks and the resume position are left behind.
purgeAllButTargets(g, w) ==
  [g EXCEPT
    !.work = Without(@, {w}),
    !.branch = Without(@, Owned(@, w)),
    !.copy = Without(@, Owned(@, w)),
    !.occ = Without(@, Owned(@, w)),
    !.link = Without(@, {l \in DOMAIN @ : w \in WorksOf(@[l].ends)})]

purgeAssociatedEntities(g, w) ==
  [g EXCEPT
    !.work = Without(@, {w}),
    !.branch = Without(@, Owned(@, w)),
    !.copy = Without(@, Owned(@, w) \cup Owned(g.branch, w)),
    !.rev = Without(@, Owned(@, w)),
    !.snap = Without(@, Owned(@, w)),
    !.mark = Without(@, Owned(@, w)),
    !.resume = IF @ # None /\ @.work = w THEN None ELSE @,
    !.occ = Without(@, Owned(@, w)),
    !.link = Without(@, {l \in DOMAIN @ : w \in WorksOf(@[l].ends)})]

\* The manifest remembers the work and its placements.
applyWorkPurge(g, w) ==
  LET h == purgeAssociatedEntities(
             [g EXCEPT !.purgedWorks = @ \cup {w},
                       !.purgedOccs = @ \cup Owned(g.occ, w)], w)
  IN  cleanupOrphanOccurrences(h, DOMAIN h.occ)

(***************************************************************************)
(* Merging a duplicate work into another one.                              *)
(***************************************************************************)
replaceEndpointWork(e, s, t) == IF e.work = s THEN [e EXCEPT !.work = t] ELSE e

\* Faulty: links stay with the work that was merged away.
keepLinkEnds(f, s, t) == f

rewireMergedLinks(f, s, t) ==
  [l \in DOMAIN f |->
     [f[l] EXCEPT !.ends = {replaceEndpointWork(e, s, t) : e \in @}]]

\* Faulty: only links from an end to itself are retracted.
retractSelfLinks(f, first) ==
  [l \in DOMAIN f |->
     IF Cardinality(f[l].ends) = 1 THEN [f[l] EXCEPT !.active = FALSE] ELSE f[l]]

\* Of the active links with the same ends one stays active (the first in the
\* array, here any one of them); a link from an end to itself is retracted.
\* first maps each set of ends to the link that comes first.
retractDuplicateActiveLinks(f, first) ==
  [l \in DOMAIN f |->
     IF f[l].active /\ (Cardinality(f[l].ends) = 1 \/ first[l] # l)
       THEN [f[l] EXCEPT !.active = FALSE] ELSE f[l]]

IsFirst(f, first) ==
  /\ \A l \in DOMAIN f : f[l].active =>
       /\ f[first[l]].active
       /\ f[first[l]].ends = f[l].ends
  /\ \A l, k \in DOMAIN f :
       f[l].active /\ f[k].active /\ f[l].ends = f[k].ends => first[l] = first[k]

rewireMergedBranches(f, s, t) ==
  [b \in DOMAIN f |->
     IF f[b].work = s THEN [f[b] EXCEPT !.work = t, !.name = "merged"] ELSE f[b]]

applyMergeWorks(g, s, t, first) ==
  [g EXCEPT
    !.work[s].merged = t,
    !.branch = rewireMergedBranches(@, s, t),
    !.copy = reassignWorkId(@, s, t),
    !.rev = reassignWorkId(@, s, t),
    !.snap = reassignWorkId(@, s, t),
    !.occ = reassignWorkId(@, s, t),
    !.mark = reassignWorkId(@, s, t),
    !.resume = IF @ # None /\ @.work = s THEN [@ EXCEPT !.work = t] ELSE @,
    !.link = retractDuplicateActiveLinks(rewireMergedLinks(@, s, t), first),
    !.related = {IF w = s THEN t ELSE w : w \in @}]

(***************************************************************************)
(* Revisions, branches and recovery snapshots.                             *)
(***************************************************************************)
\* validateRevisionCreation: parents exist already and belong to the work.
validateRevisionCreation(g, r, b, w, parents) ==
  /\ b \in DOMAIN g.branch /\ g.branch[b].work = w
  /\ r \notin DOMAIN g.rev
  /\ \A p \in parents : p \in DOMAIN g.rev /\ g.rev[p].work = w

appendRevisionToBranch(g, r, b, w, parents) ==
  [g EXCEPT !.rev = Put(@, r, [work |-> w, parents |-> parents]),
            !.branch[b].head = r]

\* Faulty: every branch is a main branch.
branchNamedMain(g, b, w, name, head, blank) ==
  [g EXCEPT !.branch = Put(@, b, [work |-> w, name |-> "main", head |-> head]),
            !.copy = Put(@, b, [work |-> w, blank |-> blank])]

createBranch(g, b, w, name, head, blank) ==
  [g EXCEPT !.branch = Put(@, b, [work |-> w, name |-> name, head |-> head]),
            !.copy = Put(@, b, [work |-> w, blank |-> blank])]

createRecoverySnapshot(g, n, b) ==
  [g EXCEPT !.snap = Put(@, n, [work |-> g.copy[b].work, branch |-> b,
                                source |-> g.branch[b].head])]

\* Faulty: the restored snapshot is used up.
restoreAndForget(g, n, before, blank) ==
  updateBranchWorkingCopy([g EXCEPT !.snap = Without(@, {n})], g.snap[n].branch, blank)

\* The draft is kept as a new snapshot before the old text replaces it.
applyRecoverySnapshotRestore(g, n, before, blank) ==
  updateBranchWorkingCopy(
    createRecoverySnapshot(g, before, g.snap[n].branch), g.snap[n].branch, blank)

\* Faulty: a snapshot without a source revision starts a new history.
SourceOrNothing(g, n) == {g.snap[n].source} \ {None}

\* The parent of a promoted snapshot: the revision it was taken from if it is
\* still there, else the head of the branch.
PromotionParents(g, n) ==
  LET s == g.snap[n]
      h == g.branch[s.branch].head
      known(r) == r \in DOMAIN g.rev /\ g.rev[r].work = s.work
  IN  IF known(s.source) THEN {s.source} ELSE IF known(h) THEN {h} ELSE {}

(***************************************************************************)
(* Links and emergence suggestions.                                        *)
(***************************************************************************)
createLink(g, l, ends, origin) ==
  [g EXCEPT !.link = Put(@, l, [ends |-> ends, active |-> TRUE, origin |-> origin])]

deleteLink(g, v, w) ==
  [g EXCEPT !.link = [l \in DOMAIN @ |->
     IF WorksOf(@[l].ends) = {v, w} THEN [@[l] EXCEPT !.active = FALSE] ELSE @[l]]]

\* Faulty: a stored suggestion is pending again.
replaceSuggestion(g, p, from, to) ==
  [g EXCEPT !.sugg = Put(@, p, [from |-> from, to |-> to, status |-> "pending"])]

\* A suggestion that is already stored keeps its status.
upsertEmergenceSuggestion(g, p, from, to) ==
  [g EXCEPT !.sugg = Put(@, p,
     [from |-> from, to |-> to,
      status |-> IF p \in DOMAIN @ THEN @[p].status ELSE "pending"])]

\* Dismissed and accepted suggestions are final, so both end as "resolved".
resolveEmergenceSuggestion(g, p, status) == [g EXCEPT !.sugg[p].status = status]

acceptEmergenceSuggestion(g, p, l) ==
  LET ends == {WorkEnd(p[1]), WorkEnd(p[2])}
      h == resolveEmergenceSuggestion(g, p, "resolved")
      duplicate == \E k \in DOMAIN g.link :
        g.link[k].active /\ g.link[k].origin = "suggestion" /\ g.link[k].ends = ends
  IN  IF duplicate THEN h ELSE createLink(h, l, ends, "suggestion")

-----------------------------------------------------------------------------
\* commitFullMutation: the result is validated before it is written.

Commit(op, h) ==
  IF Valid(h) THEN graph' = h /\ refused' = None
              ELSE graph' = graph /\ refused' = op

Run(op, h) == Commit(op, h) /\ UNCHANGED rewriting

NewOcc == OccIds \ graph.issued
NewWorkId == WorkIds \ (DOMAIN graph.work \cup graph.purgedWorks)
NewBranch == BranchIds \ DOMAIN graph.branch
NewRev == RevIds \ DOMAIN graph.rev
NewSnap == SnapIds \ DOMAIN graph.snap
NewLink == LinkIds \ DOMAIN graph.link

\* Creating and moving an item take the parent as it is given: a placement the
\* outline showed once, which may be in the trash or gone when the call runs.
Parents == graph.issued \cup {None}

EmptyGraph ==
  [work |-> <<>>, branch |-> <<>>, copy |-> <<>>, rev |-> <<>>, snap |-> <<>>,
   occ |-> <<>>, mark |-> <<>>, link |-> <<>>, sugg |-> <<>>, related |-> {},
   resume |-> None, purgedWorks |-> {}, purgedOccs |-> {}, issued |-> {}]

\* The graph a backup of the first format restores: its items are placed once,
\* each with a main branch, and some of them are in an IN relation, which no
\* operation makes any more.  The rest of such a backup (parents, links, blank
\* texts) the operations make as well.
migrateBackupV0(owner, shown, related) ==
  [EmptyGraph EXCEPT
    !.work = [w \in {owner[b] : b \in DOMAIN owner} |-> NewWork(FALSE)],
    !.branch = [b \in DOMAIN owner |-> [work |-> owner[b], name |-> "main", head |-> None]],
    !.copy = [b \in DOMAIN owner |-> [work |-> owner[b], blank |-> FALSE]],
    !.occ = [o \in DOMAIN shown |->
               [work |-> owner[shown[o]], parent |-> None, sel |-> shown[o]]],
    !.issued = DOMAIN shown,
    !.related = related]

OneToOne(f) == \A x, y \in DOMAIN f : f[x] = f[y] => x = y

OldBackup(g) ==
  \E B \in SUBSET BranchIds, O \in SUBSET OccIds, related \in SUBSET WorkIds :
  \E owner \in [B -> WorkIds], shown \in [O -> B] :
    /\ OneToOne(owner) /\ OneToOne(shown) /\ B = {shown[o] : o \in O}
    /\ related \subseteq {owner[b] : b \in B} /\ Cardinality(related) # 1
    /\ g = migrateBackupV0(owner, shown, related)

\* The store is new, or an old backup was restored.
Init == /\ graph = EmptyGraph \/ OldBackup(graph)
        /\ refused = None
        /\ rewriting = None

CreateItem == \E w \in NewWorkId, b \in NewBranch, o \in NewOcc, p \in Parents, blank \in BOOLEAN :
  Run("createItem", createWorkBundle(graph, w, b, o, p, blank))

\* quick_capture requires text, a stub has none.
CreateUnplacedWork == \E w \in NewWorkId, b \in NewBranch, stub \in BOOLEAN :
  Run("createUnplacedWork", createUnplacedWork(graph, w, b, stub, stub))

\* The selector is copied from a placement of the work, or is its main branch,
\* or a branch the caller names (a rewrite).
Selectors(g, w) ==
  {g.occ[o].sel : o \in Owned(g.occ, w)}
    \cup {b \in Owned(g.branch, w) : CopyOf(g, b)}

CreateOccurrence == \E o \in NewOcc, w \in Active(graph), p \in Items(graph) \cup {None} :
  \E sel \in Selectors(graph, w) :
    Run("createOccurrence", createOccurrence(graph, o, w, p, sel))

\* updateItemText writes through the selector of a shown item; the inbox
\* writes a non-blank text to the main branch of an unplaced work.
UpdateText == \E b \in DOMAIN graph.copy, blank \in BOOLEAN :
  /\ \/ \E o \in Items(graph) : graph.occ[o].sel = b
     \/ ~blank /\ \E w \in Unplaced(graph) : Mains(graph, w) = {b}
  /\ Run("updateText", updateBranchWorkingCopy(graph, b, blank))

ResolveStub == \E w \in Active(graph) :
  /\ graph.work[w].stub
  /\ \E b \in Mains(graph, w) : b \in DOMAIN graph.copy /\ ~graph.copy[b].blank
  /\ Run("resolveStub", resolveWorkStub(graph, w))

MoveItem == \E o \in Items(graph), p \in Parents :
  Run("moveItem", [graph EXCEPT !.occ[o].parent = p])

SetOccurrenceRevision == \E o \in Items(graph) :
  LET w == graph.occ[o].work IN
  \E sel \in Owned(graph.rev, w) \cup Mains(graph, w) :
    Run("setOccurrenceRevision", [graph EXCEPT !.occ[o].sel = sel])

DeleteItem == \E o \in Items(graph) : Run("deleteItem", deleteItem(graph, o))

\* The items the window remembers as left empty.
DiscardEmptyItems == \E O \in SUBSET EmptyItems(graph) :
  O # {} /\ Run("discardEmptyItems", discardEmptyItems(graph, O))

TrashWork == \E o \in Items(graph) :
  Run("trashWork", applyWorkTrash(graph, {graph.occ[o].work}))

\* Opening the inbox trashes the blank works that are not placed; it gives up
\* when an unplaced work has not exactly one main branch.
StaleBlankWorks(g) == {w \in Unplaced(g) : ~g.work[w].stub /\ BlankMain(g, w)}

ListUnplaced ==
  /\ \A w \in Unplaced(graph) : Cardinality(Mains(graph, w)) = 1
  /\ StaleBlankWorks(graph) # {}
  /\ Run("listUnplaced", applyWorkTrash(graph, StaleBlankWorks(graph)))

InTrash == {w \in DOMAIN graph.work : graph.work[w].deleted}

RestoreWork == \E w \in InTrash : Run("restoreWork", applyWorkRestore(graph, w))

PurgeWork == \E w \in InTrash : Run("purgeWork", applyWorkPurge(graph, w))

MergeWorks == \E s, t \in Active(graph) :
  /\ s # t
  /\ \E first \in [DOMAIN graph.link -> DOMAIN graph.link] :
       /\ IsFirst(rewireMergedLinks(graph.link, s, t), first)
       /\ Run("mergeWorks", applyMergeWorks(graph, s, t, first))

CreateBookmark == \E o \in Placements(graph), m \in MarkIds \ DOMAIN graph.mark :
  Run("createBookmark",
      [graph EXCEPT !.mark = Put(@, m, [work |-> graph.occ[o].work, occ |-> o])])

DeleteBookmark == \E m \in DOMAIN graph.mark :
  Run("deleteBookmark", [graph EXCEPT !.mark = Without(@, {m})])

SaveResumePosition == \E o \in Placements(graph) :
  Run("saveResumePosition",
      [graph EXCEPT !.resume = [work |-> graph.occ[o].work, occ |-> o]])

ClearResumePosition ==
  graph.resume # None /\ Run("clearResumePosition", [graph EXCEPT !.resume = None])

\* The ends a user may name: an active work, or one of its revisions.
LinkEnds(g) == {e \in Endpoints :
  e.work \in Active(g) /\ (e.rev = None \/ e.rev \in Owned(g.rev, e.work))}

CreateLink == \E l \in NewLink, e, f \in LinkEnds(graph) :
  /\ e.work # f.work
  /\ \A k \in DOMAIN graph.link : graph.link[k].active => graph.link[k].ends # {e, f}
  /\ Run("createLink", createLink(graph, l, {e, f}, "human"))

DeleteLink == \E l \in DOMAIN graph.link :
  /\ graph.link[l].active
  /\ \E v, w \in WorksOf(graph.link[l].ends) :
       Run("deleteLink", deleteLink(graph, v, w))

\* Listing the suggestions for an item stores every candidate.  The target may
\* be another placement of the same work, if it hangs under another root.
MaterializeSuggestion == \E from, to \in Items(graph) :
  /\ from # to
  /\ graph.occ[from].work = graph.occ[to].work =>
       graph.occ[from].parent = None /\ graph.occ[to].parent = None
  /\ Run("materialize", upsertEmergenceSuggestion(
       graph, <<graph.occ[from].work, graph.occ[to].work>>, from, to))

ResolveSuggestion == \E p \in DOMAIN graph.sugg :
  /\ graph.sugg[p].status # "resolved"
  /\ \/ \E status \in {"held", "resolved"} :
          Run("resolveSuggestion", resolveEmergenceSuggestion(graph, p, status))
     \/ \E l \in NewLink :
          Run("acceptSuggestion", acceptEmergenceSuggestion(graph, p, l))

CreateCheckpoint == \E b \in DOMAIN graph.branch, r \in NewRev :
  /\ CopyOf(graph, b)
  /\ LET w == graph.branch[b].work
         parents == {graph.branch[b].head} \ {None}
     IN  /\ validateRevisionCreation(graph, r, b, w, parents)
         /\ Run("createRevision", appendRevisionToBranch(graph, r, b, w, parents))

CreateManualMerge == \E b \in DOMAIN graph.branch, r \in NewRev, p \in DOMAIN graph.rev :
  LET w == graph.branch[b].work
      h == graph.branch[b].head
  IN  /\ CopyOf(graph, b) /\ h # None /\ p # h
      /\ validateRevisionCreation(graph, r, b, w, {h, p})
      /\ Run("createRevision", appendRevisionToBranch(graph, r, b, w, {h, p}))

\* rewriteAsNewBranch commits twice: the checkpoint of the draft, unless the
\* draft is the head revision already, and then the branch.
RewriteCheckpoint == \E b \in DOMAIN graph.branch, name \in RewriteNames :
  LET w == graph.branch[b].work
      h == graph.branch[b].head
      next(r) == rewriting' = [work |-> w, head |-> r, name |-> name,
                               blank |-> graph.copy[b].blank]
  IN  /\ rewriting = None
      /\ CopyOf(graph, b)
      /\ h # None => h \in DOMAIN graph.rev /\ graph.rev[h].work = w
      /\ \/ h # None /\ next(h) /\ refused' = None /\ UNCHANGED graph
         \/ \E r \in NewRev :
              /\ validateRevisionCreation(graph, r, b, w, {h} \ {None})
              /\ Commit("createRevision",
                        appendRevisionToBranch(graph, r, b, w, {h} \ {None}))
              /\ IF graph' = graph THEN UNCHANGED rewriting ELSE next(r)

RewriteBranch == \E b \in NewBranch :
  /\ rewriting # None
  /\ rewriting' = None
  /\ LET w == rewriting.work IN
       Commit("createBranch",
         createBranch(graph, b, w, rewriting.name, rewriting.head, rewriting.blank))

CreateRecoverySnapshot == \E b \in DOMAIN graph.branch, n \in NewSnap :
  /\ CopyOf(graph, b)
  /\ Run("createSnapshot", createRecoverySnapshot(graph, n, b))

\* A snapshot in the scope of a branch that still has its draft.
InScope(g, n) ==
  LET s == g.snap[n] IN CopyOf(g, s.branch) /\ g.copy[s.branch].work = s.work

RestoreSnapshot == \E n \in DOMAIN graph.snap, before \in NewSnap, blank \in BOOLEAN :
  /\ InScope(graph, n)
  /\ Run("restoreSnapshot", applyRecoverySnapshotRestore(graph, n, before, blank))

PromoteSnapshot == \E n \in DOMAIN graph.snap, r \in NewRev :
  LET s == graph.snap[n]
      parents == PromotionParents(graph, n)
  IN  /\ InScope(graph, n)
      /\ validateRevisionCreation(graph, r, s.branch, s.work, parents)
      /\ Run("promoteSnapshot", appendRevisionToBranch(graph, r, s.branch, s.work, parents))

Next ==
  \/ CreateItem \/ CreateUnplacedWork \/ CreateOccurrence \/ UpdateText
  \/ ResolveStub \/ MoveItem \/ SetOccurrenceRevision \/ DeleteItem
  \/ DiscardEmptyItems
  \/ TrashWork \/ ListUnplaced \/ RestoreWork \/ PurgeWork \/ MergeWorks
  \/ CreateBookmark \/ DeleteBookmark \/ SaveResumePosition \/ ClearResumePosition
  \/ CreateLink \/ DeleteLink \/ MaterializeSuggestion \/ ResolveSuggestion
  \/ CreateCheckpoint \/ CreateManualMerge \/ RewriteCheckpoint \/ RewriteBranch
  \/ CreateRecoverySnapshot \/ RestoreSnapshot \/ PromoteSnapshot

Spec == Init /\ [][Next]_vars

-----------------------------------------------------------------------------
(***************************************************************************)
(* Properties.                                                             *)
(***************************************************************************)
Tables(S, R) == UNION {[D -> R] : D \in SUBSET S}

WorkRecs == [deleted : BOOLEAN, merged : WorkIds \cup {None}, stub : BOOLEAN]
BranchRecs == [work : WorkIds, name : {"main", "merged"} \cup RewriteNames,
               head : RevIds \cup {None}]
CopyRecs == [work : WorkIds, blank : BOOLEAN]
RevRecs == [work : WorkIds, parents : SUBSET RevIds]
SnapRecs == [work : WorkIds, branch : BranchIds, source : RevIds \cup {None}]
OccRecs == [work : WorkIds, parent : OccIds \cup {None}, sel : BranchIds \cup RevIds]
Targets == [work : WorkIds, occ : OccIds]
LinkRecs == [ends : SUBSET Endpoints, active : BOOLEAN, origin : {"human", "suggestion"}]
SuggRecs == [from : OccIds, to : OccIds, status : {"pending", "held", "resolved"}]

Graphs ==
  [work : Tables(WorkIds, WorkRecs), branch : Tables(BranchIds, BranchRecs),
   copy : Tables(BranchIds, CopyRecs), rev : Tables(RevIds, RevRecs),
   snap : Tables(SnapIds, SnapRecs), occ : Tables(OccIds, OccRecs),
   mark : Tables(MarkIds, Targets), link : Tables(LinkIds, LinkRecs),
   sugg : Tables(WorkIds \X WorkIds, SuggRecs), related : SUBSET WorkIds,
   resume : Targets \cup {None},
   purgedWorks : SUBSET WorkIds, purgedOccs : SUBSET OccIds, issued : SUBSET OccIds]

Rewrites == [work : WorkIds, head : RevIds, name : RewriteNames, blank : BOOLEAN]

Ops == {"createItem", "createUnplacedWork", "createOccurrence", "updateText",
        "resolveStub", "moveItem", "setOccurrenceRevision", "deleteItem",
        "discardEmptyItems",
        "trashWork", "listUnplaced", "restoreWork", "purgeWork", "mergeWorks",
        "createBookmark", "deleteBookmark", "saveResumePosition",
        "clearResumePosition", "createLink", "deleteLink", "materialize",
        "resolveSuggestion", "acceptSuggestion", "createRevision",
        "createBranch", "createSnapshot", "restoreSnapshot", "promoteSnapshot"}

\* The state has its type.
TypeOK ==
  /\ graph \in Graphs
  /\ refused \in Ops \cup {None}
  /\ rewriting \in Rewrites \cup {None}

\* A work that was not merged away has exactly one main branch, and the branch
\* has a draft: what BranchService and the inbox require before they do anything
\* (branch_service.ts #requireUniqueMain), over every sequence of captures,
\* rewrites, merges, purges and restores.
UniqueMain ==
  \A w \in DOMAIN graph.work : graph.work[w].merged = None =>
    \E b \in DOMAIN graph.branch : Mains(graph, w) = {b} /\ CopyOf(graph, b)

\* A work that was merged into another one keeps nothing: all of its branches,
\* history, placements, marks and links follow the survivor, whatever the
\* services do to either of them afterwards (a rewrite that was half done when
\* the merge came included).
TombstonesAreEmpty ==
  \A w \in DOMAIN graph.work : graph.work[w].merged # None =>
    /\ \A f \in {graph.branch, graph.copy, graph.rev, graph.snap, graph.occ, graph.mark} :
         Owned(f, w) = {}
    /\ graph.resume # None => graph.resume.work # w
    /\ \A l \in DOMAIN graph.link : w \notin WorksOf(graph.link[l].ends)

\* Following the survivors of merges never comes back to where it started.
MergeChainsEnd ==
  ~ \E C \in SUBSET DOMAIN graph.work :
      C # {} /\ \A w \in C : graph.work[w].merged \in C

Orphans(g) == {o \in Items(g) : g.occ[o].parent \notin DOMAIN g.occ \cup {None}}

\* No operation leaves an item under a parent that is gone (such an item drops
\* out of the outline into the stash): deletions promote, discards spare what has
\* children, purges and restores detach, also children that were in the trash
\* while their parent went away.  An orphan is made in two ways only: by putting
\* an item, new or moved, under a parent that went away before the call ran, and
\* by deleting an item that was its own parent, which dropping an item on its own
\* child makes of it.  The children of a deleted orphan inherit its parent.
OnlyPlacingMakesOrphans ==
  [][ \A o \in Orphans(graph') :
        LET p == graph'.occ[o].parent IN
          IF p \in DOMAIN graph.occ THEN graph.occ[p].parent = p
          ELSE \/ \E q \in Orphans(graph) : graph.occ[q].parent = p
               \/ o \notin DOMAIN graph.occ
               \/ graph' = [graph EXCEPT !.occ[o].parent = p] ]_vars

\* The placements that a bookmark, the resume position or a suggestion names.
Cited(g) ==
  {g.mark[m].occ : m \in DOMAIN g.mark} \cup {g.sugg[p].from : p \in DOMAIN g.sugg}
    \cup {g.sugg[p].to : p \in DOMAIN g.sugg}
    \cup (IF g.resume = None THEN {} ELSE {g.resume.occ})

\* Of the operations of this module only these can pass their own checks and
\* still be stopped by the validation of the commit, and only for these reasons
\* (a refused operation leaves the graph as it was): deletions and discards while
\* a shown placement is cited, purges while a relation of an old backup names a
\* work in the trash, merges while there are suggestions, accepting a suggestion
\* for a purged work, and the second half of a rewrite after a merge or a purge.
\* Every other operation preserves the validity of the graph by its own guards.
RefusalsAreKnown ==
  \/ refused = None
  \/ refused \in {"deleteItem", "discardEmptyItems"} /\ Cited(graph) \cap Items(graph) # {}
  \/ refused = "purgeWork" /\ graph.related \cap InTrash # {}
  \/ refused = "mergeWorks" /\ DOMAIN graph.sugg # {}
  \/ /\ refused = "acceptSuggestion"
     /\ \E p \in DOMAIN graph.sugg : {p[1], p[2]} \cap graph.purgedWorks # {}
  \/ /\ refused = "createBranch"
     /\ graph.purgedWorks \cup {w \in DOMAIN graph.work : graph.work[w].merged # None} # {}

\* Outside the trash nothing is lost: a work, branch, draft, revision or
\* snapshot disappears only when the work that owns it is purged from the trash,
\* and a placement disappears only then or when its work keeps its main branch.
NothingLostOutsideTrash ==
  [][ /\ \A w \in DOMAIN graph.work \ DOMAIN graph'.work : graph.work[w].deleted
      /\ \A b \in DOMAIN graph.branch \ DOMAIN graph'.branch :
           graph.work[graph.branch[b].work].deleted
      /\ \A b \in DOMAIN graph.copy \ DOMAIN graph'.copy :
           graph.work[graph.copy[b].work].deleted
      /\ \A r \in DOMAIN graph.rev \ DOMAIN graph'.rev :
           graph.work[graph.rev[r].work].deleted
      /\ \A n \in DOMAIN graph.snap \ DOMAIN graph'.snap :
           graph.work[graph.snap[n].work].deleted
      /\ \A o \in DOMAIN graph.occ \ DOMAIN graph'.occ :
           \/ graph.work[graph.occ[o].work].deleted
           \/ Mains(graph', graph.occ[o].work) # {} ]_vars

\* Of the links between the same two ends, at most one made by the user and one
\* made from a suggestion are active, however merges fold their ends together.
ActiveLinksAreDistinct ==
  \A l, k \in DOMAIN graph.link :
    /\ graph.link[l].active /\ graph.link[k].active
    /\ graph.link[l].ends = graph.link[k].ends
    => l = k \/ graph.link[l].origin # graph.link[k].origin

\* The revisions that r descends from, r included.
Lineage(g, r) ==
  {p \in DOMAIN g.rev : \A C \in SUBSET DOMAIN g.rev :
     r \in C /\ (\A q \in C : g.rev[q].parents \subseteq C) => p \in C}

\* A branch that has a history never starts another one: its new head has an
\* ancestor in common with the old one.  (It need not descend from it: a
\* promoted snapshot hangs under the revision it was taken from.)
HeadsShareHistory ==
  [][ \A b \in DOMAIN graph.branch \cap DOMAIN graph'.branch :
        LET h == graph.branch[b].head
            k == graph'.branch[b].head
        IN  h # None => /\ k # None
                        /\ Lineage(graph', h) \cap Lineage(graph', k) # {} ]_vars

\* A suggestion that was accepted or dismissed is not offered again, even when
\* discovery computes and stores the same candidate once more.
SuggestionDecisionsAreFinal ==
  [][ \A p \in DOMAIN graph.sugg :
        graph.sugg[p].status = "resolved" =>
          p \in DOMAIN graph'.sugg /\ graph'.sugg[p].status = "resolved" ]_vars

=============================================================================
