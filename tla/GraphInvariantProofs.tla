------------------------- MODULE GraphInvariantProofs -------------------------
(***************************************************************************)
(* What is kept by every sequence of operations on the graph, for any      *)
(* number of works and of whatever they own: a work that was merged away   *)
(* keeps nothing and chains of merges end; a work has one main branch; a   *)
(* branch has one history; nothing is lost outside the trash; items keep   *)
(* their parents; and most operations never run into the validation.       *)
(*                                                                         *)
(* All of it rests on GraphInv: types, what the validation of the commits  *)
(* guarantees, and Sound.  Sound adds to the emptiness of merged works what*)
(* keeps the last way back to one shut: accepting a suggestion makes a link*)
(* between the works it names, and a suggestion is not rewired by a merge. *)
(* Validation ties it to placements of these works, which a merged work has*)
(* none of, or to placements that were purged; then the work was purged as *)
(* well.                                                                   *)
(***************************************************************************)
EXTENDS GraphStoreProofs

Tombs(g) == {w \in DOMAIN g.work : g.work[w].merged # None}

\* The works that something belongs to.
WorkOf(f) == {f[x].work : x \in DOMAIN f}

ResumeWork(r) == IF r = None THEN {} ELSE {r.work}

LinkWorks(f) == UNION {WorksOf(f[l].ends) : l \in DOMAIN f}

Owners(g) ==
  WorkOf(g.branch) \cup WorkOf(g.copy) \cup WorkOf(g.rev) \cup WorkOf(g.snap)
    \cup WorkOf(g.occ) \cup WorkOf(g.mark) \cup ResumeWork(g.resume) \cup LinkWorks(g.link)

TombsOwnNothing(g) == Owners(g) \cap Tombs(g) = {}

\* What is remembered of purges, and of the ids that were given out.
MemoryOfPurges(g) ==
  /\ g.purgedWorks \cap DOMAIN g.work = {}
  /\ g.purgedOccs \cap DOMAIN g.occ = {}
  /\ DOMAIN g.occ \cup g.purgedOccs \subseteq g.issued
  /\ \A p \in DOMAIN g.sugg :
       /\ g.sugg[p].from \in g.purgedOccs => p[1] \in g.purgedWorks
       /\ g.sugg[p].to \in g.purgedOccs => p[2] \in g.purgedWorks

\* MergeChainsEnd, of any graph.
NoMergeCycle(g) ==
  ~ \E C \in SUBSET DOMAIN g.work :
      C # {} /\ \A w \in C : g.work[w].merged \in C \ {None}

Sound(g) == TombsOwnNothing(g) /\ MemoryOfPurges(g) /\ NoMergeCycle(g)

GraphInv == TypeOK /\ Valid(graph) /\ Sound(graph)

\* The merged works of h were merged in g already, into the same works.
NoNewMerges(g, h) ==
  \A w \in DOMAIN h.work : h.work[w].merged # None =>
    w \in DOMAIN g.work /\ g.work[w].merged = h.work[w].merged

\* h came from g: no new merged work, new owners in X, new works in W, new
\* placements in O, and nothing else that Sound looks at.
Follows(g, h, X, W, O) ==
  /\ NoNewMerges(g, h)
  /\ Owners(h) \subseteq Owners(g) \cup X
  /\ DOMAIN h.work \subseteq DOMAIN g.work \cup W
  /\ DOMAIN h.occ \subseteq DOMAIN g.occ \cup O
  /\ h.issued = g.issued \cup O
  /\ h.sugg = g.sugg /\ h.purgedWorks = g.purgedWorks /\ h.purgedOccs = g.purgedOccs

LEMMA NoNewMergesKeep ==
  ASSUME NEW g, NEW h, NoNewMerges(g, h)
  PROVE  Tombs(h) \subseteq Tombs(g) /\ (NoMergeCycle(g) => NoMergeCycle(h))
<1>1. Tombs(h) \subseteq Tombs(g) BY DEF NoNewMerges, Tombs
<1>2. ASSUME NEW C \in SUBSET DOMAIN h.work, \A w \in C : h.work[w].merged \in C \ {None}
      PROVE  C \in SUBSET DOMAIN g.work /\ \A w \in C : g.work[w].merged \in C \ {None}
  BY <1>2 DEF NoNewMerges
<1> QED BY <1>1, <1>2 DEF NoMergeCycle

LEMMA FollowsSound ==
  ASSUME NEW g, NEW h, NEW X, NEW W, NEW O,
         Sound(g), Follows(g, h, X, W, O),
         X \cap Tombs(g) = {}, W \cap g.purgedWorks = {}, O \cap g.issued = {}
  PROVE  Sound(h)
<1>1. Tombs(h) \subseteq Tombs(g) /\ NoMergeCycle(h)
  BY NoNewMergesKeep DEF Follows, Sound
<1> QED BY <1>1 DEF Sound, Follows, TombsOwnNothing, MemoryOfPurges

LEMMA FollowsTwice ==
  ASSUME NEW g, NEW k, NEW h, NEW X, NEW W, NEW O, NEW Y, NEW V, NEW P,
         Follows(g, k, X, W, O), Follows(k, h, Y, V, P)
  PROVE  Follows(g, h, X \cup Y, W \cup V, O \cup P)
<1>1. NoNewMerges(g, h) BY DEF Follows, NoNewMerges
<1> QED BY <1>1 DEF Follows

LEMMA CommitSound ==
  ASSUME TypeOK, Valid(graph), Sound(graph),
         NEW h, NEW op, Commit(op, h), Valid(h) => Sound(h)
  PROVE  Valid(graph)' /\ Sound(graph)'
<1>1. (graph' = h /\ Valid(h)) \/ graph' = graph BY DEF Commit
<1>2. CASE graph' = h /\ Valid(h)
  <2>1. Sound(h) BY <1>2
  <2> QED BY <1>2, <2>1
<1>3. CASE graph' = graph BY <1>3
<1> QED BY <1>1, <1>2, <1>3

-----------------------------------------------------------------------------
\* How the changes of one array move its owners.

LEMMA WorkOfPut ==
  ASSUME NEW f, NEW k, NEW v
  PROVE  WorkOf(Put(f, k, v)) \subseteq WorkOf(f) \cup {v.work}
BY DEF WorkOf, Put

LEMMA WorkOfWithout ==
  ASSUME NEW f, NEW X
  PROVE  WorkOf(Without(f, X)) \subseteq WorkOf(f)
BY DEF WorkOf, Without

LEMMA WorkOfSame ==
  ASSUME NEW f, NEW h, DOMAIN h \subseteq DOMAIN f, \A x \in DOMAIN h : h[x].work = f[x].work
  PROVE  WorkOf(h) \subseteq WorkOf(f)
BY DEF WorkOf

LEMMA LinkWorksSame ==
  ASSUME NEW f, NEW h, DOMAIN h \subseteq DOMAIN f, \A x \in DOMAIN h : h[x].ends = f[x].ends
  PROVE  LinkWorks(h) \subseteq LinkWorks(f)
BY DEF LinkWorks

-----------------------------------------------------------------------------
\* Each operation, and what it adds.

LEMMA createUnplacedWorkFollows ==
  ASSUME NEW g \in Graphs, NEW w, NEW b, NEW stub, NEW blank
  PROVE  Follows(g, createUnplacedWork(g, w, b, stub, blank), {w}, {w}, {})
<1> DEFINE h == createUnplacedWork(g, w, b, stub, blank)
<1>1. /\ h.work = Put(g.work, w, NewWork(stub))
      /\ h.branch = Put(g.branch, b, [work |-> w, name |-> "main", head |-> None])
      /\ h.copy = Put(g.copy, b, [work |-> w, blank |-> blank])
      /\ h.rev = g.rev /\ h.snap = g.snap /\ h.occ = g.occ /\ h.mark = g.mark
      /\ h.resume = g.resume /\ h.link = g.link /\ h.sugg = g.sugg /\ h.issued = g.issued
      /\ h.purgedWorks = g.purgedWorks /\ h.purgedOccs = g.purgedOccs
  BY DEF createUnplacedWork, Graphs
<1> HIDE DEF h
<1>2. NoNewMerges(g, h) BY <1>1 DEF NoNewMerges, Put, NewWork
<1>3. Owners(h) \subseteq Owners(g) \cup {w}
  <2>1. WorkOf(h.branch) \subseteq WorkOf(g.branch) \cup {w} BY <1>1, WorkOfPut
  <2>2. WorkOf(h.copy) \subseteq WorkOf(g.copy) \cup {w} BY <1>1, WorkOfPut
  <2> QED BY <1>1, <2>1, <2>2 DEF Owners
<1>4. DOMAIN h.work \subseteq DOMAIN g.work \cup {w} BY <1>1 DEF Put
<1>5. Follows(g, h, {w}, {w}, {}) BY <1>1, <1>2, <1>3, <1>4 DEF Follows
<1> QED BY <1>5 DEF h

LEMMA createOccurrenceFollows ==
  ASSUME NEW g \in Graphs, NEW o, NEW w, NEW parent, NEW sel
  PROVE  Follows(g, createOccurrence(g, o, w, parent, sel), {w}, {}, {o})
<1> DEFINE h == createOccurrence(g, o, w, parent, sel)
<1>1. /\ h.occ = Put(g.occ, o, [work |-> w, parent |-> parent, sel |-> sel])
      /\ h.issued = g.issued \cup {o}
      /\ h.work = g.work /\ h.branch = g.branch /\ h.copy = g.copy /\ h.rev = g.rev
      /\ h.snap = g.snap /\ h.mark = g.mark
      /\ h.resume = g.resume /\ h.link = g.link /\ h.sugg = g.sugg
      /\ h.purgedWorks = g.purgedWorks /\ h.purgedOccs = g.purgedOccs
  BY DEF createOccurrence, Graphs
<1> HIDE DEF h
<1>2. NoNewMerges(g, h) BY <1>1 DEF NoNewMerges
<1>3. Owners(h) \subseteq Owners(g) \cup {w}
  <2>1. WorkOf(h.occ) \subseteq WorkOf(g.occ) \cup {w} BY <1>1, WorkOfPut
  <2> QED BY <1>1, <2>1 DEF Owners
<1>4. DOMAIN h.occ \subseteq DOMAIN g.occ \cup {o} BY <1>1 DEF Put
<1>5. Follows(g, h, {w}, {}, {o}) BY <1>1, <1>2, <1>3, <1>4 DEF Follows
<1> QED BY <1>5 DEF h

LEMMA createWorkBundleFollows ==
  ASSUME NEW g \in Graphs, NEW w \in WorkIds, NEW b \in BranchIds, NEW o, NEW parent, NEW blank \in BOOLEAN
  PROVE  Follows(g, createWorkBundle(g, w, b, o, parent, blank), {w}, {w}, {o})
<1> DEFINE k == createUnplacedWork(g, w, b, FALSE, blank)
<1>1. k \in Graphs /\ Follows(g, k, {w}, {w}, {})
  BY createUnplacedWorkType, createUnplacedWorkFollows
<1> HIDE DEF k
<1>2. Follows(k, createOccurrence(k, o, w, parent, b), {w}, {}, {o})
  BY <1>1, createOccurrenceFollows
<1>3. Follows(g, createOccurrence(k, o, w, parent, b), {w} \cup {w}, {w} \cup {}, {} \cup {o})
  BY <1>1, <1>2, FollowsTwice
<1> QED BY <1>3 DEF createWorkBundle, k

\* Only flags of works change.
LEMMA WorkFlagsFollow ==
  ASSUME NEW g \in Graphs, NEW f, DOMAIN f = DOMAIN g.work,
         \A w \in DOMAIN f : f[w].merged = g.work[w].merged
  PROVE  Follows(g, [g EXCEPT !.work = f], {}, {}, {})
<1> DEFINE h == [g EXCEPT !.work = f]
<1>1. /\ h.work = f /\ h.branch = g.branch /\ h.copy = g.copy /\ h.rev = g.rev
      /\ h.snap = g.snap /\ h.occ = g.occ /\ h.mark = g.mark /\ h.resume = g.resume
      /\ h.link = g.link /\ h.sugg = g.sugg /\ h.issued = g.issued
      /\ h.purgedWorks = g.purgedWorks /\ h.purgedOccs = g.purgedOccs
  BY DEF Graphs
<1> HIDE DEF h
<1>2. NoNewMerges(g, h) BY <1>1 DEF NoNewMerges
<1>3. Follows(g, h, {}, {}, {}) BY <1>1, <1>2 DEF Follows, Owners
<1> QED BY <1>3 DEF h

LEMMA WorksFollow ==
  ASSUME NEW g \in Graphs
  PROVE  /\ \A w : Follows(g, resolveWorkStub(g, w), {}, {}, {})
         /\ \A W : Follows(g, applyWorkTrash(g, W), {}, {}, {})
         /\ \A w : Follows(g, [g EXCEPT !.work[w].deleted = FALSE], {}, {}, {})
<1>0. \A w \in DOMAIN g.work :
        /\ [g.work[w] EXCEPT !.stub = FALSE].merged = g.work[w].merged
        /\ \A d : [g.work[w] EXCEPT !.deleted = d].merged = g.work[w].merged
  BY GraphRecords DEF WorkRecs
<1>1. ASSUME NEW w PROVE Follows(g, resolveWorkStub(g, w), {}, {}, {})
  <2> DEFINE f == [g.work EXCEPT ![w].stub = FALSE]
  <2>1. DOMAIN f = DOMAIN g.work /\ \A x \in DOMAIN f : f[x].merged = g.work[x].merged
    BY <1>0, GraphTables
  <2>2. resolveWorkStub(g, w) = [g EXCEPT !.work = f] BY DEF resolveWorkStub
  <2> HIDE DEF f
  <2> QED BY <2>1, <2>2, WorkFlagsFollow
<1>2. ASSUME NEW W PROVE Follows(g, applyWorkTrash(g, W), {}, {}, {})
  <2> DEFINE f == [w \in DOMAIN g.work |->
                     IF w \in W THEN [g.work[w] EXCEPT !.deleted = TRUE] ELSE g.work[w]]
  <2>1. DOMAIN f = DOMAIN g.work /\ \A x \in DOMAIN f : f[x].merged = g.work[x].merged
    BY <1>0
  <2>2. applyWorkTrash(g, W) = [g EXCEPT !.work = f] BY DEF applyWorkTrash
  <2> HIDE DEF f
  <2> QED BY <2>1, <2>2, WorkFlagsFollow
<1>3. ASSUME NEW w PROVE Follows(g, [g EXCEPT !.work[w].deleted = FALSE], {}, {}, {})
  <2> DEFINE f == [g.work EXCEPT ![w].deleted = FALSE]
  <2>1. DOMAIN f = DOMAIN g.work /\ \A x \in DOMAIN f : f[x].merged = g.work[x].merged
    BY <1>0, GraphTables
  <2>2. [g EXCEPT !.work[w].deleted = FALSE] = [g EXCEPT !.work = f] OBVIOUS
  <2> HIDE DEF f
  <2> QED BY <2>1, <2>2, WorkFlagsFollow
<1> QED BY <1>1, <1>2, <1>3

\* Placements change or go, but their works stay.
LEMMA PlacementsFollow ==
  ASSUME NEW g \in Graphs, NEW f, DOMAIN f \subseteq DOMAIN g.occ,
         \A o \in DOMAIN f : f[o].work = g.occ[o].work
  PROVE  Follows(g, [g EXCEPT !.occ = f], {}, {}, {})
<1> DEFINE h == [g EXCEPT !.occ = f]
<1>1. /\ h.work = g.work /\ h.branch = g.branch /\ h.copy = g.copy /\ h.rev = g.rev
      /\ h.snap = g.snap /\ h.occ = f /\ h.mark = g.mark /\ h.resume = g.resume
      /\ h.link = g.link /\ h.sugg = g.sugg /\ h.issued = g.issued
      /\ h.purgedWorks = g.purgedWorks /\ h.purgedOccs = g.purgedOccs
  BY DEF Graphs
<1> HIDE DEF h
<1>2. WorkOf(f) \subseteq WorkOf(g.occ) BY WorkOfSame
<1>3. Follows(g, h, {}, {}, {}) BY <1>1, <1>2 DEF Follows, Owners, NoNewMerges
<1> QED BY <1>3 DEF h

LEMMA OutlineFollows ==
  ASSUME NEW g \in Graphs
  PROVE  /\ \A o, p : Follows(g, [g EXCEPT !.occ[o].parent = p], {}, {}, {})
         /\ \A o, v : Follows(g, [g EXCEPT !.occ[o].sel = v], {}, {}, {})
         /\ \A o : Follows(g, deleteOccurrenceWithPromotion(g, o), {}, {}, {})
         /\ \A O : Follows(g, cleanupOrphanOccurrences(g, O), {}, {}, {})
<1>0. \A o \in DOMAIN g.occ :
        /\ \A p : [g.occ[o] EXCEPT !.parent = p].work = g.occ[o].work
        /\ \A v : [g.occ[o] EXCEPT !.sel = v].work = g.occ[o].work
  BY GraphRecords DEF OccRecs
<1>1. ASSUME NEW o, NEW p PROVE Follows(g, [g EXCEPT !.occ[o].parent = p], {}, {}, {})
  <2> DEFINE f == [g.occ EXCEPT ![o].parent = p]
  <2>1. DOMAIN f \subseteq DOMAIN g.occ /\ \A x \in DOMAIN f : f[x].work = g.occ[x].work
    BY <1>0, GraphTables
  <2>2. [g EXCEPT !.occ[o].parent = p] = [g EXCEPT !.occ = f] OBVIOUS
  <2> HIDE DEF f
  <2> QED BY <2>1, <2>2, PlacementsFollow
<1>2. ASSUME NEW o, NEW v PROVE Follows(g, [g EXCEPT !.occ[o].sel = v], {}, {}, {})
  <2> DEFINE f == [g.occ EXCEPT ![o].sel = v]
  <2>1. DOMAIN f \subseteq DOMAIN g.occ /\ \A x \in DOMAIN f : f[x].work = g.occ[x].work
    BY <1>0, GraphTables
  <2>2. [g EXCEPT !.occ[o].sel = v] = [g EXCEPT !.occ = f] OBVIOUS
  <2> HIDE DEF f
  <2> QED BY <2>1, <2>2, PlacementsFollow
<1>3. ASSUME NEW o PROVE Follows(g, deleteOccurrenceWithPromotion(g, o), {}, {}, {})
  <2> DEFINE f == [c \in DOMAIN g.occ \ {o} |->
                     IF c \in Items(g) /\ g.occ[c].parent = o
                       THEN [g.occ[c] EXCEPT !.parent = g.occ[o].parent] ELSE g.occ[c]]
  <2>1. DOMAIN f \subseteq DOMAIN g.occ /\ \A x \in DOMAIN f : f[x].work = g.occ[x].work
    BY <1>0
  <2>2. deleteOccurrenceWithPromotion(g, o) = [g EXCEPT !.occ = f]
    BY DEF deleteOccurrenceWithPromotion
  <2> HIDE DEF f
  <2> QED BY <2>1, <2>2, PlacementsFollow
<1>4. ASSUME NEW O PROVE Follows(g, cleanupOrphanOccurrences(g, O), {}, {}, {})
  <2> DEFINE f == [o \in DOMAIN g.occ |->
                     IF o \in O /\ g.occ[o].parent # None /\ g.occ[o].parent \notin DOMAIN g.occ
                       THEN [g.occ[o] EXCEPT !.parent = None] ELSE g.occ[o]]
  <2>1. DOMAIN f \subseteq DOMAIN g.occ /\ \A x \in DOMAIN f : f[x].work = g.occ[x].work
    BY <1>0
  <2>2. cleanupOrphanOccurrences(g, O) = [g EXCEPT !.occ = f]
    BY DEF cleanupOrphanOccurrences
  <2> HIDE DEF f
  <2> QED BY <2>1, <2>2, PlacementsFollow
<1> QED BY <1>1, <1>2, <1>3, <1>4

LEMMA deleteItemFollows ==
  ASSUME NEW g \in Graphs, NEW o \in DOMAIN g.occ
  PROVE  Follows(g, deleteItem(g, o), {}, {}, {})
<1> DEFINE k == deleteOccurrenceWithPromotion(g, o)
<1>1. k \in Graphs /\ Follows(g, k, {}, {}, {}) BY deleteItemType, OutlineFollows
<1> HIDE DEF k
<1>2. \A W : Follows(g, applyWorkTrash(k, W), {} \cup {}, {} \cup {}, {} \cup {})
  BY <1>1, WorksFollow, FollowsTwice
<1>3. \A W : Follows(g, trashBlankUnplacedWorks(k, W), {}, {}, {})
  BY <1>2 DEF trashBlankUnplacedWorks
<1> QED BY <1>3 DEF deleteItem, k

LEMMA discardEmptyItemsFollows ==
  ASSUME NEW g \in Graphs, NEW O
  PROVE  Follows(g, discardEmptyItems(g, O), {}, {}, {})
<1> DEFINE k == [g EXCEPT !.occ = Without(@, O)]
<1>1. /\ DOMAIN Without(g.occ, O) \subseteq DOMAIN g.occ
      /\ \A x \in DOMAIN Without(g.occ, O) : Without(g.occ, O)[x].work = g.occ[x].work
  BY DEF Without
<1>2. Follows(g, [g EXCEPT !.occ = Without(g.occ, O)], {}, {}, {}) BY <1>1, PlacementsFollow
<1>3. k \in Graphs /\ Follows(g, k, {}, {}, {}) BY <1>2, discardEmptyItemsType
<1> HIDE DEF k
<1>4. \A W : Follows(g, applyWorkTrash(k, W), {} \cup {}, {} \cup {}, {} \cup {})
  BY <1>3, WorksFollow, FollowsTwice
<1>5. \A W : Follows(g, trashBlankUnplacedWorks(k, W), {}, {}, {})
  BY <1>4 DEF trashBlankUnplacedWorks
<1> QED BY <1>5 DEF discardEmptyItems, k

LEMMA applyWorkRestoreFollows ==
  ASSUME NEW g \in Graphs, NEW w
  PROVE  Follows(g, applyWorkRestore(g, w), {}, {}, {})
<1> DEFINE k == [g EXCEPT !.work[w].deleted = FALSE]
<1>1. k \in Graphs /\ Follows(g, k, {}, {}, {}) BY RestoredType, WorksFollow
<1> HIDE DEF k
<1>2. \A O : Follows(g, cleanupOrphanOccurrences(k, O), {} \cup {}, {} \cup {}, {} \cup {})
  BY <1>1, OutlineFollows, FollowsTwice
<1>3. Follows(g, cleanupOrphanOccurrences(k, Owned(k.occ, w)), {}, {}, {}) BY <1>2
<1> QED BY <1>3 DEF applyWorkRestore, k

LEMMA updateBranchWorkingCopyFollows ==
  ASSUME NEW g \in Graphs, NEW b, NEW blank
  PROVE  Follows(g, updateBranchWorkingCopy(g, b, blank), {}, {}, {})
<1> DEFINE h == updateBranchWorkingCopy(g, b, blank)
<1>1. /\ h.copy = [g.copy EXCEPT ![b].blank = blank]
      /\ h.work = g.work /\ h.branch = g.branch /\ h.rev = g.rev
      /\ h.snap = g.snap /\ h.occ = g.occ /\ h.mark = g.mark /\ h.resume = g.resume
      /\ h.link = g.link /\ h.sugg = g.sugg /\ h.issued = g.issued
      /\ h.purgedWorks = g.purgedWorks /\ h.purgedOccs = g.purgedOccs
  BY DEF updateBranchWorkingCopy, Graphs
<1> HIDE DEF h
<1>2. \A x \in DOMAIN g.copy : [g.copy[x] EXCEPT !.blank = blank].work = g.copy[x].work
  BY GraphRecords DEF CopyRecs
<1>3. DOMAIN h.copy \subseteq DOMAIN g.copy /\ \A x \in DOMAIN h.copy : h.copy[x].work = g.copy[x].work
  BY <1>1, <1>2, GraphTables
<1>4. WorkOf(h.copy) \subseteq WorkOf(g.copy) BY <1>3, WorkOfSame
<1>5. Follows(g, h, {}, {}, {}) BY <1>1, <1>4 DEF Follows, Owners, NoNewMerges
<1> QED BY <1>5 DEF h

LEMMA MarkFollows ==
  ASSUME NEW g \in Graphs
  PROVE  /\ \A m, v : Follows(g, [g EXCEPT !.mark = Put(@, m, v)], {v.work}, {}, {})
         /\ \A M : Follows(g, [g EXCEPT !.mark = Without(@, M)], {}, {}, {})
<1>1. ASSUME NEW f, NEW X, WorkOf(f) \subseteq WorkOf(g.mark) \cup X
      PROVE  Follows(g, [g EXCEPT !.mark = f], X, {}, {})
  <2> DEFINE h == [g EXCEPT !.mark = f]
  <2>1. /\ h.mark = f /\ h.work = g.work /\ h.branch = g.branch
        /\ h.copy = g.copy /\ h.rev = g.rev /\ h.snap = g.snap /\ h.occ = g.occ
        /\ h.resume = g.resume /\ h.link = g.link /\ h.sugg = g.sugg /\ h.issued = g.issued
        /\ h.purgedWorks = g.purgedWorks /\ h.purgedOccs = g.purgedOccs
    BY DEF Graphs
  <2> HIDE DEF h
  <2>2. Follows(g, h, X, {}, {}) BY <1>1, <2>1 DEF Follows, Owners, NoNewMerges
  <2> QED BY <2>2 DEF h
<1>2. \A m, v : WorkOf(Put(g.mark, m, v)) \subseteq WorkOf(g.mark) \cup {v.work}
  BY WorkOfPut
<1>3. \A M : WorkOf(Without(g.mark, M)) \subseteq WorkOf(g.mark) \cup {}
  BY WorkOfWithout
<1> QED BY <1>1, <1>2, <1>3

LEMMA ResumeFollows ==
  ASSUME NEW g \in Graphs, NEW r
  PROVE  Follows(g, [g EXCEPT !.resume = r], ResumeWork(r), {}, {})
<1> DEFINE h == [g EXCEPT !.resume = r]
<1>1. /\ h.mark = g.mark /\ h.work = g.work /\ h.branch = g.branch
      /\ h.copy = g.copy /\ h.rev = g.rev /\ h.snap = g.snap /\ h.occ = g.occ
      /\ h.resume = r /\ h.link = g.link /\ h.sugg = g.sugg /\ h.issued = g.issued
      /\ h.purgedWorks = g.purgedWorks /\ h.purgedOccs = g.purgedOccs
  BY DEF Graphs
<1> HIDE DEF h
<1>2. Follows(g, h, ResumeWork(r), {}, {}) BY <1>1 DEF Follows, Owners, NoNewMerges
<1> QED BY <1>2 DEF h

LEMMA LinksFollow ==
  ASSUME NEW g \in Graphs
  PROVE  /\ \A l, E, origin : Follows(g, createLink(g, l, E, origin), WorksOf(E), {}, {})
         /\ \A v, w : Follows(g, deleteLink(g, v, w), {}, {}, {})
<1>1. ASSUME NEW l, NEW E, NEW origin
      PROVE  Follows(g, createLink(g, l, E, origin), WorksOf(E), {}, {})
  <2> DEFINE h == createLink(g, l, E, origin)
  <2>1. /\ h.link = Put(g.link, l, [ends |-> E, active |-> TRUE, origin |-> origin])
        /\ h.mark = g.mark /\ h.work = g.work /\ h.branch = g.branch
        /\ h.copy = g.copy /\ h.rev = g.rev /\ h.snap = g.snap /\ h.occ = g.occ
        /\ h.resume = g.resume /\ h.sugg = g.sugg /\ h.issued = g.issued
        /\ h.purgedWorks = g.purgedWorks /\ h.purgedOccs = g.purgedOccs
    BY DEF createLink, Graphs
  <2> HIDE DEF h
  <2>2. LinkWorks(h.link) \subseteq LinkWorks(g.link) \cup WorksOf(E)
    BY <2>1 DEF LinkWorks, Put
  <2>3. Follows(g, h, WorksOf(E), {}, {}) BY <2>1, <2>2 DEF Follows, Owners, NoNewMerges
  <2> QED BY <2>3 DEF h
<1>2. ASSUME NEW v, NEW w PROVE Follows(g, deleteLink(g, v, w), {}, {}, {})
  <2> DEFINE h == deleteLink(g, v, w)
             f == [l \in DOMAIN g.link |->
                     IF WorksOf(g.link[l].ends) = {v, w}
                       THEN [g.link[l] EXCEPT !.active = FALSE] ELSE g.link[l]]
  <2>1. /\ h.link = f
        /\ h.mark = g.mark /\ h.work = g.work /\ h.branch = g.branch
        /\ h.copy = g.copy /\ h.rev = g.rev /\ h.snap = g.snap /\ h.occ = g.occ
        /\ h.resume = g.resume /\ h.sugg = g.sugg /\ h.issued = g.issued
        /\ h.purgedWorks = g.purgedWorks /\ h.purgedOccs = g.purgedOccs
    BY DEF deleteLink, Graphs
  <2>2. \A l \in DOMAIN g.link : [g.link[l] EXCEPT !.active = FALSE].ends = g.link[l].ends
    BY GraphRecords DEF LinkRecs
  <2>3. DOMAIN f \subseteq DOMAIN g.link /\ \A l \in DOMAIN f : f[l].ends = g.link[l].ends
    BY <2>2
  <2> HIDE DEF h, f
  <2>4. LinkWorks(h.link) \subseteq LinkWorks(g.link) BY <2>1, <2>3, LinkWorksSame
  <2>5. Follows(g, h, {}, {}, {}) BY <2>1, <2>4 DEF Follows, Owners, NoNewMerges
  <2> QED BY <2>5 DEF h
<1> QED BY <1>1, <1>2

LEMMA appendRevisionToBranchFollows ==
  ASSUME NEW g \in Graphs, NEW r, NEW b, NEW w, NEW P
  PROVE  Follows(g, appendRevisionToBranch(g, r, b, w, P), {w}, {}, {})
<1> DEFINE h == appendRevisionToBranch(g, r, b, w, P)
<1>1. /\ h.rev = Put(g.rev, r, [work |-> w, parents |-> P])
      /\ h.branch = [g.branch EXCEPT ![b].head = r]
      /\ h.work = g.work /\ h.copy = g.copy /\ h.snap = g.snap /\ h.occ = g.occ
      /\ h.mark = g.mark /\ h.resume = g.resume /\ h.link = g.link /\ h.sugg = g.sugg
      /\ h.issued = g.issued
      /\ h.purgedWorks = g.purgedWorks /\ h.purgedOccs = g.purgedOccs
  BY DEF appendRevisionToBranch, Graphs
<1> HIDE DEF h
<1>2. \A x \in DOMAIN g.branch : [g.branch[x] EXCEPT !.head = r].work = g.branch[x].work
  BY GraphRecords DEF BranchRecs
<1>3. /\ DOMAIN h.branch \subseteq DOMAIN g.branch
      /\ \A x \in DOMAIN h.branch : h.branch[x].work = g.branch[x].work
  BY <1>1, <1>2, GraphTables
<1>4. WorkOf(h.branch) \subseteq WorkOf(g.branch) BY <1>3, WorkOfSame
<1>5. WorkOf(h.rev) \subseteq WorkOf(g.rev) \cup {w} BY <1>1, WorkOfPut
<1>6. Follows(g, h, {w}, {}, {}) BY <1>1, <1>4, <1>5 DEF Follows, Owners, NoNewMerges
<1> QED BY <1>6 DEF h

LEMMA createBranchFollows ==
  ASSUME NEW g \in Graphs, NEW b, NEW w, NEW name, NEW head, NEW blank
  PROVE  Follows(g, createBranch(g, b, w, name, head, blank), {w}, {}, {})
<1> DEFINE h == createBranch(g, b, w, name, head, blank)
<1>1. /\ h.branch = Put(g.branch, b, [work |-> w, name |-> name, head |-> head])
      /\ h.copy = Put(g.copy, b, [work |-> w, blank |-> blank])
      /\ h.work = g.work /\ h.rev = g.rev /\ h.snap = g.snap /\ h.occ = g.occ
      /\ h.mark = g.mark /\ h.resume = g.resume /\ h.link = g.link /\ h.sugg = g.sugg
      /\ h.issued = g.issued
      /\ h.purgedWorks = g.purgedWorks /\ h.purgedOccs = g.purgedOccs
  BY DEF createBranch, Graphs
<1> HIDE DEF h
<1>2. WorkOf(h.branch) \subseteq WorkOf(g.branch) \cup {w} BY <1>1, WorkOfPut
<1>3. WorkOf(h.copy) \subseteq WorkOf(g.copy) \cup {w} BY <1>1, WorkOfPut
<1>4. Follows(g, h, {w}, {}, {}) BY <1>1, <1>2, <1>3 DEF Follows, Owners, NoNewMerges
<1> QED BY <1>4 DEF h

LEMMA createRecoverySnapshotFollows ==
  ASSUME NEW g \in Graphs, NEW n, NEW b
  PROVE  Follows(g, createRecoverySnapshot(g, n, b), {g.copy[b].work}, {}, {})
<1> DEFINE h == createRecoverySnapshot(g, n, b)
<1>1. /\ h.snap = Put(g.snap, n, [work |-> g.copy[b].work, branch |-> b,
                                  source |-> g.branch[b].head])
      /\ h.branch = g.branch /\ h.copy = g.copy
      /\ h.work = g.work /\ h.rev = g.rev /\ h.occ = g.occ
      /\ h.mark = g.mark /\ h.resume = g.resume /\ h.link = g.link /\ h.sugg = g.sugg
      /\ h.issued = g.issued
      /\ h.purgedWorks = g.purgedWorks /\ h.purgedOccs = g.purgedOccs
  BY DEF createRecoverySnapshot, Graphs
<1> HIDE DEF h
<1>2. WorkOf(h.snap) \subseteq WorkOf(g.snap) \cup {g.copy[b].work} BY <1>1, WorkOfPut
<1>3. Follows(g, h, {g.copy[b].work}, {}, {}) BY <1>1, <1>2 DEF Follows, Owners, NoNewMerges
<1> QED BY <1>3 DEF h

LEMMA applyRecoverySnapshotRestoreFollows ==
  ASSUME NEW g \in Graphs, NEW n \in DOMAIN g.snap, NEW before \in SnapIds, NEW blank,
         g.snap[n].branch \in DOMAIN g.copy, g.snap[n].branch \in DOMAIN g.branch
  PROVE  Follows(g, applyRecoverySnapshotRestore(g, n, before, blank),
                 {g.copy[g.snap[n].branch].work}, {}, {})
<1> DEFINE b == g.snap[n].branch
           k == createRecoverySnapshot(g, before, b)
           X == {g.copy[b].work}
<1>1. k \in Graphs /\ Follows(g, k, X, {}, {})
  BY createRecoverySnapshotType, createRecoverySnapshotFollows
<1> HIDE DEF k, b, X
<1>2. Follows(k, updateBranchWorkingCopy(k, b, blank), {}, {}, {})
  BY <1>1, updateBranchWorkingCopyFollows
<1>3. Follows(g, updateBranchWorkingCopy(k, b, blank), X \cup {}, {} \cup {}, {} \cup {})
  BY <1>1, <1>2, FollowsTwice
<1>4. Follows(g, updateBranchWorkingCopy(k, b, blank), X, {}, {})
  BY <1>3
<1> QED BY <1>4 DEF applyRecoverySnapshotRestore, k, b, X

\* What a purge takes away is remembered, and suggestions about it are allowed.
LEMMA PurgedSound ==
  ASSUME NEW g \in Graphs, NEW w \in WorkIds, Sound(g), validateEmergenceSuggestions(g),
         NEW k, k = [g EXCEPT !.purgedWorks = @ \cup {w},
                              !.purgedOccs = @ \cup Owned(g.occ, w)]
  PROVE  Sound(purgeAssociatedEntities(k, w))
<1> DEFINE h == purgeAssociatedEntities(k, w)
<1>1. /\ h.work = Without(g.work, {w})
      /\ h.branch = Without(g.branch, Owned(g.branch, w))
      /\ h.copy = Without(g.copy, Owned(g.copy, w) \cup Owned(g.branch, w))
      /\ h.rev = Without(g.rev, Owned(g.rev, w))
      /\ h.snap = Without(g.snap, Owned(g.snap, w))
      /\ h.mark = Without(g.mark, Owned(g.mark, w))
      /\ h.resume \in {g.resume, None}
      /\ h.occ = Without(g.occ, Owned(g.occ, w))
      /\ h.link = Without(g.link, {l \in DOMAIN g.link : w \in WorksOf(g.link[l].ends)})
      /\ h.sugg = g.sugg /\ h.issued = g.issued
      /\ h.purgedWorks = g.purgedWorks \cup {w}
      /\ h.purgedOccs = g.purgedOccs \cup Owned(g.occ, w)
  BY DEF purgeAssociatedEntities, Graphs
<1> HIDE DEF h
<1>2. Tombs(h) \subseteq Tombs(g) /\ NoMergeCycle(h)
  <2>1. NoNewMerges(g, h) BY <1>1 DEF NoNewMerges, Without
  <2> QED BY <2>1, NoNewMergesKeep DEF Sound
<1>3. Owners(h) \subseteq Owners(g)
  <2>1. /\ WorkOf(h.branch) \subseteq WorkOf(g.branch)
        /\ WorkOf(h.copy) \subseteq WorkOf(g.copy)
        /\ WorkOf(h.rev) \subseteq WorkOf(g.rev)
        /\ WorkOf(h.snap) \subseteq WorkOf(g.snap)
        /\ WorkOf(h.mark) \subseteq WorkOf(g.mark)
        /\ WorkOf(h.occ) \subseteq WorkOf(g.occ)
    BY <1>1, WorkOfWithout
  <2>2. LinkWorks(h.link) \subseteq LinkWorks(g.link) BY <1>1 DEF LinkWorks, Without
  <2>3. ResumeWork(h.resume) \subseteq ResumeWork(g.resume) BY <1>1 DEF ResumeWork
  <2> QED BY <2>1, <2>2, <2>3 DEF Owners
<1>4. TombsOwnNothing(h) BY <1>2, <1>3 DEF Sound, TombsOwnNothing
<1>5. DOMAIN h.work = DOMAIN g.work \ {w} /\ DOMAIN h.occ = DOMAIN g.occ \ Owned(g.occ, w)
  BY <1>1 DEF Without
<1>6. Owned(g.occ, w) \subseteq DOMAIN g.occ /\ MemoryOfPurges(g)
  BY DEF Owned, Sound
<1>7. ASSUME NEW p \in DOMAIN g.sugg
      PROVE  /\ g.sugg[p].from \in h.purgedOccs => p[1] \in h.purgedWorks
             /\ g.sugg[p].to \in h.purgedOccs => p[2] \in h.purgedWorks
  <2>1. /\ g.sugg[p].from \in g.purgedOccs \/ g.occ[g.sugg[p].from].work = p[1]
        /\ g.sugg[p].to \in g.purgedOccs \/ g.occ[g.sugg[p].to].work = p[2]
    BY DEF validateEmergenceSuggestions, OccurrenceOf
  <2> QED BY <1>1, <1>6, <2>1 DEF Owned, MemoryOfPurges
<1>8. MemoryOfPurges(h) BY <1>1, <1>5, <1>6, <1>7 DEF MemoryOfPurges
<1> QED BY <1>2, <1>4, <1>8 DEF Sound, h

LEMMA applyWorkPurgeSound ==
  ASSUME NEW g \in Graphs, NEW w \in WorkIds, Sound(g), validateEmergenceSuggestions(g)
  PROVE  Sound(applyWorkPurge(g, w))
<1> DEFINE k == [g EXCEPT !.purgedWorks = @ \cup {w},
                          !.purgedOccs = @ \cup Owned(g.occ, w)]
           h == purgeAssociatedEntities(k, w)
<1>1. h \in Graphs BY PurgedType
<1>2. Sound(h) BY PurgedSound
<1> HIDE DEF h
<1>3. Follows(h, cleanupOrphanOccurrences(h, DOMAIN h.occ), {}, {}, {}) BY <1>1, OutlineFollows
<1>4. Sound(cleanupOrphanOccurrences(h, DOMAIN h.occ)) BY <1>2, <1>3, FollowsSound
<1> QED BY <1>4 DEF applyWorkPurge, h

-----------------------------------------------------------------------------
\* A merge: everything s owned goes to t, and s is the only new merged work.

LEMMA ReassignedWorks ==
  ASSUME NEW f, NEW s, NEW t, s # t,
         \A x \in DOMAIN f : [f[x] EXCEPT !.work = t].work = t
  PROVE  WorkOf(reassignWorkId(f, s, t)) \subseteq (WorkOf(f) \ {s}) \cup {t}
BY DEF WorkOf, reassignWorkId

LEMMA RewiredBranchWorks ==
  ASSUME NEW f \in Tables(BranchIds, BranchRecs), NEW s, NEW t, s # t
  PROVE  WorkOf(rewireMergedBranches(f, s, t)) \subseteq (WorkOf(f) \ {s}) \cup {t}
<1>1. \A x \in DOMAIN f : [f[x] EXCEPT !.work = t, !.name = "merged"].work = t
  BY TableElim DEF BranchRecs
<1> QED BY <1>1 DEF WorkOf, rewireMergedBranches

LEMMA RewiredLinkWorks ==
  ASSUME NEW f \in Tables(LinkIds, LinkRecs), NEW s, NEW t \in WorkIds, NEW first, s # t
  PROVE  LinkWorks(retractDuplicateActiveLinks(rewireMergedLinks(f, s, t), first))
           \subseteq (LinkWorks(f) \ {s}) \cup {t}
<1> DEFINE k == rewireMergedLinks(f, s, t)
           E(l) == {replaceEndpointWork(e, s, t) : e \in f[l].ends}
<1>1. \A l \in DOMAIN f : f[l] \in LinkRecs BY TableElim
<1>2. DOMAIN k = DOMAIN f /\ \A l \in DOMAIN f : k[l].ends = E(l)
  BY <1>1 DEF rewireMergedLinks, LinkRecs
<1>3. k \in Tables(LinkIds, LinkRecs) BY rewireMergedLinksType
<1>4. ASSUME NEW l \in DOMAIN f
      PROVE  WorksOf(E(l)) \subseteq (WorksOf(f[l].ends) \ {s}) \cup {t}
  <2>1. \A e \in f[l].ends : e \in Endpoints BY <1>1 DEF LinkRecs
  <2>2. \A e \in Endpoints : replaceEndpointWork(e, s, t).work = IF e.work = s THEN t ELSE e.work
    BY DEF replaceEndpointWork, Endpoints
  <2> QED BY <2>1, <2>2 DEF WorksOf
<1> HIDE DEF k, E
<1>5. LinkWorks(k) \subseteq (LinkWorks(f) \ {s}) \cup {t}
  BY <1>2, <1>4 DEF LinkWorks
<1>6. \A l \in DOMAIN k : [k[l] EXCEPT !.active = FALSE].ends = k[l].ends
  BY <1>3, TableElim DEF LinkRecs
<1>7. LET r == retractDuplicateActiveLinks(k, first) IN
        DOMAIN r \subseteq DOMAIN k /\ \A l \in DOMAIN r : r[l].ends = k[l].ends
  BY <1>6 DEF retractDuplicateActiveLinks
<1>8. LinkWorks(retractDuplicateActiveLinks(k, first)) \subseteq LinkWorks(k)
  BY <1>7, LinkWorksSame
<1> QED BY <1>5, <1>8 DEF k

LEMMA applyMergeWorksSound ==
  ASSUME NEW g \in Graphs, NEW s \in Active(g), NEW t \in Active(g), s # t, NEW first,
         Sound(g)
  PROVE  Sound(applyMergeWorks(g, s, t, first))
<1> DEFINE h == applyMergeWorks(g, s, t, first)
<1>1. /\ h.work = [g.work EXCEPT ![s].merged = t]
      /\ h.branch = rewireMergedBranches(g.branch, s, t)
      /\ h.copy = reassignWorkId(g.copy, s, t)
      /\ h.rev = reassignWorkId(g.rev, s, t)
      /\ h.snap = reassignWorkId(g.snap, s, t)
      /\ h.occ = reassignWorkId(g.occ, s, t)
      /\ h.mark = reassignWorkId(g.mark, s, t)
      /\ h.resume = IF g.resume # None /\ g.resume.work = s
                      THEN [g.resume EXCEPT !.work = t] ELSE g.resume
      /\ h.link = retractDuplicateActiveLinks(rewireMergedLinks(g.link, s, t), first)
      /\ h.sugg = g.sugg /\ h.issued = g.issued
      /\ h.purgedWorks = g.purgedWorks /\ h.purgedOccs = g.purgedOccs
  BY DEF applyMergeWorks, Graphs
<1> HIDE DEF h
<1>2. s \in DOMAIN g.work /\ t \in DOMAIN g.work /\ t \in WorkIds /\ t \notin Tombs(g)
  BY GraphTables DEF Active, Tombs
<1>3. DOMAIN h.work = DOMAIN g.work /\ Tombs(h) \subseteq Tombs(g) \cup {s}
  BY <1>1, GraphTables DEF Tombs
<1>4. DOMAIN h.occ = DOMAIN g.occ BY <1>1 DEF reassignWorkId
<1>5. /\ \A x \in DOMAIN g.copy : [g.copy[x] EXCEPT !.work = t].work = t
      /\ \A x \in DOMAIN g.rev : [g.rev[x] EXCEPT !.work = t].work = t
      /\ \A x \in DOMAIN g.snap : [g.snap[x] EXCEPT !.work = t].work = t
      /\ \A x \in DOMAIN g.occ : [g.occ[x] EXCEPT !.work = t].work = t
      /\ \A x \in DOMAIN g.mark : [g.mark[x] EXCEPT !.work = t].work = t
  BY GraphRecords DEF CopyRecs, RevRecs, SnapRecs, OccRecs, Targets
<1>6. /\ WorkOf(h.copy) \subseteq (WorkOf(g.copy) \ {s}) \cup {t}
      /\ WorkOf(h.rev) \subseteq (WorkOf(g.rev) \ {s}) \cup {t}
      /\ WorkOf(h.snap) \subseteq (WorkOf(g.snap) \ {s}) \cup {t}
      /\ WorkOf(h.occ) \subseteq (WorkOf(g.occ) \ {s}) \cup {t}
      /\ WorkOf(h.mark) \subseteq (WorkOf(g.mark) \ {s}) \cup {t}
  BY <1>1, <1>5, ReassignedWorks
<1>7. WorkOf(h.branch) \subseteq (WorkOf(g.branch) \ {s}) \cup {t}
  BY <1>1, GraphFields, RewiredBranchWorks
<1>8. LinkWorks(h.link) \subseteq (LinkWorks(g.link) \ {s}) \cup {t}
  BY <1>1, <1>2, GraphFields, RewiredLinkWorks
<1>9. ResumeWork(h.resume) \subseteq (ResumeWork(g.resume) \ {s}) \cup {t}
  BY <1>1, GraphFields DEF ResumeWork, Targets
<1>10. Owners(h) \subseteq (Owners(g) \ {s}) \cup {t}
  BY <1>6, <1>7, <1>8, <1>9 DEF Owners
<1>11. TombsOwnNothing(h) BY <1>2, <1>3, <1>10 DEF Sound, TombsOwnNothing
<1>12. MemoryOfPurges(h) BY <1>1, <1>3, <1>4 DEF Sound, MemoryOfPurges
<1>13. NoMergeCycle(h)
  <2> SUFFICES ASSUME NEW C \in SUBSET DOMAIN g.work, C # {},
                      \A w \in C : h.work[w].merged \in C \ {None}
               PROVE  FALSE
    BY <1>3 DEF NoMergeCycle
  <2>1. \A w \in DOMAIN g.work : w # s => h.work[w] = g.work[w]
    BY <1>1, GraphTables
  <2>2. s \notin C
    <3>1. h.work[s].merged = t
      <4>1. [g.work[s] EXCEPT !.merged = t].merged = t BY <1>2, GraphRecords DEF WorkRecs
      <4> QED BY <1>1, <1>2, <4>1, GraphTables
    <3>2. s \in C => t \in C /\ h.work[t].merged # None BY <3>1
    <3> QED BY <1>2, <2>1, <3>2 DEF Tombs
  <2>3. \A w \in C : g.work[w].merged \in C \ {None} BY <2>1, <2>2
  <2> QED BY <2>3 DEF Sound, NoMergeCycle
<1> QED BY <1>11, <1>12, <1>13 DEF Sound, h

-----------------------------------------------------------------------------
\* Suggestions.

LEMMA SuggestionFields ==
  ASSUME NEW g \in Graphs, NEW f
  PROVE  LET h == [g EXCEPT !.sugg = f] IN
           /\ Owners(h) = Owners(g) /\ Tombs(h) = Tombs(g)
           /\ h.work = g.work /\ h.occ = g.occ /\ h.issued = g.issued /\ h.sugg = f
           /\ h.purgedWorks = g.purgedWorks /\ h.purgedOccs = g.purgedOccs
<1> DEFINE h == [g EXCEPT !.sugg = f]
<1>1. /\ h.work = g.work /\ h.branch = g.branch /\ h.copy = g.copy /\ h.rev = g.rev
      /\ h.snap = g.snap /\ h.occ = g.occ /\ h.mark = g.mark /\ h.resume = g.resume
      /\ h.link = g.link /\ h.sugg = f /\ h.issued = g.issued
      /\ h.purgedWorks = g.purgedWorks /\ h.purgedOccs = g.purgedOccs
  BY DEF Graphs
<1> HIDE DEF h
<1>2. Owners(h) = Owners(g) /\ Tombs(h) = Tombs(g) BY <1>1 DEF Owners, Tombs
<1>3. /\ Owners(h) = Owners(g) /\ Tombs(h) = Tombs(g)
      /\ h.work = g.work /\ h.occ = g.occ /\ h.issued = g.issued /\ h.sugg = f
      /\ h.purgedWorks = g.purgedWorks /\ h.purgedOccs = g.purgedOccs
  BY <1>1, <1>2
<1> QED BY <1>3 DEF h

\* A stored candidate is between placements that are there.
LEMMA upsertEmergenceSuggestionSound ==
  ASSUME NEW g \in Graphs, Sound(g), NEW p, NEW from \in DOMAIN g.occ, NEW to \in DOMAIN g.occ
  PROVE  Sound(upsertEmergenceSuggestion(g, p, from, to))
<1> DEFINE status == IF p \in DOMAIN g.sugg THEN g.sugg[p].status ELSE "pending"
           s == [from |-> from, to |-> to, status |-> status]
           f == Put(g.sugg, p, s)
           h == [g EXCEPT !.sugg = f]
<1>1. s.from = from /\ s.to = to OBVIOUS
<1>2. upsertEmergenceSuggestion(g, p, from, to) = h BY DEF upsertEmergenceSuggestion
<1> HIDE DEF s
<1>3. \A q \in DOMAIN f : f[q] = s \/ (q \in DOMAIN g.sugg /\ f[q] = g.sugg[q])
  BY DEF Put
<1> HIDE DEF f
<1>4. /\ Owners(h) = Owners(g) /\ Tombs(h) = Tombs(g)
      /\ h.work = g.work /\ h.occ = g.occ /\ h.issued = g.issued /\ h.sugg = f
      /\ h.purgedWorks = g.purgedWorks /\ h.purgedOccs = g.purgedOccs
  BY SuggestionFields
<1> HIDE DEF h
<1>5. from \notin g.purgedOccs /\ to \notin g.purgedOccs BY DEF Sound, MemoryOfPurges
<1>6. MemoryOfPurges(h) BY <1>1, <1>3, <1>4, <1>5 DEF Sound, MemoryOfPurges
<1>7. TombsOwnNothing(h) /\ NoMergeCycle(h) BY <1>4 DEF Sound, TombsOwnNothing, NoMergeCycle
<1> QED BY <1>2, <1>6, <1>7 DEF Sound

LEMMA resolveEmergenceSuggestionSound ==
  ASSUME NEW g \in Graphs, Sound(g), NEW p, NEW status
  PROVE  /\ Sound(resolveEmergenceSuggestion(g, p, status))
         /\ LET h == resolveEmergenceSuggestion(g, p, status) IN
              /\ Owners(h) = Owners(g) /\ Tombs(h) = Tombs(g)
              /\ h.work = g.work /\ h.occ = g.occ /\ h.purgedOccs = g.purgedOccs
<1> DEFINE f == [g.sugg EXCEPT ![p].status = status]
           h == [g EXCEPT !.sugg = f]
<1>1. resolveEmergenceSuggestion(g, p, status) = h BY DEF resolveEmergenceSuggestion
<1>2. \A q \in DOMAIN g.sugg :
        /\ [g.sugg[q] EXCEPT !.status = status].from = g.sugg[q].from
        /\ [g.sugg[q] EXCEPT !.status = status].to = g.sugg[q].to
  BY GraphRecords DEF SuggRecs
<1>3. /\ DOMAIN f = DOMAIN g.sugg
      /\ \A q \in DOMAIN f : f[q].from = g.sugg[q].from /\ f[q].to = g.sugg[q].to
  BY <1>2, GraphTables
<1> HIDE DEF f
<1>4. /\ Owners(h) = Owners(g) /\ Tombs(h) = Tombs(g)
      /\ h.work = g.work /\ h.occ = g.occ /\ h.issued = g.issued /\ h.sugg = f
      /\ h.purgedWorks = g.purgedWorks /\ h.purgedOccs = g.purgedOccs
  BY SuggestionFields
<1> HIDE DEF h
<1>5. MemoryOfPurges(h) BY <1>3, <1>4 DEF Sound, MemoryOfPurges
<1>6. TombsOwnNothing(h) /\ NoMergeCycle(h) BY <1>4 DEF Sound, TombsOwnNothing, NoMergeCycle
<1> QED BY <1>1, <1>4, <1>5, <1>6 DEF Sound

\* A suggestion can still be accepted only while the works it names are there:
\* then its placements are theirs, so neither was merged away.
LEMMA acceptEmergenceSuggestionSound ==
  ASSUME NEW g \in Graphs, Sound(g), validateEmergenceSuggestions(g),
         NEW p \in DOMAIN g.sugg, NEW l \in LinkIds,
         Valid(acceptEmergenceSuggestion(g, p, l))
  PROVE  Sound(acceptEmergenceSuggestion(g, p, l))
<1> DEFINE ends == {WorkEnd(p[1]), WorkEnd(p[2])}
           k == resolveEmergenceSuggestion(g, p, "resolved")
           h == createLink(k, l, ends, "suggestion")
<1>1. /\ k \in Graphs /\ Sound(k)
      /\ Owners(k) = Owners(g) /\ Tombs(k) = Tombs(g)
      /\ k.work = g.work /\ k.occ = g.occ /\ k.purgedOccs = g.purgedOccs
  BY resolveEmergenceSuggestionType, resolveEmergenceSuggestionSound
<1>2. WorksOf(ends) = {p[1], p[2]} BY DEF WorksOf, WorkEnd
<1> HIDE DEF k, ends
<1>3. ASSUME Valid(h) PROVE Sound(h)
  <2>1. h.link = Put(k.link, l, [ends |-> ends, active |-> TRUE, origin |-> "suggestion"])
        /\ h.work = k.work
    BY <1>1 DEF createLink, Graphs
  <2>2. l \in DOMAIN h.link /\ h.link[l].ends = ends BY <2>1 DEF Put
  <2>3. \A e \in ends : e.work \in DOMAIN g.work
    BY <1>1, <1>3, <2>1, <2>2 DEF Valid, validateLinks
  <2>4. p[1] \in DOMAIN g.work /\ p[2] \in DOMAIN g.work BY <1>2, <2>3 DEF WorksOf
  <2>5. g.sugg[p].from \notin g.purgedOccs /\ g.sugg[p].to \notin g.purgedOccs
    BY <2>4 DEF Sound, MemoryOfPurges
  <2>6. p[1] \in WorkOf(g.occ) /\ p[2] \in WorkOf(g.occ)
    BY <2>5 DEF validateEmergenceSuggestions, OccurrenceOf, WorkOf
  <2>7. WorksOf(ends) \cap Tombs(k) = {}
    BY <1>1, <1>2, <2>6 DEF Sound, TombsOwnNothing, Owners
  <2>8. Follows(k, h, WorksOf(ends), {}, {}) BY <1>1, LinksFollow
  <2> QED BY <1>1, <2>7, <2>8, FollowsSound
<1>4. acceptEmergenceSuggestion(g, p, l) \in {k, h}
  BY DEF acceptEmergenceSuggestion, k, ends
<1> QED BY <1>1, <1>3, <1>4

-----------------------------------------------------------------------------
\* Every action keeps the graph valid and sound.

LEMMA FollowingStep ==
  ASSUME GraphInv, NEW h, NEW X, NEW W, NEW O, NEW op,
         Commit(op, h), Follows(graph, h, X, W, O),
         X \cap Tombs(graph) = {}, W \cap graph.purgedWorks = {}, O \cap graph.issued = {}
  PROVE  Valid(graph)' /\ Sound(graph)'
<1>1. Sound(h) BY FollowsSound DEF GraphInv
<1> QED BY <1>1, CommitSound DEF GraphInv

\* Whatever owns something was not merged away, and neither was an active work.
LEMMA LiveWorks ==
  ASSUME GraphInv
  PROVE  /\ \A b \in DOMAIN graph.branch : graph.branch[b].work \notin Tombs(graph)
         /\ \A b \in DOMAIN graph.copy : graph.copy[b].work \notin Tombs(graph)
         /\ \A r \in DOMAIN graph.rev : graph.rev[r].work \notin Tombs(graph)
         /\ \A n \in DOMAIN graph.snap : graph.snap[n].work \notin Tombs(graph)
         /\ \A o \in DOMAIN graph.occ : graph.occ[o].work \notin Tombs(graph)
         /\ \A w \in Active(graph) : w \notin Tombs(graph)
<1>1. Owners(graph) \cap Tombs(graph) = {} BY DEF GraphInv, Sound, TombsOwnNothing
<1>2. \A w \in Active(graph) : w \notin Tombs(graph) BY DEF Active, Tombs
<1>3. \A f \in {graph.branch, graph.copy, graph.rev, graph.snap, graph.occ} :
        \A x \in DOMAIN f : f[x].work \in Owners(graph)
  BY DEF Owners, WorkOf
<1> QED BY <1>1, <1>2, <1>3

LEMMA PlacingSound ==
  ASSUME GraphInv,
         \/ CreateItem \/ CreateUnplacedWork \/ CreateOccurrence \/ UpdateText
         \/ ResolveStub \/ MoveItem \/ SetOccurrenceRevision \/ DeleteItem
  PROVE  Valid(graph)' /\ Sound(graph)'
<1>0. graph \in Graphs /\ TypeOK BY DEF GraphInv, TypeOK
<1>1. CASE CreateItem
  <2>1. PICK w \in NewWorkId, b \in BranchIds, o \in NewOcc, p \in Parents, blank \in BOOLEAN :
          Run("createItem", createWorkBundle(graph, w, b, o, p, blank))
    BY ONLY <1>1 DEF CreateItem, NewBranch
  <2>2. Follows(graph, createWorkBundle(graph, w, b, o, p, blank), {w}, {w}, {o})
    BY <1>0, createWorkBundleFollows DEF NewWorkId
  <2>3. {w} \cap Tombs(graph) = {} /\ {w} \cap graph.purgedWorks = {} /\ {o} \cap graph.issued = {}
    BY DEF NewWorkId, NewOcc, Tombs
  <2> QED BY <2>1, <2>2, <2>3, FollowingStep DEF Run
<1>2. CASE CreateUnplacedWork
  <2>1. PICK w \in NewWorkId, b \in NewBranch, stub \in BOOLEAN :
          Run("createUnplacedWork", createUnplacedWork(graph, w, b, stub, stub))
    BY ONLY <1>2 DEF CreateUnplacedWork
  <2>2. Follows(graph, createUnplacedWork(graph, w, b, stub, stub), {w}, {w}, {})
    BY <1>0, createUnplacedWorkFollows
  <2>3. {w} \cap Tombs(graph) = {} /\ {w} \cap graph.purgedWorks = {} /\ {} \cap graph.issued = {}
    BY DEF NewWorkId, Tombs
  <2> QED BY <2>1, <2>2, <2>3, FollowingStep DEF Run
<1>3. CASE CreateOccurrence
  <2>1. PICK o \in NewOcc, w \in Active(graph) :
          \E p, sel : Run("createOccurrence", createOccurrence(graph, o, w, p, sel))
    BY <1>3 DEF CreateOccurrence
  <2>2. PICK p, sel : Run("createOccurrence", createOccurrence(graph, o, w, p, sel))
    BY <2>1
  <2>3. Follows(graph, createOccurrence(graph, o, w, p, sel), {w}, {}, {o})
    BY <1>0, createOccurrenceFollows
  <2>4. {w} \cap Tombs(graph) = {} /\ {} \cap graph.purgedWorks = {} /\ {o} \cap graph.issued = {}
    BY LiveWorks DEF NewOcc
  <2> QED BY <2>2, <2>3, <2>4, FollowingStep DEF Run
<1>4. CASE UpdateText
  <2>1. PICK b \in DOMAIN graph.copy, blank \in BOOLEAN :
          Run("updateText", updateBranchWorkingCopy(graph, b, blank))
    BY ONLY <1>4 DEF UpdateText
  <2>2. Follows(graph, updateBranchWorkingCopy(graph, b, blank), {}, {}, {})
    BY <1>0, updateBranchWorkingCopyFollows
  <2> QED BY <2>1, <2>2, FollowingStep DEF Run
<1>5. CASE ResolveStub
  <2>1. PICK w : Run("resolveStub", resolveWorkStub(graph, w)) BY <1>5 DEF ResolveStub
  <2>2. Follows(graph, resolveWorkStub(graph, w), {}, {}, {}) BY <1>0, WorksFollow
  <2> QED BY <2>1, <2>2, FollowingStep DEF Run
<1>6. CASE MoveItem
  <2>1. PICK o, p : Run("moveItem", [graph EXCEPT !.occ[o].parent = p]) BY <1>6 DEF MoveItem
  <2>2. Follows(graph, [graph EXCEPT !.occ[o].parent = p], {}, {}, {}) BY <1>0, OutlineFollows
  <2> QED BY <2>1, <2>2, FollowingStep DEF Run
<1>7. CASE SetOccurrenceRevision
  <2>1. PICK o, sel : Run("setOccurrenceRevision", [graph EXCEPT !.occ[o].sel = sel])
    BY <1>7 DEF SetOccurrenceRevision
  <2>2. Follows(graph, [graph EXCEPT !.occ[o].sel = sel], {}, {}, {}) BY <1>0, OutlineFollows
  <2> QED BY <2>1, <2>2, FollowingStep DEF Run
<1>8. CASE DeleteItem
  <2>1. PICK o \in DOMAIN graph.occ : Run("deleteItem", deleteItem(graph, o))
    BY <1>8 DEF DeleteItem, Items
  <2>2. Follows(graph, deleteItem(graph, o), {}, {}, {}) BY <1>0, deleteItemFollows
  <2> QED BY <2>1, <2>2, FollowingStep DEF Run
<1> QED BY <1>1, <1>2, <1>3, <1>4, <1>5, <1>6, <1>7, <1>8

LEMMA TrashAndMergeSound ==
  ASSUME GraphInv,
         \/ DiscardEmptyItems \/ TrashWork \/ ListUnplaced \/ RestoreWork
         \/ PurgeWork \/ MergeWorks
  PROVE  Valid(graph)' /\ Sound(graph)'
<1>0. graph \in Graphs /\ TypeOK /\ Valid(graph) /\ Sound(graph) BY DEF GraphInv, TypeOK
<1>1. CASE TrashWork \/ ListUnplaced
  <2>1. PICK W, op : Run(op, applyWorkTrash(graph, W)) BY <1>1 DEF TrashWork, ListUnplaced
  <2>2. Follows(graph, applyWorkTrash(graph, W), {}, {}, {}) BY <1>0, WorksFollow
  <2> QED BY <2>1, <2>2, FollowingStep DEF Run
<1>2. CASE RestoreWork
  <2>1. PICK w : Run("restoreWork", applyWorkRestore(graph, w)) BY <1>2 DEF RestoreWork
  <2>2. Follows(graph, applyWorkRestore(graph, w), {}, {}, {}) BY <1>0, applyWorkRestoreFollows
  <2> QED BY <2>1, <2>2, FollowingStep DEF Run
<1>3. CASE PurgeWork
  <2>1. PICK w \in InTrash : Run("purgeWork", applyWorkPurge(graph, w)) BY <1>3 DEF PurgeWork
  <2>2. w \in WorkIds BY <1>0, PickedIds DEF InTrash
  <2>3. Sound(applyWorkPurge(graph, w)) BY <1>0, <2>2, applyWorkPurgeSound DEF Valid
  <2> QED BY <1>0, <2>1, <2>3, CommitSound DEF Run
<1>4. CASE MergeWorks
  <2>1. PICK s \in Active(graph), t \in Active(graph) :
          s # t /\ \E first : Run("mergeWorks", applyMergeWorks(graph, s, t, first))
    BY <1>4 DEF MergeWorks
  <2>2. \A first : Sound(applyMergeWorks(graph, s, t, first))
    BY <1>0, <2>1, applyMergeWorksSound
  <2> QED BY <1>0, <2>1, <2>2, CommitSound DEF Run
<1>5. CASE DiscardEmptyItems
  <2>1. PICK O : Run("discardEmptyItems", discardEmptyItems(graph, O))
    BY ONLY <1>5 DEF DiscardEmptyItems
  <2>2. Follows(graph, discardEmptyItems(graph, O), {}, {}, {})
    BY <1>0, discardEmptyItemsFollows
  <2> QED BY <2>1, <2>2, FollowingStep DEF Run
<1> QED BY <1>1, <1>2, <1>3, <1>4, <1>5

LEMMA CitingSound ==
  ASSUME GraphInv,
         \/ CreateBookmark \/ DeleteBookmark \/ SaveResumePosition \/ ClearResumePosition
         \/ CreateLink \/ DeleteLink \/ MaterializeSuggestion \/ ResolveSuggestion
  PROVE  Valid(graph)' /\ Sound(graph)'
<1>0. graph \in Graphs /\ TypeOK /\ Valid(graph) /\ Sound(graph) BY DEF GraphInv, TypeOK
<1>1. \A o \in Placements(graph) : {graph.occ[o].work} \cap Tombs(graph) = {}
  BY LiveWorks DEF Placements
<1>2. CASE CreateBookmark
  <2>1. PICK o \in Placements(graph) : \E m :
          Run("createBookmark",
            [graph EXCEPT !.mark = Put(@, m, [work |-> graph.occ[o].work, occ |-> o])])
    BY <1>2 DEF CreateBookmark
  <2> DEFINE v == [work |-> graph.occ[o].work, occ |-> o]
  <2>2. v.work = graph.occ[o].work OBVIOUS
  <2> HIDE DEF v
  <2>3. \A m : Follows(graph, [graph EXCEPT !.mark = Put(@, m, v)],
                      {graph.occ[o].work}, {}, {})
    BY <1>0, <2>2, MarkFollows
  <2> QED BY <1>1, <2>1, <2>3, FollowingStep DEF Run, v
<1>3. CASE DeleteBookmark
  <2>1. PICK m : Run("deleteBookmark", [graph EXCEPT !.mark = Without(@, {m})])
    BY <1>3 DEF DeleteBookmark
  <2>2. Follows(graph, [graph EXCEPT !.mark = Without(@, {m})], {}, {}, {})
    BY <1>0, MarkFollows
  <2> QED BY <2>1, <2>2, FollowingStep DEF Run
<1>4. CASE SaveResumePosition
  <2>1. PICK o \in Placements(graph) :
          Run("saveResumePosition",
            [graph EXCEPT !.resume = [work |-> graph.occ[o].work, occ |-> o]])
    BY <1>4 DEF SaveResumePosition
  <2> DEFINE v == [work |-> graph.occ[o].work, occ |-> o]
  <2>2. ResumeWork(v) \cap Tombs(graph) = {} BY <1>1 DEF ResumeWork
  <2> HIDE DEF v
  <2>3. Follows(graph, [graph EXCEPT !.resume = v], ResumeWork(v), {}, {})
    BY <1>0, ResumeFollows
  <2> QED BY <2>1, <2>2, <2>3, FollowingStep DEF Run, v
<1>5. CASE ClearResumePosition
  <2>1. Run("clearResumePosition", [graph EXCEPT !.resume = None])
    BY <1>5 DEF ClearResumePosition
  <2>2. Follows(graph, [graph EXCEPT !.resume = None], {}, {}, {})
    BY <1>0, ResumeFollows DEF ResumeWork
  <2> QED BY <2>1, <2>2, FollowingStep DEF Run
<1>6. CASE CreateLink
  <2>1. PICK e \in LinkEnds(graph), f \in LinkEnds(graph) :
          \E l : Run("createLink", createLink(graph, l, {e, f}, "human"))
    BY <1>6 DEF CreateLink
  <2>2. WorksOf({e, f}) \cap Tombs(graph) = {} BY LiveWorks DEF WorksOf, LinkEnds
  <2>3. \A l : Follows(graph, createLink(graph, l, {e, f}, "human"), WorksOf({e, f}), {}, {})
    BY <1>0, LinksFollow
  <2> QED BY <2>1, <2>2, <2>3, FollowingStep DEF Run
<1>7. CASE DeleteLink
  <2>1. PICK v, w : Run("deleteLink", deleteLink(graph, v, w)) BY <1>7 DEF DeleteLink
  <2>2. Follows(graph, deleteLink(graph, v, w), {}, {}, {}) BY <1>0, LinksFollow
  <2> QED BY <2>1, <2>2, FollowingStep DEF Run
<1>8. CASE MaterializeSuggestion
  <2>1. PICK from \in DOMAIN graph.occ, to \in DOMAIN graph.occ :
          \E p : Run("materialize", upsertEmergenceSuggestion(graph, p, from, to))
    BY <1>8 DEF MaterializeSuggestion, Items
  <2>2. \A p : Sound(upsertEmergenceSuggestion(graph, p, from, to))
    BY <1>0, upsertEmergenceSuggestionSound
  <2> QED BY <1>0, <2>1, <2>2, CommitSound DEF Run
<1>9. CASE ResolveSuggestion
  <2>1. PICK p \in DOMAIN graph.sugg :
          \/ \E status :
               Run("resolveSuggestion", resolveEmergenceSuggestion(graph, p, status))
          \/ \E l \in NewLink :
               Run("acceptSuggestion", acceptEmergenceSuggestion(graph, p, l))
    BY <1>9 DEF ResolveSuggestion
  <2>2. ASSUME NEW status, Run("resolveSuggestion", resolveEmergenceSuggestion(graph, p, status))
        PROVE  Valid(graph)' /\ Sound(graph)'
    BY <1>0, <2>2, resolveEmergenceSuggestionSound, CommitSound DEF Run
  <2>3. ASSUME NEW l \in NewLink,
               Run("acceptSuggestion", acceptEmergenceSuggestion(graph, p, l))
        PROVE  Valid(graph)' /\ Sound(graph)'
    <3>1. Valid(acceptEmergenceSuggestion(graph, p, l)) =>
            Sound(acceptEmergenceSuggestion(graph, p, l))
      BY <1>0, acceptEmergenceSuggestionSound DEF NewLink, Valid
    <3> QED BY <1>0, <2>3, <3>1, CommitSound DEF Run
  <2> QED BY <2>1, <2>2, <2>3
<1> QED BY <1>2, <1>3, <1>4, <1>5, <1>6, <1>7, <1>8, <1>9

LEMMA HistorySound ==
  ASSUME GraphInv,
         \/ CreateCheckpoint \/ CreateManualMerge \/ RewriteCheckpoint \/ RewriteBranch
         \/ CreateRecoverySnapshot \/ RestoreSnapshot \/ PromoteSnapshot
  PROVE  Valid(graph)' /\ Sound(graph)'
<1>0. graph \in Graphs /\ TypeOK /\ Valid(graph) /\ Sound(graph) BY DEF GraphInv, TypeOK
<1>1. ASSUME NEW r, NEW b, NEW w, NEW P, NEW op, w \notin Tombs(graph),
             Commit(op, appendRevisionToBranch(graph, r, b, w, P))
      PROVE  Valid(graph)' /\ Sound(graph)'
  <2>1. Follows(graph, appendRevisionToBranch(graph, r, b, w, P), {w}, {}, {})
    BY <1>0, appendRevisionToBranchFollows
  <2>2. {w} \cap Tombs(graph) = {} BY <1>1
  <2> QED BY <1>1, <2>1, <2>2, FollowingStep
<1>2. CASE CreateCheckpoint
  <2>1. PICK b \in DOMAIN graph.branch :
          \E r, P : Run("createRevision",
            appendRevisionToBranch(graph, r, b, graph.branch[b].work, P))
    BY <1>2 DEF CreateCheckpoint
  <2> QED BY <1>1, <2>1, LiveWorks DEF Run
<1>3. CASE CreateManualMerge
  <2>1. PICK b \in DOMAIN graph.branch :
          \E r, P : Run("createRevision",
            appendRevisionToBranch(graph, r, b, graph.branch[b].work, P))
    BY <1>3 DEF CreateManualMerge
  <2> QED BY <1>1, <2>1, LiveWorks DEF Run
<1>4. CASE RewriteCheckpoint
  <2>1. PICK b \in DOMAIN graph.branch :
          \/ UNCHANGED graph
          \/ \E r, P : Commit("createRevision",
               appendRevisionToBranch(graph, r, b, graph.branch[b].work, P))
    BY <1>4 DEF RewriteCheckpoint
  <2>2. CASE UNCHANGED graph BY <1>0, <2>2
  <2>3. CASE \E r, P : Commit("createRevision",
               appendRevisionToBranch(graph, r, b, graph.branch[b].work, P))
    BY <1>1, <2>3, LiveWorks
  <2> QED BY <2>1, <2>2, <2>3
<1>5. CASE RewriteBranch
  <2> DEFINE w == rewriting.work
             r == rewriting.head
  <2>1. PICK b :
          /\ rewriting # None
          /\ Commit("createBranch", createBranch(graph, b, w, rewriting.name, r, rewriting.blank))
    BY <1>5 DEF RewriteBranch
  <2> DEFINE h == createBranch(graph, b, w, rewriting.name, r, rewriting.blank)
  <2>2. r \in RevIds BY <1>0, <2>1 DEF TypeOK, Rewrites
  <2>3. r # None BY <2>2, NoneAssumption
  <2>4. /\ h.branch = Put(graph.branch, b, [work |-> w, name |-> rewriting.name, head |-> r])
        /\ h.rev = graph.rev
    BY <1>0 DEF createBranch, Graphs
  <2>5. Follows(graph, h, {w}, {}, {}) BY <1>0, createBranchFollows
  <2> HIDE DEF w, r, h
  <2>6. ASSUME Valid(h) PROVE Sound(h)
    <3>1. b \in DOMAIN h.branch /\ h.branch[b].work = w /\ h.branch[b].head = r
      BY <2>4 DEF Put
    <3>2. r \in DOMAIN graph.rev /\ graph.rev[r].work = w
      BY <2>3, <2>4, <2>6, <3>1 DEF Valid, validateBranches
    <3>3. {w} \cap Tombs(graph) = {} BY <3>2, LiveWorks
    <3> QED BY <1>0, <2>5, <3>3, FollowsSound
  <2> QED BY <1>0, <2>1, <2>6, CommitSound DEF w, r, h
<1>6. CASE CreateRecoverySnapshot
  <2>1. PICK b \in DOMAIN graph.branch :
          CopyOf(graph, b) /\ \E n : Run("createSnapshot", createRecoverySnapshot(graph, n, b))
    BY <1>6 DEF CreateRecoverySnapshot
  <2>2. {graph.copy[b].work} \cap Tombs(graph) = {} BY <2>1, LiveWorks DEF CopyOf
  <2>3. \A n : Follows(graph, createRecoverySnapshot(graph, n, b), {graph.copy[b].work}, {}, {})
    BY <1>0, createRecoverySnapshotFollows
  <2> QED BY <2>1, <2>2, <2>3, FollowingStep DEF Run
<1>7. CASE RestoreSnapshot
  <2>1. PICK n \in DOMAIN graph.snap, before \in NewSnap, blank \in BOOLEAN :
          /\ InScope(graph, n)
          /\ Run("restoreSnapshot", applyRecoverySnapshotRestore(graph, n, before, blank))
    BY ONLY <1>7 DEF RestoreSnapshot
  <2> DEFINE b == graph.snap[n].branch
  <2>2. b \in DOMAIN graph.branch /\ b \in DOMAIN graph.copy BY <2>1 DEF InScope, CopyOf
  <2>3. {graph.copy[b].work} \cap Tombs(graph) = {} BY <2>2, LiveWorks
  <2>4. Follows(graph, applyRecoverySnapshotRestore(graph, n, before, blank),
                {graph.copy[b].work}, {}, {})
    BY <1>0, <2>2, applyRecoverySnapshotRestoreFollows DEF NewSnap
  <2> QED BY <2>1, <2>3, <2>4, FollowingStep DEF Run
<1>8. CASE PromoteSnapshot
  <2>1. PICK n \in DOMAIN graph.snap :
          \E r, b, P : Run("promoteSnapshot",
            appendRevisionToBranch(graph, r, b, graph.snap[n].work, P))
    BY <1>8 DEF PromoteSnapshot
  <2> QED BY <1>1, <2>1, LiveWorks DEF Run
<1> QED BY <1>2, <1>3, <1>4, <1>5, <1>6, <1>7, <1>8

-----------------------------------------------------------------------------

LEMMA InitGraphInv == Init => GraphInv
<1> SUFFICES ASSUME Init PROVE GraphInv OBVIOUS
<1>1. TypeOK BY InitTypeOK
<1>2. DOMAIN <<>> = {} OBVIOUS
<1>3. /\ \A w \in DOMAIN graph.work : graph.work[w].merged = None
      /\ Tombs(graph) = {}
  BY InitParts DEF NewWork, Tombs
<1>4. /\ validateWorks(graph) /\ validateBranches(graph) /\ validateWorkingCopies(graph)
      /\ validateOccurrences(graph) /\ validateSystemRelations(graph)
  BY <1>3, InitParts DEF validateWorks, validateBranches, validateWorkingCopies, CopyOf,
     validateOccurrences, validateSystemRelations
<1>5. /\ validateRevisions(graph) /\ validateRecoverySnapshots(graph)
      /\ assertRevisionDag(graph) /\ validateLinks(graph)
      /\ validateEmergenceSuggestions(graph) /\ validateBookmarks(graph)
      /\ validateResumePosition(graph)
  BY <1>2, InitParts DEF validateRevisions, assertRevisionDag, validateRecoverySnapshots,
     validateLinks, validateEmergenceSuggestions, validateBookmarks, validateResumePosition
<1>6. TombsOwnNothing(graph) /\ NoMergeCycle(graph)
  BY <1>3 DEF TombsOwnNothing, NoMergeCycle
<1>7. MemoryOfPurges(graph) BY <1>2, InitParts DEF MemoryOfPurges
<1> QED BY <1>1, <1>4, <1>5, <1>6, <1>7 DEF GraphInv, Valid, Sound

LEMMA NextGraphInv == GraphInv /\ [Next]_vars => GraphInv'
<1> SUFFICES ASSUME GraphInv, [Next]_vars PROVE GraphInv' OBVIOUS
<1>1. TypeOK' BY NextTypeOK DEF GraphInv
<1>2. CASE UNCHANGED vars BY <1>2 DEF vars, GraphInv, TypeOK
<1>3. CASE Next
  <2>1. Valid(graph)' /\ Sound(graph)'
    BY <1>3, PlacingSound, TrashAndMergeSound, CitingSound, HistorySound DEF Next
  <2> QED BY <1>1, <2>1 DEF GraphInv
<1> QED BY <1>2, <1>3

\* A work that was merged away keeps nothing: no branch, draft, revision,
\* snapshot, placement, mark or link ever belongs to it again, whatever the
\* services do afterwards (work_merge_service.ts, and the validation of the commit).
THEOREM TombstonesStayEmpty == Spec => []TombstonesAreEmpty
<1>1. GraphInv => TombstonesAreEmpty
  <2> SUFFICES ASSUME GraphInv, NEW w \in DOMAIN graph.work, graph.work[w].merged # None
               PROVE  /\ \A f \in {graph.branch, graph.copy, graph.rev, graph.snap,
                                   graph.occ, graph.mark} : Owned(f, w) = {}
                      /\ graph.resume # None => graph.resume.work # w
                      /\ \A l \in DOMAIN graph.link : w \notin WorksOf(graph.link[l].ends)
    BY DEF TombstonesAreEmpty
  <2>1. w \notin Owners(graph) BY DEF GraphInv, Sound, TombsOwnNothing, Tombs
  <2>2. \A f \in {graph.branch, graph.copy, graph.rev, graph.snap, graph.occ, graph.mark} :
          w \notin WorkOf(f)
    BY <2>1 DEF Owners
  <2>3. \A f : w \notin WorkOf(f) => Owned(f, w) = {} BY DEF WorkOf, Owned
  <2>4. graph.resume # None => graph.resume.work # w BY <2>1 DEF Owners, ResumeWork
  <2>5. \A l \in DOMAIN graph.link : w \notin WorksOf(graph.link[l].ends)
    BY <2>1 DEF Owners, LinkWorks
  <2> QED BY <2>2, <2>3, <2>4, <2>5
<1> QED BY <1>1, InitGraphInv, NextGraphInv, PTL DEF Spec

\* Following the works into which works were merged never comes back to where it
\* started: a merge goes from an active work to an active one, and no operation
\* undoes a merge (work_merge_service.ts).
THEOREM MergesNeverCycle == Spec => []MergeChainsEnd
<1>1. GraphInv => MergeChainsEnd
  <2> SUFFICES ASSUME GraphInv, NEW C \in SUBSET DOMAIN graph.work, C # {},
                      \A w \in C : graph.work[w].merged \in C
               PROVE  FALSE
    BY DEF MergeChainsEnd
  <2>1. None \notin C BY NoneAssumption, GraphTables DEF GraphInv, TypeOK
  <2> QED BY <2>1 DEF GraphInv, Sound, NoMergeCycle
<1> QED BY <1>1, InitGraphInv, NextGraphInv, PTL DEF Spec

-----------------------------------------------------------------------------
\* What the operations on histories do to branches, drafts, revisions, snapshots.

LEMMA appendRevisionToBranchEffect ==
  ASSUME NEW g \in Graphs, NEW r \in RevIds, NEW b \in BranchIds, NEW w \in WorkIds,
         NEW P \in SUBSET RevIds, NEW h, h = appendRevisionToBranch(g, r, b, w, P)
  PROVE  /\ DOMAIN h.branch = DOMAIN g.branch
         /\ \A x \in DOMAIN h.branch :
              /\ h.branch[x].work = g.branch[x].work /\ h.branch[x].name = g.branch[x].name
              /\ h.branch[x].head = IF x = b THEN r ELSE g.branch[x].head
         /\ DOMAIN h.rev = DOMAIN g.rev \cup {r}
         /\ h.rev[r].work = w /\ h.rev[r].parents = P
         /\ \A q \in DOMAIN g.rev \ {r} : h.rev[q] = g.rev[q]
         /\ h.copy = g.copy /\ h.snap = g.snap
<1> DEFINE v == [work |-> w, parents |-> P]
<1>1. /\ h.rev = Put(g.rev, r, v)
      /\ h.branch = [g.branch EXCEPT ![b].head = r]
      /\ h.copy = g.copy /\ h.snap = g.snap
  BY DEF appendRevisionToBranch, Graphs
<1>2. \A x \in DOMAIN g.branch :
        /\ [g.branch[x] EXCEPT !.head = r].work = g.branch[x].work
        /\ [g.branch[x] EXCEPT !.head = r].name = g.branch[x].name
        /\ [g.branch[x] EXCEPT !.head = r].head = r
  BY GraphRecords DEF BranchRecs
<1>3. /\ DOMAIN h.branch = DOMAIN g.branch
      /\ \A x \in DOMAIN h.branch :
           /\ h.branch[x].work = g.branch[x].work /\ h.branch[x].name = g.branch[x].name
           /\ h.branch[x].head = IF x = b THEN r ELSE g.branch[x].head
  BY <1>1, <1>2, GraphTables
<1>4. v.work = w /\ v.parents = P OBVIOUS
<1> HIDE DEF v
<1>5. /\ DOMAIN h.rev = DOMAIN g.rev \cup {r} /\ h.rev[r] = v
      /\ \A q \in DOMAIN g.rev \ {r} : h.rev[q] = g.rev[q]
  BY <1>1 DEF Put
<1> QED BY <1>1, <1>3, <1>4, <1>5

LEMMA createBranchEffect ==
  ASSUME NEW g \in Graphs, NEW b \in BranchIds, NEW rw \in Rewrites,
         NEW h, h = createBranch(g, b, rw.work, rw.name, rw.head, rw.blank)
  PROVE  /\ DOMAIN h.branch = DOMAIN g.branch \cup {b}
         /\ h.branch[b].work = rw.work /\ h.branch[b].name = rw.name
         /\ h.branch[b].head = rw.head
         /\ \A x \in DOMAIN g.branch \ {b} : h.branch[x] = g.branch[x]
         /\ DOMAIN h.copy = DOMAIN g.copy \cup {b} /\ h.copy[b].work = rw.work
         /\ \A x \in DOMAIN g.copy \ {b} : h.copy[x] = g.copy[x]
         /\ h.rev = g.rev /\ h.snap = g.snap
<1> DEFINE v == [work |-> rw.work, name |-> rw.name, head |-> rw.head]
           c == [work |-> rw.work, blank |-> rw.blank]
<1>1. /\ h.branch = Put(g.branch, b, v) /\ h.copy = Put(g.copy, b, c)
      /\ h.rev = g.rev /\ h.snap = g.snap
  BY DEF createBranch, Graphs
<1>2. v.work = rw.work /\ v.name = rw.name /\ v.head = rw.head /\ c.work = rw.work OBVIOUS
<1> HIDE DEF v, c
<1> QED BY <1>1, <1>2 DEF Put

LEMMA createRecoverySnapshotEffect ==
  ASSUME NEW g \in Graphs, NEW n \in SnapIds, NEW b \in BranchIds,
         NEW h, h = createRecoverySnapshot(g, n, b)
  PROVE  /\ h.branch = g.branch /\ h.copy = g.copy /\ h.rev = g.rev
         /\ DOMAIN h.snap = DOMAIN g.snap \cup {n}
         /\ h.snap[n].work = g.copy[b].work
         /\ h.snap[n].branch = b /\ h.snap[n].source = g.branch[b].head
         /\ \A m \in DOMAIN g.snap \ {n} : h.snap[m] = g.snap[m]
<1> DEFINE v == [work |-> g.copy[b].work, branch |-> b, source |-> g.branch[b].head]
<1>1. /\ h.snap = Put(g.snap, n, v)
      /\ h.branch = g.branch /\ h.copy = g.copy /\ h.rev = g.rev
  BY DEF createRecoverySnapshot, Graphs
<1>2. /\ v.work = g.copy[b].work /\ v.branch = b /\ v.source = g.branch[b].head OBVIOUS
<1> HIDE DEF v
<1> QED BY <1>1, <1>2 DEF Put

LEMMA applyRecoverySnapshotRestoreEffect ==
  ASSUME NEW g \in Graphs, NEW n \in DOMAIN g.snap, NEW before \in SnapIds,
         NEW blank \in BOOLEAN, NEW b \in BranchIds, b = g.snap[n].branch,
         b \in DOMAIN g.branch, b \in DOMAIN g.copy,
         NEW h, h = applyRecoverySnapshotRestore(g, n, before, blank)
  PROVE  /\ h.branch = g.branch /\ h.rev = g.rev
         /\ DOMAIN h.copy = DOMAIN g.copy
         /\ \A x \in DOMAIN h.copy : h.copy[x].work = g.copy[x].work
         /\ DOMAIN h.snap = DOMAIN g.snap \cup {before}
         /\ h.snap[before].work = g.copy[b].work
         /\ h.snap[before].branch = b /\ h.snap[before].source = g.branch[b].head
         /\ \A m \in DOMAIN g.snap \ {before} : h.snap[m] = g.snap[m]
<1>1. PICK k : k = createRecoverySnapshot(g, before, b) OBVIOUS
<1>2. k \in Graphs BY <1>1, createRecoverySnapshotType
<1>3. /\ k.branch = g.branch /\ k.copy = g.copy /\ k.rev = g.rev
      /\ DOMAIN k.snap = DOMAIN g.snap \cup {before}
      /\ k.snap[before].work = g.copy[b].work
      /\ k.snap[before].branch = b /\ k.snap[before].source = g.branch[b].head
      /\ \A m \in DOMAIN g.snap \ {before} : k.snap[m] = g.snap[m]
  BY <1>1, createRecoverySnapshotEffect
<1>4. h = updateBranchWorkingCopy(k, b, blank) BY <1>1 DEF applyRecoverySnapshotRestore
<1>5. /\ h.copy = [k.copy EXCEPT ![b].blank = blank]
      /\ h.branch = k.branch /\ h.rev = k.rev /\ h.snap = k.snap
  BY <1>2, <1>4 DEF updateBranchWorkingCopy, Graphs
<1>6. \A x \in DOMAIN g.copy : [g.copy[x] EXCEPT !.blank = blank].work = g.copy[x].work
  BY GraphRecords DEF CopyRecs
<1>7. DOMAIN h.copy = DOMAIN g.copy /\ \A x \in DOMAIN h.copy : h.copy[x].work = g.copy[x].work
  BY <1>3, <1>5, <1>6, GraphTables
<1> QED BY <1>3, <1>5, <1>7

\* The ways in which histories change, each with ids of the right kind.
LEMMA HistoryChangeKinds ==
  ASSUME NEW g \in Graphs, NEW h, HistoryChange(g, h)
  PROVE  \/ \E b \in DOMAIN g.branch, r \in RevIds \ DOMAIN g.rev, P \in SUBSET DOMAIN g.rev :
              /\ g.branch[b].head \in P \cup {None}
              /\ b \in BranchIds /\ g.branch[b].work \in WorkIds /\ P \in SUBSET RevIds
              /\ h = appendRevisionToBranch(g, r, b, g.branch[b].work, P)
         \/ \E n \in DOMAIN g.snap, r \in RevIds \ DOMAIN g.rev :
              /\ g.snap[n].branch \in BranchIds /\ g.snap[n].work \in WorkIds
              /\ PromotionParents(g, n) \in SUBSET RevIds
              /\ h = appendRevisionToBranch(g, r, g.snap[n].branch, g.snap[n].work,
                                            PromotionParents(g, n))
         \/ \E b \in BranchIds \ DOMAIN g.branch, rw \in Rewrites :
              h = createBranch(g, b, rw.work, rw.name, rw.head, rw.blank)
         \/ \E b \in DOMAIN g.branch, n \in SnapIds \ DOMAIN g.snap :
              /\ b \in BranchIds /\ b \in DOMAIN g.copy /\ h = createRecoverySnapshot(g, n, b)
         \/ \E n \in DOMAIN g.snap, before \in SnapIds \ DOMAIN g.snap, blank \in BOOLEAN,
               b \in BranchIds :
              /\ b = g.snap[n].branch /\ b \in DOMAIN g.branch /\ b \in DOMAIN g.copy
              /\ h = applyRecoverySnapshotRestore(g, n, before, blank)
<1>1. /\ DOMAIN g.branch \subseteq BranchIds /\ DOMAIN g.rev \subseteq RevIds
      /\ \A b \in DOMAIN g.branch : g.branch[b].work \in WorkIds
      /\ \A n \in DOMAIN g.snap : g.snap[n].branch \in BranchIds /\ g.snap[n].work \in WorkIds
  BY GraphTables, GraphRecords DEF BranchRecs, SnapRecs
<1>2. \A n \in DOMAIN g.snap : PromotionParents(g, n) \in SUBSET RevIds
  BY <1>1 DEF PromotionParents
<1> QED BY <1>1, <1>2 DEF HistoryChange

-----------------------------------------------------------------------------
\* Main branches.

MainExists(g) ==
  \A w \in DOMAIN g.work : g.work[w].merged = None =>
    \E b \in Mains(g, w) : CopyOf(g, b)

MainIsUnique(g) ==
  \A b, c \in DOMAIN g.branch :
    g.branch[b].name = "main" /\ g.branch[c].name = "main"
      /\ g.branch[b].work = g.branch[c].work => b = c

\* No work comes, goes or is merged, and the branches and drafts keep their work.
BranchesStay(g, h) ==
  /\ DOMAIN h.work = DOMAIN g.work
  /\ \A w \in DOMAIN h.work : h.work[w].merged = g.work[w].merged
  /\ \A b \in DOMAIN g.branch :
       /\ b \in DOMAIN h.branch /\ h.branch[b].work = g.branch[b].work
       /\ h.branch[b].name = g.branch[b].name
  /\ \A b \in DOMAIN g.copy : b \in DOMAIN h.copy /\ h.copy[b].work = g.copy[b].work

NoNewMain(g, h) ==
  \A b \in DOMAIN h.branch : h.branch[b].name = "main" =>
    /\ b \in DOMAIN g.branch /\ g.branch[b].name = "main"
    /\ h.branch[b].work = g.branch[b].work

LEMMA StayingMains ==
  ASSUME NEW g, NEW h
  PROVE  /\ MainExists(g) /\ BranchesStay(g, h) => MainExists(h)
         /\ MainIsUnique(g) /\ NoNewMain(g, h) => MainIsUnique(h)
<1>1. ASSUME MainExists(g), BranchesStay(g, h), NEW w \in DOMAIN h.work, h.work[w].merged = None
      PROVE  \E b \in Mains(h, w) : CopyOf(h, b)
  <2>1. PICK b \in Mains(g, w) : CopyOf(g, b) BY <1>1 DEF MainExists, BranchesStay
  <2>2. b \in Mains(h, w) /\ CopyOf(h, b) BY <1>1, <2>1 DEF BranchesStay, Mains, CopyOf
  <2> QED BY <2>2
<1>2. ASSUME MainIsUnique(g), NoNewMain(g, h) PROVE MainIsUnique(h)
  BY <1>2 DEF MainIsUnique, NoNewMain
<1> QED BY <1>1, <1>2 DEF MainExists

LEMMA HistoryBranchesStay ==
  ASSUME NEW g \in Graphs, Valid(g), NEW h, HistoryChange(g, h)
  PROVE  /\ BranchesStay(g, h)
         /\ "main" \notin RewriteNames => NoNewMain(g, h)
         /\ DOMAIN g.snap \subseteq DOMAIN h.snap
         /\ \A q \in DOMAIN g.rev : q \in DOMAIN h.rev /\ h.rev[q].work = g.rev[q].work
<1>0. h.work = g.work BY HistoryKeeps
<1>1. CASE \E b \in BranchIds, r \in RevIds \ DOMAIN g.rev, w \in WorkIds, P \in SUBSET RevIds :
             h = appendRevisionToBranch(g, r, b, w, P)
  <2>1. PICK b \in BranchIds, r \in RevIds \ DOMAIN g.rev, w \in WorkIds, P \in SUBSET RevIds :
          h = appendRevisionToBranch(g, r, b, w, P)
    BY <1>1
  <2>2. /\ DOMAIN h.branch = DOMAIN g.branch
        /\ \A x \in DOMAIN h.branch :
             h.branch[x].work = g.branch[x].work /\ h.branch[x].name = g.branch[x].name
        /\ DOMAIN h.rev = DOMAIN g.rev \cup {r}
        /\ \A q \in DOMAIN g.rev \ {r} : h.rev[q] = g.rev[q]
        /\ h.copy = g.copy /\ h.snap = g.snap
    BY <2>1, appendRevisionToBranchEffect
  <2> QED BY <1>0, <2>1, <2>2 DEF BranchesStay, NoNewMain
<1>2. CASE \E b \in BranchIds \ DOMAIN g.branch, rw \in Rewrites :
             h = createBranch(g, b, rw.work, rw.name, rw.head, rw.blank)
  <2>1. PICK b \in BranchIds \ DOMAIN g.branch, rw \in Rewrites :
          h = createBranch(g, b, rw.work, rw.name, rw.head, rw.blank)
    BY <1>2
  <2>2. /\ DOMAIN h.branch = DOMAIN g.branch \cup {b} /\ h.branch[b].name = rw.name
        /\ h.branch[b].work = rw.work
        /\ \A x \in DOMAIN g.branch \ {b} : h.branch[x] = g.branch[x]
        /\ DOMAIN h.copy = DOMAIN g.copy \cup {b} /\ h.copy[b].work = rw.work
        /\ \A x \in DOMAIN g.copy \ {b} : h.copy[x] = g.copy[x]
        /\ h.rev = g.rev /\ h.snap = g.snap
    BY <2>1, createBranchEffect
  <2>3. rw.name \in RewriteNames BY DEF Rewrites
  <2>4. b \notin DOMAIN g.copy BY DEF Valid, validateWorkingCopies, CopyOf
  <2> QED BY <1>0, <2>1, <2>2, <2>3, <2>4 DEF BranchesStay, NoNewMain
<1>3. CASE \E n \in SnapIds, b \in BranchIds : h = createRecoverySnapshot(g, n, b)
  <2>1. PICK n \in SnapIds, b \in BranchIds : h = createRecoverySnapshot(g, n, b) BY <1>3
  <2>2. /\ h.branch = g.branch /\ h.copy = g.copy /\ h.rev = g.rev
        /\ DOMAIN h.snap = DOMAIN g.snap \cup {n}
    BY <2>1, createRecoverySnapshotEffect
  <2> QED BY <1>0, <2>2 DEF BranchesStay, NoNewMain
<1>4. CASE \E n \in DOMAIN g.snap, before \in SnapIds, blank \in BOOLEAN, b \in BranchIds :
             /\ b = g.snap[n].branch /\ b \in DOMAIN g.branch /\ b \in DOMAIN g.copy
             /\ h = applyRecoverySnapshotRestore(g, n, before, blank)
  <2>1. PICK n \in DOMAIN g.snap, before \in SnapIds, blank \in BOOLEAN, b \in BranchIds :
          /\ b = g.snap[n].branch /\ b \in DOMAIN g.branch /\ b \in DOMAIN g.copy
          /\ h = applyRecoverySnapshotRestore(g, n, before, blank)
    BY <1>4
  <2>2. h = applyRecoverySnapshotRestore(g, n, before, blank) BY <2>1
  <2>3. /\ h.branch = g.branch /\ h.rev = g.rev
        /\ DOMAIN h.copy = DOMAIN g.copy
        /\ \A x \in DOMAIN h.copy : h.copy[x].work = g.copy[x].work
        /\ DOMAIN h.snap = DOMAIN g.snap \cup {before}
    BY <2>1, <2>2, applyRecoverySnapshotRestoreEffect
  <2> QED BY <1>0, <2>3 DEF BranchesStay, NoNewMain
<1> QED BY <1>1, <1>2, <1>3, <1>4, HistoryChangeKinds

LEMMA WorkChangeMains ==
  ASSUME NEW g \in Graphs, Valid(g), NEW h, WorkChange(g, h)
  PROVE  /\ MainExists(g) => MainExists(h)
         /\ MainIsUnique(g) => MainIsUnique(h)
<1>1. CASE \E w \in WorkIds \ DOMAIN g.work, b \in BranchIds \ DOMAIN g.branch :
             AddsWork(g, h, w, b)
  <2>1. PICK w \in WorkIds \ DOMAIN g.work, b \in BranchIds \ DOMAIN g.branch :
          AddsWork(g, h, w, b)
    BY <1>1
  <2>2. b \notin DOMAIN g.copy /\ \A x \in DOMAIN g.branch : g.branch[x].work # w
    BY <2>1 DEF Valid, validateBranches, validateWorkingCopies, CopyOf
  <2>3. ASSUME MainExists(g), NEW x \in DOMAIN h.work, h.work[x].merged = None
        PROVE  \E c \in Mains(h, x) : CopyOf(h, c)
    <3>1. CASE x = w
      <4>1. b \in Mains(h, w) /\ CopyOf(h, b) BY <2>1 DEF AddsWork, Mains, CopyOf
      <4> QED BY <3>1, <4>1
    <3>2. CASE x # w
      <4>1. PICK c \in Mains(g, x) : CopyOf(g, c)
        BY <2>1, <2>3, <3>2 DEF AddsWork, MainExists
      <4>2. c \in Mains(h, x) /\ CopyOf(h, c)
        BY <2>1, <2>2, <4>1 DEF AddsWork, Mains, CopyOf
      <4> QED BY <4>2
    <3> QED BY <3>1, <3>2
  <2>4. ASSUME MainIsUnique(g) PROVE MainIsUnique(h)
    BY <2>1, <2>2, <2>4 DEF AddsWork, MainIsUnique
  <2> QED BY <2>3, <2>4 DEF MainExists
<1>2. CASE \E w \in WorkIds : h = applyWorkPurge(g, w)
  <2>1. PICK w \in WorkIds : h = applyWorkPurge(g, w) BY <1>2
  <2>2. /\ h.work = Without(g.work, {w})
        /\ h.branch = Without(g.branch, Owned(g.branch, w))
        /\ h.copy = Without(g.copy, Owned(g.copy, w) \cup Owned(g.branch, w))
    <3>1. h.work = Without(g.work, {w}) BY <2>1, applyWorkPurgeEffect
    <3>2. h.branch = Without(g.branch, Owned(g.branch, w)) BY <2>1, applyWorkPurgeEffect
    <3>3. h.copy = Without(g.copy, Owned(g.copy, w) \cup Owned(g.branch, w))
      BY <2>1, applyWorkPurgeEffect
    <3> QED BY <3>1, <3>2, <3>3
  <2>3. ASSUME MainExists(g), NEW x \in DOMAIN h.work, h.work[x].merged = None
        PROVE  \E c \in Mains(h, x) : CopyOf(h, c)
    <3>1. x # w /\ x \in DOMAIN g.work /\ g.work[x].merged = None
      BY <2>2, <2>3 DEF Without
    <3>2. PICK c \in Mains(g, x) : CopyOf(g, c) BY <2>3, <3>1 DEF MainExists
    <3>3. c \in Mains(h, x) /\ CopyOf(h, c)
      BY <2>2, <3>1, <3>2 DEF Without, Owned, Mains, CopyOf
    <3> QED BY <3>3
  <2>4. NoNewMain(g, h) BY <2>2 DEF Without, NoNewMain
  <2> QED BY <2>3, <2>4, StayingMains DEF MainExists
<1>3. CASE \E s, t \in WorkIds, first \in [DOMAIN g.link -> DOMAIN g.link] :
             /\ s \in Active(g) /\ t \in Active(g) /\ s # t
             /\ h = applyMergeWorks(g, s, t, first)
  <2>1. PICK s \in WorkIds, t \in WorkIds, first \in [DOMAIN g.link -> DOMAIN g.link] :
          /\ s \in Active(g) /\ t \in Active(g) /\ s # t
          /\ h = applyMergeWorks(g, s, t, first)
    BY <1>3
  <2>2. /\ DOMAIN h.work = DOMAIN g.work
        /\ \A x \in DOMAIN h.work : h.work[x].merged = IF x = s THEN t ELSE g.work[x].merged
        /\ h.branch = rewireMergedBranches(g.branch, s, t)
        /\ h.copy = reassignWorkId(g.copy, s, t)
    BY <2>1, applyMergeWorksEffect
  <2>3. t # None BY <2>1, NoneAssumption
  <2>4. \A b \in DOMAIN g.branch :
          /\ [g.branch[b] EXCEPT !.work = t, !.name = "merged"].name = "merged"
          /\ [g.branch[b] EXCEPT !.work = t, !.name = "merged"].work = t
    BY GraphRecords DEF BranchRecs
  <2>5. /\ DOMAIN h.branch = DOMAIN g.branch /\ DOMAIN h.copy = DOMAIN g.copy
        /\ \A b \in DOMAIN g.branch :
             IF g.branch[b].work = s THEN h.branch[b].name = "merged" ELSE h.branch[b] = g.branch[b]
        /\ \A b \in DOMAIN g.copy : g.copy[b].work # s => h.copy[b] = g.copy[b]
    BY <2>2, <2>4 DEF rewireMergedBranches, reassignWorkId
  <2>6. ASSUME MainExists(g), NEW x \in DOMAIN h.work, h.work[x].merged = None
        PROVE  \E c \in Mains(h, x) : CopyOf(h, c)
    <3>1. x # s /\ x \in DOMAIN g.work /\ g.work[x].merged = None
      BY <2>2, <2>3, <2>6
    <3>2. PICK c \in Mains(g, x) : CopyOf(g, c) BY <2>6, <3>1 DEF MainExists
    <3>3. c \in Mains(h, x) /\ CopyOf(h, c) BY <2>5, <3>1, <3>2 DEF Mains, CopyOf
    <3> QED BY <3>3
  <2>7. NoNewMain(g, h)
    <3>1. \A b \in DOMAIN h.branch : h.branch[b].name = "main" => h.branch[b] = g.branch[b]
      BY <2>5
    <3> QED BY <2>5, <3>1 DEF NoNewMain
  <2> QED BY <2>6, <2>7, StayingMains DEF MainExists
<1> QED BY <1>1, <1>2, <1>3, WorkChangeKinds

LEMMA StepMains ==
  ASSUME GraphInv, [Next]_vars
  PROVE  /\ MainExists(graph) => MainExists(graph')
         /\ "main" \notin RewriteNames /\ MainIsUnique(graph) => MainIsUnique(graph')
<1>0. graph \in Graphs /\ graph' \in Graphs /\ Valid(graph) /\ Change(graph, graph')
  BY StepChange, NextTypeOK DEF GraphInv, TypeOK
<1>1. CASE WorkChange(graph, graph') BY <1>0, <1>1, WorkChangeMains
<1>2. CASE ~WorkChange(graph, graph')
  <2>1. /\ BranchesStay(graph, graph')
        /\ "main" \notin RewriteNames => NoNewMain(graph, graph')
    <3>1. CASE Still(graph, graph') BY <3>1 DEF Still, BranchesStay, NoNewMain
    <3>2. CASE OutlineChange(graph, graph')
      BY <1>0, <3>2, OutlineKeeps DEF BranchesStay, NoNewMain
    <3>3. CASE LinkChange(graph, graph')
      BY <1>0, <3>3, LinksKeep DEF BranchesStay, NoNewMain
    <3>4. CASE HistoryChange(graph, graph') BY <1>0, <3>4, HistoryBranchesStay
    <3> QED BY <1>0, <1>2, <3>1, <3>2, <3>3, <3>4 DEF Change
  <2> QED BY <2>1, StayingMains
<1> QED BY <1>1, <1>2

LEMMA MainsExist == Spec => [](GraphInv /\ MainExists(graph))
<1>1. Init => MainExists(graph) BY InitParts DEF MainExists, Mains, CopyOf
<1>2. GraphInv /\ MainExists(graph) /\ [Next]_vars => MainExists(graph)' BY StepMains
<1> QED BY <1>1, <1>2, InitGraphInv, NextGraphInv, PTL DEF Spec

\* A work that was not merged away has exactly one main branch, with a draft: what
\* the services require before they do anything with a work (branch_service.ts,
\* requireUniqueMain).  The code keeps it as long as no rewrite is named main.
THEOREM MainsAreUnique ==
  ASSUME "main" \notin RewriteNames
  PROVE  Spec => []UniqueMain
<1>1. Init => MainIsUnique(graph) BY InitParts DEF MainIsUnique
<1>2. GraphInv /\ MainIsUnique(graph) /\ [Next]_vars => MainIsUnique(graph)' BY StepMains
<1>3. MainExists(graph) /\ MainIsUnique(graph) => UniqueMain
  <2> SUFFICES ASSUME MainExists(graph), MainIsUnique(graph),
                      NEW w \in DOMAIN graph.work, graph.work[w].merged = None
               PROVE  \E b \in DOMAIN graph.branch : Mains(graph, w) = {b} /\ CopyOf(graph, b)
    BY DEF UniqueMain
  <2>1. PICK b \in Mains(graph, w) : CopyOf(graph, b) BY DEF MainExists
  <2>2. \A c \in Mains(graph, w) : c = b BY DEF Mains, MainIsUnique
  <2> QED BY <2>1, <2>2 DEF Mains
<1> QED BY <1>1, <1>2, <1>3, MainsExist, PTL DEF Spec

-----------------------------------------------------------------------------
(***************************************************************************)
(* Placements: deletions, discards and purges take some away; every other  *)
(* operation keeps them all, and an item it gives a parent that is not     *)
(* there is new, or is all that it changes.                                *)
(***************************************************************************)
Grows(g, h) ==
  /\ DOMAIN g.occ \subseteq DOMAIN h.occ
  /\ \A o \in Items(h) :
       \/ o \in Items(g) /\ h.occ[o].parent = g.occ[o].parent
       \/ h.occ[o].parent \in DOMAIN h.occ \cup {None}
       \/ o \notin DOMAIN g.occ
       \/ h = [g EXCEPT !.occ[o].parent = h.occ[o].parent]

\* A table of placements with one more, or with a changed one.
LEMMA PlacedGrows ==
  ASSUME NEW g \in Graphs, NEW h, h.work = g.work, NEW o, o \in DOMAIN h.occ,
         DOMAIN h.occ = DOMAIN g.occ \cup {o},
         h.occ[o].parent \in DOMAIN g.occ \cup {None},
         \A x \in DOMAIN g.occ \ {o} : h.occ[x] = g.occ[x]
  PROVE  Grows(g, h)
BY DEF Grows, Items

LEMMA OutlineGrows ==
  ASSUME NEW g \in Graphs, NEW h, OutlineChange(g, h),
         \A o \in Items(g) : h # deleteItem(g, o),
         \A O \in SUBSET EmptyItems(g) : h # discardEmptyItems(g, O)
  PROVE  Grows(g, h)
<1>0. /\ Items(g) \subseteq DOMAIN g.occ /\ Active(g) \subseteq WorkIds
      /\ DOMAIN g.work \subseteq WorkIds
  BY GraphTables DEF Items, Active
<1>1. CASE \E o \in OccIds, w \in Active(g), p \in Items(g) \cup {None} :
             \E sel : h = createOccurrence(g, o, w, p, sel)
  <2>1. PICK o \in OccIds, w \in Active(g), p \in Items(g) \cup {None} :
          \E sel : h = createOccurrence(g, o, w, p, sel)
    BY <1>1
  <2>1a. PICK sel : h = createOccurrence(g, o, w, p, sel) BY <2>1
  <2> DEFINE v == [work |-> w, parent |-> p, sel |-> sel]
  <2>2. h.work = g.work /\ h.occ = Put(g.occ, o, v)
    BY <2>1a DEF createOccurrence, Graphs
  <2>3. v.parent = p OBVIOUS
  <2> HIDE DEF v
  <2>4. /\ DOMAIN h.occ = DOMAIN g.occ \cup {o} /\ h.occ[o] = v
        /\ \A x \in DOMAIN g.occ \ {o} : h.occ[x] = g.occ[x]
    BY <2>2 DEF Put
  <2> QED BY <1>0, <2>2, <2>3, <2>4, PlacedGrows
<1>2. CASE \E w \in Active(g) : h = resolveWorkStub(g, w)
  <2>1. PICK w \in Active(g) : h = resolveWorkStub(g, w) BY <1>2
  <2>2. /\ h.occ = g.occ /\ DOMAIN h.work = DOMAIN g.work
        /\ \A x \in DOMAIN h.work : h.work[x].deleted = g.work[x].deleted
    BY <1>0, <2>1, resolveWorkStubEffect
  <2> QED BY <2>2 DEF Grows, Items
<1>3. CASE \E o \in Items(g), p \in g.issued \cup {None} : h = [g EXCEPT !.occ[o].parent = p]
  <2>1. PICK o \in Items(g), p \in g.issued \cup {None} : h = [g EXCEPT !.occ[o].parent = p]
    BY <1>3
  <2>2. h.work = g.work /\ h.occ = [g.occ EXCEPT ![o].parent = p] BY <2>1 DEF Graphs
  <2>3. [g.occ[o] EXCEPT !.parent = p].parent = p BY <1>0, GraphRecords DEF OccRecs
  <2>4. /\ DOMAIN h.occ = DOMAIN g.occ /\ h.occ[o].parent = p
        /\ \A x \in DOMAIN g.occ \ {o} : h.occ[x] = g.occ[x]
    BY <1>0, <2>2, <2>3, GraphTables
  <2>5. h = [g EXCEPT !.occ[o].parent = h.occ[o].parent] BY <2>1, <2>4
  <2> QED BY <2>2, <2>4, <2>5 DEF Grows, Items
<1>4. CASE \E o \in Items(g) : \E sel : h = [g EXCEPT !.occ[o].sel = sel]
  <2>1. PICK o \in Items(g) : \E sel : h = [g EXCEPT !.occ[o].sel = sel] BY <1>4
  <2>1a. PICK sel : h = [g EXCEPT !.occ[o].sel = sel] BY <2>1
  <2>2. h.work = g.work /\ h.occ = [g.occ EXCEPT ![o].sel = sel] BY <2>1a DEF Graphs
  <2>3. /\ [g.occ[o] EXCEPT !.sel = sel].parent = g.occ[o].parent
        /\ [g.occ[o] EXCEPT !.sel = sel].work = g.occ[o].work
    BY <1>0, GraphRecords DEF OccRecs
  <2>4. /\ DOMAIN h.occ = DOMAIN g.occ
        /\ \A x \in DOMAIN h.occ :
             h.occ[x].parent = g.occ[x].parent /\ h.occ[x].work = g.occ[x].work
    BY <1>0, <2>2, <2>3, GraphTables
  <2> QED BY <2>2, <2>4 DEF Grows, Items
<1>5. CASE \E W \in SUBSET WorkIds : h = applyWorkTrash(g, W)
  <2>1. PICK W \in SUBSET WorkIds : h = applyWorkTrash(g, W) BY <1>5
  <2>2. /\ h.occ = g.occ /\ DOMAIN h.work = DOMAIN g.work
        /\ \A x \in DOMAIN h.work : h.work[x].deleted <=> x \in W \/ g.work[x].deleted
    BY <2>1, applyWorkTrashEffect
  <2> QED BY <2>2 DEF Grows, Items
<1>6. CASE \E w \in WorkIds : h = applyWorkRestore(g, w)
  <2>1. PICK w \in WorkIds : h = applyWorkRestore(g, w) BY <1>6
  <2>2. /\ DOMAIN h.work = DOMAIN g.work
        /\ \A x \in DOMAIN h.work : h.work[x].deleted <=> x # w /\ g.work[x].deleted
        /\ DOMAIN h.occ = DOMAIN g.occ
        /\ \A o \in DOMAIN h.occ :
             /\ h.occ[o].work = g.occ[o].work
             /\ IF g.occ[o].work = w
                  THEN h.occ[o].parent \in DOMAIN h.occ \cup {None}
                  ELSE h.occ[o].parent = g.occ[o].parent
    BY <2>1, applyWorkRestoreEffect
  <2> QED BY <2>2 DEF Grows, Items
<1>7. /\ \A o \in Items(g) : {g.occ[o].work} \in SUBSET WorkIds
      /\ StaleBlankWorks(g) \in SUBSET WorkIds
  BY <1>0, GraphRecords DEF OccRecs, StaleBlankWorks, Unplaced
<1> QED BY <1>0, <1>1, <1>2, <1>3, <1>4, <1>5, <1>6, <1>7 DEF OutlineChange

LEMMA WorkChangeGrows ==
  ASSUME NEW g \in Graphs, Valid(g), DOMAIN g.occ \subseteq g.issued, NEW h, WorkChange(g, h),
         \A w \in DOMAIN g.work : g.work[w].deleted => h # applyWorkPurge(g, w)
  PROVE  Grows(g, h)
<1>0. \A o \in DOMAIN g.occ : g.occ[o].work \in DOMAIN g.work
  BY DEF Valid, validateOccurrences
<1>1. CASE \E w \in WorkIds \ DOMAIN g.work, b \in BranchIds, stub \in BOOLEAN, blank \in BOOLEAN :
             h = createUnplacedWork(g, w, b, stub, blank)
  <2>1. PICK w \in WorkIds \ DOMAIN g.work, b \in BranchIds, stub \in BOOLEAN, blank \in BOOLEAN :
          h = createUnplacedWork(g, w, b, stub, blank)
    BY <1>1
  <2>2. AddsWork(g, h, w, b) /\ h.occ = g.occ BY <2>1, createUnplacedWorkAdds
  <2>3. \A o \in DOMAIN g.occ : h.work[g.occ[o].work] = g.work[g.occ[o].work]
    BY <1>0, <2>1, <2>2 DEF AddsWork
  <2> QED BY <1>0, <2>2, <2>3 DEF Grows, Items
<1>2. CASE \E w \in WorkIds \ DOMAIN g.work, b \in BranchIds, o \in OccIds \ g.issued,
              p \in g.issued \cup {None}, blank \in BOOLEAN :
             h = createWorkBundle(g, w, b, o, p, blank)
  <2>1. PICK w \in WorkIds \ DOMAIN g.work, b \in BranchIds, o \in OccIds \ g.issued,
             p \in g.issued \cup {None}, blank \in BOOLEAN :
          h = createWorkBundle(g, w, b, o, p, blank)
    BY <1>2
  <2>2. /\ AddsWork(g, h, w, b)
        /\ DOMAIN h.occ = DOMAIN g.occ \cup {o} /\ h.occ[o].parent = p
        /\ \A x \in DOMAIN g.occ \ {o} : h.occ[x] = g.occ[x]
    BY <2>1, createWorkBundleAdds
  <2>3. o \notin DOMAIN g.occ OBVIOUS
  <2>4. \A x \in DOMAIN g.occ : h.work[g.occ[x].work] = g.work[g.occ[x].work]
    BY <1>0, <2>1, <2>2 DEF AddsWork
  <2> QED BY <1>0, <2>2, <2>3, <2>4 DEF Grows, Items
<1>3. CASE \E s, t \in Active(g), first \in [DOMAIN g.link -> DOMAIN g.link] :
             h = applyMergeWorks(g, s, t, first)
  <2>1. PICK s \in Active(g), t \in Active(g), first \in [DOMAIN g.link -> DOMAIN g.link] :
          h = applyMergeWorks(g, s, t, first)
    BY <1>3
  <2>2. /\ s \in WorkIds /\ s \in DOMAIN g.work /\ ~g.work[s].deleted
        /\ t \in WorkIds /\ t \in DOMAIN g.work /\ ~g.work[t].deleted
    BY GraphTables DEF Active
  <2>3. /\ DOMAIN h.work = DOMAIN g.work
        /\ \A x \in DOMAIN h.work : h.work[x].deleted = g.work[x].deleted
        /\ h.occ = reassignWorkId(g.occ, s, t)
    <3>1. h = applyMergeWorks(g, s, t, first) BY <2>1
    <3> QED BY <2>2, <3>1, applyMergeWorksEffect
  <2>4. \A x \in DOMAIN g.occ : /\ [g.occ[x] EXCEPT !.work = t].parent = g.occ[x].parent
                                /\ [g.occ[x] EXCEPT !.work = t].work = t
    BY GraphRecords DEF OccRecs
  <2>5. /\ DOMAIN h.occ = DOMAIN g.occ
        /\ \A x \in DOMAIN h.occ :
             /\ h.occ[x].parent = g.occ[x].parent
             /\ h.occ[x].work = IF g.occ[x].work = s THEN t ELSE g.occ[x].work
    BY <2>3, <2>4 DEF reassignWorkId
  <2> QED BY <2>2, <2>3, <2>5 DEF Grows, Items
<1> QED BY <1>1, <1>2, <1>3 DEF WorkChange

LEMMA StepPlacements ==
  ASSUME GraphInv, [Next]_vars
  PROVE  \/ Grows(graph, graph')
         \/ \E o \in Items(graph) : graph' = deleteItem(graph, o)
         \/ \E O \in SUBSET EmptyItems(graph) : graph' = discardEmptyItems(graph, O)
         \/ \E w \in DOMAIN graph.work :
              graph.work[w].deleted /\ graph' = applyWorkPurge(graph, w)
<1>0. /\ graph \in Graphs /\ Valid(graph) /\ Change(graph, graph')
      /\ DOMAIN graph.occ \subseteq graph.issued
  BY StepChange DEF GraphInv, TypeOK, Sound, MemoryOfPurges
<1>1. ASSUME graph'.work = graph.work, graph'.occ = graph.occ PROVE Grows(graph, graph')
  BY <1>1 DEF Grows, Items
<1>2. CASE Still(graph, graph') BY <1>1, <1>2 DEF Still
<1>3. CASE OutlineChange(graph, graph') BY <1>0, <1>3, OutlineGrows
<1>4. CASE WorkChange(graph, graph') BY <1>0, <1>4, WorkChangeGrows
<1>5. CASE LinkChange(graph, graph') BY <1>0, <1>1, <1>5, LinksKeep
<1>6. CASE HistoryChange(graph, graph') BY <1>0, <1>1, <1>6, HistoryKeeps
<1> QED BY <1>0, <1>2, <1>3, <1>4, <1>5, <1>6 DEF Change

LEMMA deleteItemPlacements ==
  ASSUME NEW g \in Graphs, NEW o \in DOMAIN g.occ, NEW h, h = deleteItem(g, o)
  PROVE  /\ DOMAIN h.occ = DOMAIN g.occ \ {o}
         /\ \A c \in DOMAIN h.occ :
              /\ h.occ[c].work = g.occ[c].work
              /\ h.occ[c].parent = IF c \in Items(g) /\ g.occ[c].parent = o
                                     THEN g.occ[o].parent ELSE g.occ[c].parent
<1> DEFINE p == g.occ[o].parent
           f == [c \in DOMAIN g.occ \ {o} |->
                   IF c \in Items(g) /\ g.occ[c].parent = o
                     THEN [g.occ[c] EXCEPT !.parent = p] ELSE g.occ[c]]
<1>1. h.occ = deleteOccurrenceWithPromotion(g, o).occ BY deleteItemKeeps
<1>2. h.occ = f BY <1>1 DEF deleteOccurrenceWithPromotion, Graphs
<1>3. \A c \in DOMAIN g.occ : /\ [g.occ[c] EXCEPT !.parent = p].parent = p
                              /\ [g.occ[c] EXCEPT !.parent = p].work = g.occ[c].work
  BY GraphRecords DEF OccRecs
<1> QED BY <1>2, <1>3

\* A discard spares what has children in the outline.
LEMMA DiscardMakesNoOrphans ==
  ASSUME NEW g \in Graphs, NEW O \in SUBSET EmptyItems(g), NEW h, h = discardEmptyItems(g, O)
  PROVE  Orphans(h) \subseteq Orphans(g) /\ \A o \in Orphans(h) : h.occ[o] = g.occ[o]
<1>1. /\ h.occ = Without(g.occ, O) /\ DOMAIN h.work = DOMAIN g.work
      /\ \A w \in DOMAIN h.work : g.work[w].deleted => h.work[w].deleted
  BY deleteItemKeeps
<1>2. DOMAIN h.occ = DOMAIN g.occ \ O /\ \A o \in DOMAIN h.occ : h.occ[o] = g.occ[o]
  BY <1>1 DEF Without
<1>3. Items(h) \subseteq Items(g) BY <1>1, <1>2 DEF Items
<1>4. \A o \in O, c \in Items(g) : g.occ[c].parent # o BY DEF EmptyItems
<1> QED BY <1>2, <1>3, <1>4 DEF Orphans, Items

\* No operation leaves an item under a parent that is gone, but a placing that
\* names such a parent, and the deletion of an item that was its own parent, and
\* then of its children (occurrence_operations.ts, memory_work_lifecycle.ts).
THEOREM OrphansComeFromPlacings == Spec => OnlyPlacingMakesOrphans
<1>1. ASSUME GraphInv, [Next]_vars, NEW o \in Orphans(graph')
      PROVE  LET p == graph'.occ[o].parent IN
               IF p \in DOMAIN graph.occ THEN graph.occ[p].parent = p
               ELSE \/ \E q \in Orphans(graph) : graph.occ[q].parent = p
                    \/ o \notin DOMAIN graph.occ
                    \/ graph' = [graph EXCEPT !.occ[o].parent = p]
  <2>0. /\ graph \in Graphs /\ o \in Items(graph')
        /\ graph'.occ[o].parent \notin DOMAIN graph'.occ \cup {None}
    BY <1>1 DEF Orphans, GraphInv, TypeOK
  <2>1. CASE Grows(graph, graph')
    BY <2>0, <2>1 DEF Grows, Orphans
  <2>2. CASE \E d \in Items(graph) : graph' = deleteItem(graph, d)
    <3>1. PICK d \in Items(graph) : graph' = deleteItem(graph, d) BY <2>2
    <3>2. d \in DOMAIN graph.occ BY DEF Items
    <3>3. /\ DOMAIN graph'.work = DOMAIN graph.work
          /\ \A w \in DOMAIN graph'.work : graph.work[w].deleted => graph'.work[w].deleted
      BY <2>0, <3>1, <3>2, deleteItemKeeps
    <3>4. /\ DOMAIN graph'.occ = DOMAIN graph.occ \ {d}
          /\ \A c \in DOMAIN graph'.occ :
               /\ graph'.occ[c].work = graph.occ[c].work
               /\ graph'.occ[c].parent = IF c \in Items(graph) /\ graph.occ[c].parent = d
                                           THEN graph.occ[d].parent ELSE graph.occ[c].parent
      BY <2>0, <3>1, <3>2, deleteItemPlacements
    <3>5. o \in Items(graph) BY <2>0, <3>3, <3>4 DEF Items
    <3>6. o \in DOMAIN graph'.occ BY <2>0 DEF Items
    <3> QED BY <2>0, <3>1, <3>2, <3>4, <3>5, <3>6 DEF Orphans
  <2>3. CASE \E O \in SUBSET EmptyItems(graph) : graph' = discardEmptyItems(graph, O)
    <3>1. o \in Orphans(graph) /\ graph'.occ[o] = graph.occ[o]
      BY <2>0, <2>3, <1>1, DiscardMakesNoOrphans
    <3> QED BY <3>1 DEF Orphans
  <2>4. CASE \E w \in DOMAIN graph.work : graph' = applyWorkPurge(graph, w)
    <3>1. PICK w \in DOMAIN graph.work : graph' = applyWorkPurge(graph, w) BY <2>4
    <3>2. w \in WorkIds BY <2>0, GraphTables
    <3>3. \A c \in DOMAIN graph'.occ : graph'.occ[c].parent \in DOMAIN graph'.occ \cup {None}
      BY <2>0, <3>1, <3>2, applyWorkPurgeEffect
    <3> QED BY <2>0, <3>3 DEF Items
  <2> QED BY <1>1, <2>1, <2>2, <2>3, <2>4, StepPlacements
<1>2. GraphInv /\ [Next]_vars =>
        [\A o \in Orphans(graph') :
           LET p == graph'.occ[o].parent IN
             IF p \in DOMAIN graph.occ THEN graph.occ[p].parent = p
             ELSE \/ \E q \in Orphans(graph) : graph.occ[q].parent = p
                  \/ o \notin DOMAIN graph.occ
                  \/ graph' = [graph EXCEPT !.occ[o].parent = p] ]_vars
  BY <1>1
<1> QED BY <1>2, InitGraphInv, NextGraphInv, PTL DEF Spec, OnlyPlacingMakesOrphans

-----------------------------------------------------------------------------
\* What disappears.

\* Nothing but placements can be missing from h.
OnlyPlacementsGo(g, h) ==
  /\ DOMAIN g.work \subseteq DOMAIN h.work /\ DOMAIN g.branch \subseteq DOMAIN h.branch
  /\ DOMAIN g.copy \subseteq DOMAIN h.copy /\ DOMAIN g.rev \subseteq DOMAIN h.rev
  /\ DOMAIN g.snap \subseteq DOMAIN h.snap

\* What is missing from h belongs to a work in the trash of g, placements aside.
OnlyTrashGoes(g, h) ==
  /\ \A w \in DOMAIN g.work \ DOMAIN h.work : g.work[w].deleted
  /\ \A b \in DOMAIN g.branch \ DOMAIN h.branch : g.work[g.branch[b].work].deleted
  /\ \A b \in DOMAIN g.copy \ DOMAIN h.copy : g.work[g.copy[b].work].deleted
  /\ \A r \in DOMAIN g.rev \ DOMAIN h.rev : g.work[g.rev[r].work].deleted
  /\ \A n \in DOMAIN g.snap \ DOMAIN h.snap : g.work[g.snap[n].work].deleted

LEMMA applyWorkPurgeTakesTrash ==
  ASSUME NEW g \in Graphs, Valid(g), NEW w \in WorkIds, g.work[w].deleted,
         NEW h, h = applyWorkPurge(g, w)
  PROVE  /\ OnlyTrashGoes(g, h)
         /\ \A o \in DOMAIN g.occ \ DOMAIN h.occ : g.work[g.occ[o].work].deleted
<1>1. /\ h.work = Without(g.work, {w})
      /\ h.branch = Without(g.branch, Owned(g.branch, w))
      /\ h.copy = Without(g.copy, Owned(g.copy, w) \cup Owned(g.branch, w))
      /\ h.rev = Without(g.rev, Owned(g.rev, w))
      /\ h.snap = Without(g.snap, Owned(g.snap, w))
      /\ DOMAIN h.occ = DOMAIN g.occ \ Owned(g.occ, w)
  BY applyWorkPurgeEffect
<1>2. \A b \in DOMAIN g.copy : b \in DOMAIN g.branch /\ g.copy[b].work = g.branch[b].work
  BY DEF Valid, validateWorkingCopies, CopyOf
<1> QED BY <1>1, <1>2 DEF OnlyTrashGoes, Without, Owned

LEMMA WorkChangeKeepsAll ==
  ASSUME NEW g \in Graphs, Valid(g), NEW h, WorkChange(g, h)
  PROVE  OnlyTrashGoes(g, h)
<1>0. OnlyPlacementsGo(g, h) => OnlyTrashGoes(g, h) BY DEF OnlyPlacementsGo, OnlyTrashGoes
<1>1. CASE \E w \in WorkIds \ DOMAIN g.work, b \in BranchIds \ DOMAIN g.branch :
             AddsWork(g, h, w, b)
  BY <1>0, <1>1 DEF AddsWork, OnlyPlacementsGo
<1>2. CASE \E w \in WorkIds : g.work[w].deleted /\ w \in DOMAIN g.work /\ h = applyWorkPurge(g, w)
  BY <1>2, applyWorkPurgeTakesTrash
<1>3. CASE \E s, t \in WorkIds, first \in [DOMAIN g.link -> DOMAIN g.link] :
             h = applyMergeWorks(g, s, t, first)
  <2>1. PICK s \in WorkIds, t \in WorkIds, first \in [DOMAIN g.link -> DOMAIN g.link] :
          h = applyMergeWorks(g, s, t, first)
    BY <1>3
  <2>2. /\ DOMAIN h.work = DOMAIN g.work
        /\ h.branch = rewireMergedBranches(g.branch, s, t)
        /\ h.copy = reassignWorkId(g.copy, s, t)
        /\ h.rev = reassignWorkId(g.rev, s, t)
        /\ h.snap = reassignWorkId(g.snap, s, t)
    BY <2>1, applyMergeWorksEffect
  <2> QED BY <1>0, <2>2 DEF OnlyPlacementsGo, rewireMergedBranches, reassignWorkId
<1> QED BY <1>1, <1>2, <1>3, WorkChangeKinds

LEMMA StepKeepsAll ==
  ASSUME GraphInv, [Next]_vars
  PROVE  OnlyTrashGoes(graph, graph')
<1>0. graph \in Graphs /\ Valid(graph) /\ Change(graph, graph')
  BY StepChange DEF GraphInv, TypeOK
<1>1. OnlyPlacementsGo(graph, graph') => OnlyTrashGoes(graph, graph')
  BY DEF OnlyPlacementsGo, OnlyTrashGoes
<1>2. CASE Still(graph, graph') BY <1>1, <1>2 DEF Still, OnlyPlacementsGo
<1>3. CASE OutlineChange(graph, graph')
  BY <1>0, <1>1, <1>3, OutlineKeeps DEF OnlyPlacementsGo
<1>4. CASE WorkChange(graph, graph') BY <1>0, <1>4, WorkChangeKeepsAll
<1>5. CASE LinkChange(graph, graph')
  BY <1>0, <1>1, <1>5, LinksKeep DEF OnlyPlacementsGo
<1>6. CASE HistoryChange(graph, graph')
  BY <1>0, <1>1, <1>6, HistoryBranchesStay DEF OnlyPlacementsGo, BranchesStay
<1> QED BY <1>0, <1>2, <1>3, <1>4, <1>5, <1>6 DEF Change

\* Placements: the work of an item that is deleted or discarded keeps its main branch.
LEMMA StepKeepsMains ==
  ASSUME GraphInv, MainExists(graph), [Next]_vars, NEW o \in DOMAIN graph.occ \ DOMAIN graph'.occ
  PROVE  graph.work[graph.occ[o].work].deleted \/ Mains(graph', graph.occ[o].work) # {}
<1>0. graph \in Graphs /\ Valid(graph) BY DEF GraphInv, TypeOK
<1>1. CASE Grows(graph, graph') BY <1>1 DEF Grows
<1>2. CASE \E d \in Items(graph) : graph' = deleteItem(graph, d)
  <2>1. PICK d \in Items(graph) : graph' = deleteItem(graph, d) BY <1>2
  <2>2. d \in DOMAIN graph.occ BY DEF Items
  <2>3. o = d /\ graph'.branch = graph.branch
    BY <1>0, <2>1, <2>2, deleteItemKeeps, deleteItemPlacements
  <2> DEFINE w == graph.occ[o].work
  <2>4. w \in DOMAIN graph.work BY <2>1, <2>3 DEF Items
  <2>5. graph.work[w].merged = None BY <2>4, LiveWorks DEF Tombs
  <2>6. PICK b \in Mains(graph, w) : TRUE BY <2>4, <2>5 DEF MainExists
  <2>7. b \in Mains(graph', w) BY <2>3, <2>6 DEF Mains
  <2> QED BY <2>7
<1>3. CASE \E O \in SUBSET EmptyItems(graph) : graph' = discardEmptyItems(graph, O)
  <2>1. PICK O \in SUBSET EmptyItems(graph) : graph' = discardEmptyItems(graph, O) BY <1>3
  <2>2. graph'.branch = graph.branch /\ graph'.occ = Without(graph.occ, O)
    BY <1>0, <2>1, deleteItemKeeps
  <2>3. o \in O BY <2>2 DEF Without
  <2> DEFINE w == graph.occ[o].work
  <2>4. w \in DOMAIN graph.work BY <2>3 DEF EmptyItems, BlankItems, Items
  <2>5. graph.work[w].merged = None BY <2>4, LiveWorks DEF Tombs
  <2>6. PICK b \in Mains(graph, w) : TRUE BY <2>4, <2>5 DEF MainExists
  <2>7. b \in Mains(graph', w) BY <2>2, <2>6 DEF Mains
  <2> QED BY <2>7
<1>4. CASE \E w \in DOMAIN graph.work :
             graph.work[w].deleted /\ graph' = applyWorkPurge(graph, w)
  <2>1. PICK w \in DOMAIN graph.work : graph.work[w].deleted /\ graph' = applyWorkPurge(graph, w)
    BY <1>4
  <2>2. w \in WorkIds BY <1>0, GraphTables
  <2> QED BY <1>0, <2>1, <2>2, applyWorkPurgeTakesTrash
<1> QED BY <1>1, <1>2, <1>3, <1>4, StepPlacements

\* Outside the trash nothing is lost: what disappears belongs to a work that is
\* purged from the trash, but for a placement whose work keeps its main branch
\* (memory_work_lifecycle.ts, memory_work_merge.ts, occurrence_operations.ts).
THEOREM OnlyTrashIsLost == Spec => NothingLostOutsideTrash
<1>1. GraphInv /\ MainExists(graph) /\ [Next]_vars =>
        [ /\ \A w \in DOMAIN graph.work \ DOMAIN graph'.work : graph.work[w].deleted
          /\ \A b \in DOMAIN graph.branch \ DOMAIN graph'.branch :
               graph.work[graph.branch[b].work].deleted
          /\ \A b \in DOMAIN graph.copy \ DOMAIN graph'.copy :
               graph.work[graph.copy[b].work].deleted
          /\ \A r \in DOMAIN graph.rev \ DOMAIN graph'.rev :
               graph.work[graph.rev[r].work].deleted
          /\ \A n \in DOMAIN graph.snap \ DOMAIN graph'.snap :
               graph.work[graph.snap[n].work].deleted
          /\ \A o \in DOMAIN graph.occ \ DOMAIN graph'.occ :
               \/ graph.work[graph.occ[o].work].deleted
               \/ Mains(graph', graph.occ[o].work) # {} ]_vars
  BY StepKeepsAll, StepKeepsMains DEF OnlyTrashGoes
<1> QED BY <1>1, MainsExist, PTL DEF Spec, NothingLostOutsideTrash

-----------------------------------------------------------------------------
(***************************************************************************)
(* Histories.  A promoted snapshot may hang under a revision the head does *)
(* not descend from, so that comparing the head with its successor is not  *)
(* inductive: the next snapshot to be promoted could belong to another     *)
(* history.  What is kept is one revision that the head and the sources of *)
(* all snapshots of the branch descend from.                               *)
(***************************************************************************)
Tips(g, b) ==
  ({g.branch[b].head} \cup {g.snap[n].source : n \in {n \in DOMAIN g.snap : g.snap[n].branch = b}})
    \ {None}

CommonRoots(g) ==
  \A b \in DOMAIN g.branch :
    /\ g.branch[b].head = None => Tips(g, b) = {}
    /\ \E root : \A x \in Tips(g, b) : root \in Lineage(g, x)

HeadsShare(g, h) ==
  \A b \in DOMAIN g.branch \cap DOMAIN h.branch :
    LET x == g.branch[b].head
        y == h.branch[b].head
    IN  x # None => y # None /\ Lineage(h, x) \cap Lineage(h, y) # {}

\* A revision descends from itself, and from what its parents descend from.
LEMMA LineageOfParent ==
  ASSUME NEW g, NEW r \in DOMAIN g.rev
  PROVE  /\ r \in Lineage(g, r)
         /\ \A p \in g.rev[r].parents : Lineage(g, p) \subseteq Lineage(g, r)
BY DEF Lineage

\* Revisions that stay, with their parents, still descend from what they did.
LEMMA LineageKept ==
  ASSUME NEW g, NEW h, NEW D, D \subseteq DOMAIN g.rev, D \subseteq DOMAIN h.rev,
         \A q \in D : g.rev[q].parents \subseteq D /\ h.rev[q].parents = g.rev[q].parents,
         NEW x \in D
  PROVE  Lineage(g, x) \subseteq Lineage(h, x)
<1> SUFFICES ASSUME NEW p \in Lineage(g, x) PROVE p \in Lineage(h, x) OBVIOUS
<1>1. p \in D
  <2>1. D \in SUBSET DOMAIN g.rev OBVIOUS
  <2> QED BY <2>1 DEF Lineage
<1>2. ASSUME NEW C \in SUBSET DOMAIN h.rev, x \in C, \A q \in C : h.rev[q].parents \subseteq C
      PROVE  p \in C
  <2>1. C \cap D \in SUBSET DOMAIN g.rev /\ x \in C \cap D BY <1>2
  <2>2. \A q \in C \cap D : g.rev[q].parents \subseteq C \cap D BY <1>2
  <2>3. p \in C \cap D BY <2>1, <2>2 DEF Lineage
  <2> QED BY <2>3
<1> QED BY <1>1, <1>2 DEF Lineage

LEMMA TipsAreRevisions ==
  ASSUME NEW g \in Graphs, Valid(g)
  PROVE  /\ \A b \in DOMAIN g.branch :
              /\ Tips(g, b) \subseteq DOMAIN g.rev
              /\ \A x \in Tips(g, b) : g.rev[x].work = g.branch[b].work
         /\ \A q \in DOMAIN g.rev : g.rev[q].parents \subseteq DOMAIN g.rev
         /\ \A n \in DOMAIN g.snap : g.snap[n].branch \in DOMAIN g.branch
         /\ None \notin DOMAIN g.rev
<1>1. None \notin DOMAIN g.rev BY GraphTables, NoneAssumption
<1> QED BY <1>1 DEF Valid, validateBranches, validateRevisions, validateRecoverySnapshots, Tips

\* Steps that leave the heads alone.
LEMMA SteadyHeads ==
  ASSUME NEW g, CommonRoots(g), NEW h \in Graphs, Valid(h),
         \A b \in DOMAIN h.branch :
           \/ /\ b \in DOMAIN g.branch /\ h.branch[b].head = g.branch[b].head
              /\ Tips(h, b) \subseteq Tips(g, b)
              /\ \A x \in Tips(h, b) : Lineage(g, x) \subseteq Lineage(h, x)
           \/ /\ b \notin DOMAIN g.branch
              /\ Tips(h, b) \subseteq {h.branch[b].head}
  PROVE  CommonRoots(h) /\ HeadsShare(g, h)
<1>1. \A b \in DOMAIN h.branch : \A x \in Tips(h, b) : x \in Lineage(h, x)
  BY TipsAreRevisions, LineageOfParent
<1>2. ASSUME NEW b \in DOMAIN h.branch
      PROVE  /\ h.branch[b].head = None => Tips(h, b) = {}
             /\ \E root : \A x \in Tips(h, b) : root \in Lineage(h, x)
  <2>1. CASE b \in DOMAIN g.branch BY <2>1 DEF CommonRoots
  <2>2. CASE b \notin DOMAIN g.branch
    <3>1. \A x \in Tips(h, b) : x = h.branch[b].head BY <2>2
    <3>2. None \notin Tips(h, b) BY DEF Tips
    <3> QED BY <1>1, <3>1, <3>2
  <2> QED BY <2>1, <2>2
<1>3. HeadsShare(g, h)
  <2> SUFFICES ASSUME NEW b \in DOMAIN g.branch \cap DOMAIN h.branch, g.branch[b].head # None
               PROVE  /\ h.branch[b].head # None
                      /\ Lineage(h, g.branch[b].head) \cap Lineage(h, h.branch[b].head) # {}
    BY DEF HeadsShare
  <2>1. h.branch[b].head = g.branch[b].head OBVIOUS
  <2>2. h.branch[b].head \in Tips(h, b) BY <2>1 DEF Tips
  <2> QED BY <1>1, <2>1, <2>2
<1> QED BY <1>2, <1>3 DEF CommonRoots

LEMMA SameHistories ==
  ASSUME NEW g, CommonRoots(g), NEW h \in Graphs, Valid(h),
         h.branch = g.branch, h.rev = g.rev, h.snap = g.snap
  PROVE  CommonRoots(h) /\ HeadsShare(g, h)
<1>1. \A b : Tips(h, b) = Tips(g, b) BY DEF Tips
<1>2. \A x : Lineage(h, x) = Lineage(g, x) BY DEF Lineage
<1> QED BY <1>1, <1>2, SteadyHeads

\* A new head under a tip of its branch, if it has any.
LEMMA AppendedHead ==
  ASSUME NEW g \in Graphs, Valid(g), CommonRoots(g),
         NEW r \in RevIds \ DOMAIN g.rev, NEW b \in DOMAIN g.branch, NEW w \in WorkIds,
         NEW P \in SUBSET RevIds, Tips(g, b) # {} => P \cap Tips(g, b) # {},
         NEW h \in Graphs, Valid(h), h = appendRevisionToBranch(g, r, b, w, P)
  PROVE  CommonRoots(h) /\ HeadsShare(g, h)
<1>1. b \in BranchIds /\ r \in RevIds /\ r # None BY GraphTables, NoneAssumption
<1>2. /\ DOMAIN h.branch = DOMAIN g.branch
      /\ \A x \in DOMAIN h.branch :
           h.branch[x].head = IF x = b THEN r ELSE g.branch[x].head
      /\ DOMAIN h.rev = DOMAIN g.rev \cup {r}
      /\ h.rev[r].parents = P
      /\ \A q \in DOMAIN g.rev \ {r} : h.rev[q] = g.rev[q]
      /\ h.snap = g.snap
  BY <1>1, appendRevisionToBranchEffect
<1>3. ASSUME NEW x \in DOMAIN g.rev PROVE Lineage(g, x) \subseteq Lineage(h, x)
  <2>1. \A q \in DOMAIN g.rev :
          g.rev[q].parents \subseteq DOMAIN g.rev /\ h.rev[q].parents = g.rev[q].parents
    BY <1>2, TipsAreRevisions
  <2> QED BY <1>2, <2>1, LineageKept
<1>4. \A c \in DOMAIN g.branch \ {b} : Tips(h, c) = Tips(g, c) BY <1>2 DEF Tips
<1>5. Tips(h, b) \subseteq Tips(g, b) \cup {r} BY <1>2 DEF Tips
<1>6. \E root \in Lineage(h, r) : \A x \in Tips(g, b) : root \in Lineage(h, x)
  <2>1. CASE Tips(g, b) = {} BY <1>2, <2>1, LineageOfParent
  <2>2. CASE Tips(g, b) # {}
    <3>1. PICK p \in Tips(g, b) : p \in P BY <2>2
    <3>2. PICK root : \A x \in Tips(g, b) : root \in Lineage(g, x) BY DEF CommonRoots
    <3>3. \A x \in Tips(g, b) : root \in Lineage(h, x) BY <1>3, <3>2, TipsAreRevisions
    <3>4. Lineage(h, p) \subseteq Lineage(h, r) BY <1>2, <3>1, LineageOfParent
    <3> QED BY <3>1, <3>3, <3>4
  <2> QED BY <2>1, <2>2
<1>7. ASSUME NEW c \in DOMAIN h.branch
      PROVE  /\ h.branch[c].head = None => Tips(h, c) = {}
             /\ \E root : \A x \in Tips(h, c) : root \in Lineage(h, x)
  <2>1. CASE c = b BY <1>1, <1>2, <1>5, <1>6, <2>1
  <2>2. CASE c # b
    <3>1. /\ c \in DOMAIN g.branch /\ Tips(h, c) = Tips(g, c)
          /\ h.branch[c].head = g.branch[c].head
      BY <1>2, <1>4, <2>2
    <3>2. PICK root : \A x \in Tips(g, c) : root \in Lineage(g, x) BY <3>1 DEF CommonRoots
    <3>3. \A x \in Tips(h, c) : root \in Lineage(h, x) BY <1>3, <3>1, <3>2, TipsAreRevisions
    <3> QED BY <3>1, <3>3 DEF CommonRoots
  <2> QED BY <2>1, <2>2
<1>8. HeadsShare(g, h)
  <2> SUFFICES ASSUME NEW c \in DOMAIN g.branch, g.branch[c].head # None
               PROVE  /\ h.branch[c].head # None
                      /\ Lineage(h, g.branch[c].head) \cap Lineage(h, h.branch[c].head) # {}
    BY DEF HeadsShare
  <2>1. g.branch[c].head \in Tips(g, c) BY DEF Tips
  <2>2. CASE c = b BY <1>1, <1>2, <1>6, <2>1, <2>2
  <2>3. CASE c # b
    <3>1. g.branch[c].head \in DOMAIN h.rev /\ h.branch[c].head = g.branch[c].head
      BY <1>2, <2>1, <2>3, TipsAreRevisions
    <3>2. g.branch[c].head \in Lineage(h, g.branch[c].head) BY <3>1, LineageOfParent
    <3> QED BY <3>1, <3>2
  <2> QED BY <2>2, <2>3
<1> QED BY <1>7, <1>8 DEF CommonRoots

LEMMA HistoryRoots ==
  ASSUME NEW g \in Graphs, Valid(g), CommonRoots(g), NEW h, HistoryChange(g, h),
         h \in Graphs, Valid(h)
  PROVE  CommonRoots(h) /\ HeadsShare(g, h)
<1>1. CASE \E b \in DOMAIN g.branch, r \in RevIds \ DOMAIN g.rev, P \in SUBSET RevIds :
             /\ g.branch[b].head \in P \cup {None} /\ g.branch[b].work \in WorkIds
             /\ h = appendRevisionToBranch(g, r, b, g.branch[b].work, P)
  <2>1. PICK b \in DOMAIN g.branch, r \in RevIds \ DOMAIN g.rev, P \in SUBSET RevIds, w \in WorkIds :
          /\ g.branch[b].head \in P \cup {None}
          /\ h = appendRevisionToBranch(g, r, b, w, P)
    BY <1>1
  <2>2. Tips(g, b) # {} => P \cap Tips(g, b) # {} BY <2>1 DEF CommonRoots, Tips
  <2>3. h = appendRevisionToBranch(g, r, b, w, P) BY <2>1
  <2> QED BY <2>2, <2>3, AppendedHead
<1>2. CASE \E n \in DOMAIN g.snap, r \in RevIds \ DOMAIN g.rev :
             /\ g.snap[n].work \in WorkIds /\ PromotionParents(g, n) \in SUBSET RevIds
             /\ h = appendRevisionToBranch(g, r, g.snap[n].branch, g.snap[n].work,
                                           PromotionParents(g, n))
  <2>1. PICK n \in DOMAIN g.snap, r \in RevIds \ DOMAIN g.rev :
             /\ g.snap[n].work \in WorkIds /\ PromotionParents(g, n) \in SUBSET RevIds
             /\ h = appendRevisionToBranch(g, r, g.snap[n].branch, g.snap[n].work,
                                           PromotionParents(g, n))
    BY <1>2
  <2>2. PICK b \in DOMAIN g.branch, w \in WorkIds, P \in SUBSET RevIds :
          b = g.snap[n].branch /\ w = g.snap[n].work /\ P = PromotionParents(g, n)
    BY <2>1, TipsAreRevisions
  <2>3. h = appendRevisionToBranch(g, r, b, w, P) BY <2>1, <2>2
  <2>4. g.branch[b].work = w BY <2>2 DEF Valid, validateRecoverySnapshots
  <2>5. Tips(g, b) # {} => P \cap Tips(g, b) # {}
    <3> DEFINE s == g.snap[n].source
               x == g.branch[b].head
    <3>1. s # None => s \in Tips(g, b) BY <2>2 DEF Tips
    <3>2. Tips(g, b) # {} => x \in Tips(g, b) BY DEF CommonRoots, Tips
    <3>3. \A y \in Tips(g, b) : y \in DOMAIN g.rev /\ g.rev[y].work = w
      BY <2>4, TipsAreRevisions
    <3>4. s \in DOMAIN g.rev => s # None BY TipsAreRevisions
    <3>5. P = IF s \in DOMAIN g.rev /\ g.rev[s].work = w THEN {s}
              ELSE IF x \in DOMAIN g.rev /\ g.rev[x].work = w THEN {x} ELSE {}
      BY <2>2 DEF PromotionParents
    <3> HIDE DEF s, x
    <3> QED BY <3>1, <3>2, <3>3, <3>4, <3>5
  <2> QED BY <2>3, <2>5, AppendedHead
<1>3. CASE \E b \in BranchIds \ DOMAIN g.branch, rw \in Rewrites :
             h = createBranch(g, b, rw.work, rw.name, rw.head, rw.blank)
  <2>1. PICK b \in BranchIds \ DOMAIN g.branch, rw \in Rewrites :
          h = createBranch(g, b, rw.work, rw.name, rw.head, rw.blank)
    BY <1>3
  <2>2. /\ DOMAIN h.branch = DOMAIN g.branch \cup {b}
        /\ \A x \in DOMAIN g.branch \ {b} : h.branch[x] = g.branch[x]
        /\ h.rev = g.rev /\ h.snap = g.snap
    BY <2>1, createBranchEffect
  <2>3. Tips(h, b) \subseteq {h.branch[b].head} BY <2>1, <2>2, TipsAreRevisions DEF Tips
  <2>4. \A c \in DOMAIN g.branch : h.branch[c].head = g.branch[c].head /\ Tips(h, c) = Tips(g, c)
    BY <2>1, <2>2 DEF Tips
  <2>5. \A x : Lineage(h, x) = Lineage(g, x) BY <2>2 DEF Lineage
  <2> QED BY <2>1, <2>2, <2>3, <2>4, <2>5, SteadyHeads
<1>4. CASE \E b \in DOMAIN g.branch, m \in SnapIds \ DOMAIN g.snap :
             /\ h.branch = g.branch /\ h.rev = g.rev
             /\ DOMAIN h.snap = DOMAIN g.snap \cup {m}
             /\ h.snap[m].branch = b /\ h.snap[m].source = g.branch[b].head
             /\ \A k \in DOMAIN g.snap \ {m} : h.snap[k] = g.snap[k]
  <2>1. PICK b \in DOMAIN g.branch, m \in SnapIds \ DOMAIN g.snap :
             /\ h.branch = g.branch /\ h.rev = g.rev
             /\ DOMAIN h.snap = DOMAIN g.snap \cup {m}
             /\ h.snap[m].branch = b /\ h.snap[m].source = g.branch[b].head
             /\ \A k \in DOMAIN g.snap \ {m} : h.snap[k] = g.snap[k]
    BY <1>4
  <2>2. \A c : Tips(h, c) \subseteq Tips(g, c) BY <2>1 DEF Tips
  <2>3. \A x : Lineage(h, x) = Lineage(g, x) BY <2>1 DEF Lineage
  <2> QED BY <2>1, <2>2, <2>3, SteadyHeads
<1>5. CASE \E b \in DOMAIN g.branch, n \in SnapIds \ DOMAIN g.snap :
             b \in BranchIds /\ h = createRecoverySnapshot(g, n, b)
  <2>1. PICK b \in DOMAIN g.branch, n \in SnapIds \ DOMAIN g.snap :
          b \in BranchIds /\ h = createRecoverySnapshot(g, n, b)
    BY <1>5
  <2>2. n \in SnapIds /\ b \in BranchIds /\ h = createRecoverySnapshot(g, n, b) BY <2>1
  <2>3. /\ h.branch = g.branch /\ h.rev = g.rev
        /\ DOMAIN h.snap = DOMAIN g.snap \cup {n}
        /\ h.snap[n].branch = b /\ h.snap[n].source = g.branch[b].head
        /\ \A m \in DOMAIN g.snap \ {n} : h.snap[m] = g.snap[m]
    BY <2>2, createRecoverySnapshotEffect
  <2> QED BY <1>4, <2>3
<1>6. CASE \E n \in DOMAIN g.snap, before \in SnapIds \ DOMAIN g.snap, blank \in BOOLEAN,
              b \in BranchIds :
             /\ b = g.snap[n].branch /\ b \in DOMAIN g.branch /\ b \in DOMAIN g.copy
             /\ h = applyRecoverySnapshotRestore(g, n, before, blank)
  <2>1. PICK n \in DOMAIN g.snap, before \in SnapIds \ DOMAIN g.snap, blank \in BOOLEAN,
             b \in BranchIds :
          /\ b = g.snap[n].branch /\ b \in DOMAIN g.branch /\ b \in DOMAIN g.copy
          /\ h = applyRecoverySnapshotRestore(g, n, before, blank)
    BY <1>6
  <2>2. before \in SnapIds /\ h = applyRecoverySnapshotRestore(g, n, before, blank) BY <2>1
  <2>3. /\ h.branch = g.branch /\ h.rev = g.rev
        /\ DOMAIN h.snap = DOMAIN g.snap \cup {before}
        /\ h.snap[before].branch = b /\ h.snap[before].source = g.branch[b].head
        /\ \A m \in DOMAIN g.snap \ {before} : h.snap[m] = g.snap[m]
    BY <2>1, <2>2, applyRecoverySnapshotRestoreEffect
  <2> QED BY <1>4, <2>1, <2>3
<1>7. DOMAIN g.rev \subseteq RevIds BY GraphTables
<1> QED BY <1>1, <1>2, <1>3, <1>5, <1>6, HistoryChangeKinds

LEMMA WorkChangeRoots ==
  ASSUME NEW g \in Graphs, Valid(g), CommonRoots(g), NEW h, WorkChange(g, h),
         h \in Graphs, Valid(h)
  PROVE  CommonRoots(h) /\ HeadsShare(g, h)
<1>1. CASE \E w \in WorkIds \ DOMAIN g.work, b \in BranchIds \ DOMAIN g.branch :
             AddsWork(g, h, w, b)
  <2>1. PICK w \in WorkIds \ DOMAIN g.work, b \in BranchIds \ DOMAIN g.branch :
          AddsWork(g, h, w, b)
    BY <1>1
  <2>2. /\ DOMAIN h.branch = DOMAIN g.branch \cup {b}
        /\ \A x \in DOMAIN g.branch \ {b} : h.branch[x] = g.branch[x]
        /\ h.rev = g.rev /\ h.snap = g.snap
    BY <2>1 DEF AddsWork
  <2>3. Tips(h, b) \subseteq {h.branch[b].head} BY <2>1, <2>2, TipsAreRevisions DEF Tips
  <2>4. \A c \in DOMAIN g.branch : h.branch[c].head = g.branch[c].head /\ Tips(h, c) = Tips(g, c)
    BY <2>1, <2>2 DEF Tips
  <2>5. \A x : Lineage(h, x) = Lineage(g, x) BY <2>2 DEF Lineage
  <2> QED BY <2>1, <2>2, <2>3, <2>4, <2>5, SteadyHeads
<1>2. CASE \E w \in WorkIds : h = applyWorkPurge(g, w)
  <2>1. PICK w \in WorkIds : h = applyWorkPurge(g, w) BY <1>2
  <2>2. /\ h.branch = Without(g.branch, Owned(g.branch, w))
        /\ h.rev = Without(g.rev, Owned(g.rev, w))
        /\ h.snap = Without(g.snap, Owned(g.snap, w))
    <3>1. g \in Graphs /\ w \in WorkIds OBVIOUS
    <3> QED BY ONLY <2>1, <3>1, applyWorkPurgeEffect
  <2>3. ASSUME NEW b \in DOMAIN h.branch
        PROVE  /\ b \in DOMAIN g.branch /\ h.branch[b].head = g.branch[b].head
               /\ Tips(h, b) \subseteq Tips(g, b)
    <3>1. b \in DOMAIN g.branch /\ h.branch[b] = g.branch[b] BY <2>2 DEF Without
    <3>2. DOMAIN h.snap \subseteq DOMAIN g.snap /\ \A n \in DOMAIN h.snap : h.snap[n] = g.snap[n]
      BY <2>2 DEF Without
    <3> QED BY <3>1, <3>2 DEF Tips
  <2>4. ASSUME NEW b \in DOMAIN h.branch, NEW x \in Tips(h, b)
        PROVE  Lineage(g, x) \subseteq Lineage(h, x)
    <3>1. /\ DOMAIN h.rev = {q \in DOMAIN g.rev : g.rev[q].work # w}
          /\ \A q \in DOMAIN h.rev : h.rev[q] = g.rev[q]
      BY <2>2 DEF Without, Owned
    <3>2. \A q \in DOMAIN h.rev : g.rev[q].parents \subseteq DOMAIN h.rev
      BY <3>1 DEF Valid, validateRevisions
    <3>3. x \in DOMAIN h.rev BY TipsAreRevisions
    <3> QED BY <3>1, <3>2, <3>3, LineageKept
  <2> QED BY <2>3, <2>4, SteadyHeads
<1>3. CASE \E s, t \in WorkIds, first \in [DOMAIN g.link -> DOMAIN g.link] :
             h = applyMergeWorks(g, s, t, first)
  <2>1. PICK s \in WorkIds, t \in WorkIds, first \in [DOMAIN g.link -> DOMAIN g.link] :
          h = applyMergeWorks(g, s, t, first)
    BY <1>3
  <2>2. /\ h.branch = rewireMergedBranches(g.branch, s, t)
        /\ h.rev = reassignWorkId(g.rev, s, t)
        /\ h.snap = reassignWorkId(g.snap, s, t)
    BY <2>1, applyMergeWorksEffect
  <2>3. /\ \A b \in DOMAIN g.branch :
             [g.branch[b] EXCEPT !.work = t, !.name = "merged"].head = g.branch[b].head
        /\ \A r \in DOMAIN g.rev : [g.rev[r] EXCEPT !.work = t].parents = g.rev[r].parents
        /\ \A n \in DOMAIN g.snap : /\ [g.snap[n] EXCEPT !.work = t].branch = g.snap[n].branch
                                    /\ [g.snap[n] EXCEPT !.work = t].source = g.snap[n].source
    BY GraphRecords DEF BranchRecs, RevRecs, SnapRecs
  <2>4. /\ DOMAIN h.branch = DOMAIN g.branch
        /\ \A b \in DOMAIN h.branch : h.branch[b].head = g.branch[b].head
    BY <2>2, <2>3 DEF rewireMergedBranches
  <2>5. /\ DOMAIN h.rev = DOMAIN g.rev
        /\ \A r \in DOMAIN h.rev : h.rev[r].parents = g.rev[r].parents
    BY <2>2, <2>3 DEF reassignWorkId
  <2>6. /\ DOMAIN h.snap = DOMAIN g.snap
        /\ \A n \in DOMAIN h.snap : /\ h.snap[n].branch = g.snap[n].branch
                                    /\ h.snap[n].source = g.snap[n].source
    BY <2>2, <2>3 DEF reassignWorkId
  <2>7. \A b \in DOMAIN h.branch : Tips(h, b) = Tips(g, b) BY <2>4, <2>6 DEF Tips
  <2>8. \A x : Lineage(h, x) = Lineage(g, x) BY <2>5 DEF Lineage
  <2> QED BY <2>4, <2>7, <2>8, SteadyHeads
<1> QED BY <1>1, <1>2, <1>3, WorkChangeKinds

LEMMA StepRoots ==
  ASSUME GraphInv, [Next]_vars, CommonRoots(graph)
  PROVE  CommonRoots(graph') /\ HeadsShare(graph, graph')
<1>0. /\ graph \in Graphs /\ Valid(graph) /\ Change(graph, graph')
      /\ graph' \in Graphs /\ Valid(graph')
  <2>1. GraphInv' BY NextGraphInv
  <2> QED BY <2>1, StepChange DEF GraphInv, TypeOK
<1>1. CASE Still(graph, graph') BY <1>0, <1>1, SameHistories DEF Still
<1>2. CASE OutlineChange(graph, graph')
  <2>1. graph'.branch = graph.branch /\ graph'.rev = graph.rev /\ graph'.snap = graph.snap
    BY <1>0, <1>2, OutlineKeeps
  <2> QED BY <1>0, <2>1, SameHistories
<1>3. CASE LinkChange(graph, graph')
  <2>1. graph'.branch = graph.branch /\ graph'.rev = graph.rev /\ graph'.snap = graph.snap
    BY <1>0, <1>3, LinksKeep
  <2> QED BY <1>0, <2>1, SameHistories
<1>4. CASE WorkChange(graph, graph') BY <1>0, <1>4, WorkChangeRoots
<1>5. CASE HistoryChange(graph, graph') BY <1>0, <1>5, HistoryRoots
<1> QED BY <1>0, <1>1, <1>2, <1>3, <1>4, <1>5 DEF Change

\* A branch with a history never starts another one: whatever is checkpointed,
\* merged by hand, restored or promoted, the new head and the old one have an
\* ancestor in common (revision_service.ts, memory_recovery_operations.ts).
THEOREM HeadsStayInOneHistory == Spec => HeadsShareHistory
<1>1. Init => CommonRoots(graph)
  <2>1. Init => \A b \in DOMAIN graph.branch : Tips(graph, b) = {}
    <3>1. DOMAIN <<>> = {} OBVIOUS
    <3> QED BY <3>1, InitParts DEF Tips
  <2> QED BY <2>1 DEF CommonRoots
<1>2. GraphInv /\ CommonRoots(graph) /\ [Next]_vars => CommonRoots(graph)' BY StepRoots
<1>3. GraphInv /\ CommonRoots(graph) /\ [Next]_vars =>
        [\A b \in DOMAIN graph.branch \cap DOMAIN graph'.branch :
           LET h == graph.branch[b].head
               k == graph'.branch[b].head
           IN  h # None => /\ k # None
                           /\ Lineage(graph', h) \cap Lineage(graph', k) # {} ]_vars
  BY StepRoots DEF HeadsShare
<1> QED BY <1>1, <1>2, <1>3, InitGraphInv, NextGraphInv, PTL DEF Spec, HeadsShareHistory

-----------------------------------------------------------------------------
(***************************************************************************)
(* The validation of the commits.  An operation that takes nothing away    *)
(* keeps the graph valid if the entries it makes or changes are valid.     *)
(***************************************************************************)
\* What other entries point at is still there, and belongs to the same work.
Keeps(g, h) ==
  /\ DOMAIN g.work \subseteq DOMAIN h.work
  /\ \A b \in DOMAIN g.branch : b \in DOMAIN h.branch /\ h.branch[b].work = g.branch[b].work
  /\ \A r \in DOMAIN g.rev : r \in DOMAIN h.rev /\ h.rev[r].work = g.rev[r].work
  /\ \A o \in DOMAIN g.occ : o \in DOMAIN h.occ /\ h.occ[o].work = g.occ[o].work
  /\ h.related = g.related /\ h.purgedWorks = g.purgedWorks /\ h.purgedOccs = g.purgedOccs

\* Every entry of h was in g, unchanged where it is validated, or is valid itself.
WorksCarry(g, h) ==
  \A w \in DOMAIN h.work :
    \/ w \in DOMAIN g.work /\ h.work[w].merged = g.work[w].merged
    \/ h.work[w].merged = None

BranchesCarry(g, h) ==
  \A b \in DOMAIN h.branch :
    \/ b \in DOMAIN g.branch /\ h.branch[b].head = g.branch[b].head
    \/ LET r == h.branch[b].head IN
         /\ h.branch[b].work \in DOMAIN h.work
         /\ r # None => r \in DOMAIN h.rev /\ h.rev[r].work = h.branch[b].work

CopiesCarry(g, h) ==
  \A b \in DOMAIN h.copy :
    \/ b \in DOMAIN g.copy /\ h.copy[b].work = g.copy[b].work
    \/ CopyOf(h, b) /\ h.copy[b].work \in DOMAIN h.work

RevisionsCarry(g, h) ==
  /\ \A r \in DOMAIN h.rev :
       \/ r \in DOMAIN g.rev /\ h.rev[r].parents = g.rev[r].parents
       \/ /\ h.rev[r].work \in DOMAIN h.work
          /\ \A p \in h.rev[r].parents :
               p \in DOMAIN h.rev /\ p # r /\ h.rev[p].work = h.rev[r].work
  /\ assertRevisionDag(h)

SnapshotsCarry(g, h) ==
  \A n \in DOMAIN h.snap :
    \/ n \in DOMAIN g.snap /\ h.snap[n] = g.snap[n]
    \/ LET s == h.snap[n] IN
         /\ s.work \in DOMAIN h.work
         /\ s.branch \in DOMAIN h.branch /\ h.branch[s.branch].work = s.work
         /\ s.source # None => s.source \in DOMAIN h.rev /\ h.rev[s.source].work = s.work

OccurrencesCarry(g, h) ==
  \A o \in DOMAIN h.occ :
    \/ o \in DOMAIN g.occ /\ h.occ[o].sel = g.occ[o].sel
    \/ LET s == h.occ[o].sel IN
         /\ h.occ[o].work \in DOMAIN h.work
         /\ \/ s \in DOMAIN h.branch /\ h.branch[s].work = h.occ[o].work
            \/ s \in DOMAIN h.rev /\ h.rev[s].work = h.occ[o].work

LinksCarry(g, h) ==
  \A l \in DOMAIN h.link :
    \/ l \in DOMAIN g.link /\ h.link[l].ends = g.link[l].ends
    \/ \A e \in h.link[l].ends :
         /\ e.work \in DOMAIN h.work
         /\ e.rev # None => e.rev \in DOMAIN h.rev /\ h.rev[e.rev].work = e.work

SuggestionsCarry(g, h) ==
  \A p \in DOMAIN h.sugg :
    \/ /\ p \in DOMAIN g.sugg
       /\ h.sugg[p].from = g.sugg[p].from /\ h.sugg[p].to = g.sugg[p].to
    \/ /\ {p[1], p[2]} \subseteq DOMAIN h.work
       /\ OccurrenceOf(h, h.sugg[p].from, p[1]) /\ OccurrenceOf(h, h.sugg[p].to, p[2])

TargetsCarry(g, h) ==
  /\ \A m \in DOMAIN h.mark :
       \/ m \in DOMAIN g.mark /\ h.mark[m] = g.mark[m]
       \/ ValidTarget(h, h.mark[m])
  /\ h.resume \in {g.resume, None} \/ ValidTarget(h, h.resume)

Carries(g, h) ==
  /\ WorksCarry(g, h) /\ BranchesCarry(g, h) /\ CopiesCarry(g, h) /\ RevisionsCarry(g, h)
  /\ SnapshotsCarry(g, h) /\ OccurrencesCarry(g, h) /\ LinksCarry(g, h)
  /\ SuggestionsCarry(g, h) /\ TargetsCarry(g, h)

LEMMA ValidCarried ==
  ASSUME NEW g, Valid(g), NEW h, Keeps(g, h), Carries(g, h)
  PROVE  Valid(h)
<1>1. validateWorks(h)
  BY DEF Valid, Carries, Keeps, WorksCarry, validateWorks
<1>2. validateBranches(h)
  BY DEF Valid, Carries, Keeps, BranchesCarry, validateBranches
<1>3. validateWorkingCopies(h)
  BY DEF Valid, Carries, Keeps, CopiesCarry, validateWorkingCopies, CopyOf
<1>4. validateRevisions(h) /\ assertRevisionDag(h)
  <2>1. ASSUME NEW r \in DOMAIN g.rev, r \in DOMAIN h.rev, h.rev[r].parents = g.rev[r].parents
        PROVE  /\ h.rev[r].work \in DOMAIN h.work
               /\ \A p \in h.rev[r].parents :
                    p \in DOMAIN h.rev /\ p # r /\ h.rev[p].work = h.rev[r].work
    BY <2>1 DEF Valid, Keeps, validateRevisions
  <2> QED BY <2>1 DEF Carries, RevisionsCarry, validateRevisions
<1>5. validateRecoverySnapshots(h)
  <2>1. ASSUME NEW n \in DOMAIN g.snap, n \in DOMAIN h.snap, h.snap[n] = g.snap[n]
        PROVE  LET s == h.snap[n] IN
                 /\ s.work \in DOMAIN h.work
                 /\ s.branch \in DOMAIN h.branch /\ h.branch[s.branch].work = s.work
                 /\ s.source # None => s.source \in DOMAIN h.rev /\ h.rev[s.source].work = s.work
    BY <2>1 DEF Valid, Keeps, validateRecoverySnapshots
  <2> QED BY <2>1 DEF Carries, SnapshotsCarry, validateRecoverySnapshots
<1>6. validateOccurrences(h)
  <2>1. ASSUME NEW o \in DOMAIN g.occ, o \in DOMAIN h.occ, h.occ[o].sel = g.occ[o].sel
        PROVE  LET s == h.occ[o].sel IN
                 /\ h.occ[o].work \in DOMAIN h.work
                 /\ \/ s \in DOMAIN h.branch /\ h.branch[s].work = h.occ[o].work
                    \/ s \in DOMAIN h.rev /\ h.rev[s].work = h.occ[o].work
    BY <2>1 DEF Valid, Keeps, validateOccurrences
  <2> QED BY <2>1 DEF Carries, OccurrencesCarry, validateOccurrences
<1>7. validateLinks(h)
  BY DEF Valid, Carries, Keeps, LinksCarry, validateLinks
<1>7a. validateSystemRelations(h) BY DEF Valid, Keeps, validateSystemRelations
<1>8. validateEmergenceSuggestions(h)
  <2>1. \A o, w : OccurrenceOf(g, o, w) => OccurrenceOf(h, o, w) BY DEF Keeps, OccurrenceOf
  <2> QED BY <2>1 DEF Valid, Carries, Keeps, SuggestionsCarry, validateEmergenceSuggestions
<1>9. validateBookmarks(h) /\ validateResumePosition(h)
  <2>1. \A t : ValidTarget(g, t) => ValidTarget(h, t)
    BY DEF Keeps, ValidTarget, OccurrenceOf
  <2> QED BY <2>1 DEF Valid, Carries, TargetsCarry, validateBookmarks, validateResumePosition
<1> QED BY <1>1, <1>2, <1>3, <1>4, <1>5, <1>6, <1>7, <1>7a, <1>8, <1>9 DEF Valid

\* The parts of a valid graph that an operation leaves alone.
LEMMA SameCarry ==
  ASSUME NEW g, Valid(g), NEW h
  PROVE  /\ h.work = g.work => WorksCarry(g, h)
         /\ h.branch = g.branch => BranchesCarry(g, h)
         /\ h.copy = g.copy => CopiesCarry(g, h)
         /\ h.rev = g.rev => RevisionsCarry(g, h)
         /\ h.snap = g.snap => SnapshotsCarry(g, h)
         /\ h.occ = g.occ => OccurrencesCarry(g, h)
         /\ h.link = g.link => LinksCarry(g, h)
         /\ h.sugg = g.sugg => SuggestionsCarry(g, h)
         /\ h.mark = g.mark /\ h.resume = g.resume => TargetsCarry(g, h)
<1>1. h.rev = g.rev => RevisionsCarry(g, h)
  BY DEF Valid, RevisionsCarry, assertRevisionDag
<1> QED BY <1>1 DEF WorksCarry, BranchesCarry, CopiesCarry, SnapshotsCarry,
           OccurrencesCarry, LinksCarry, SuggestionsCarry, TargetsCarry

-----------------------------------------------------------------------------
\* The operations that the validation never stops.

LEMMA createUnplacedWorkValid ==
  ASSUME NEW g \in Graphs, Valid(g), NEW w \in WorkIds \ DOMAIN g.work,
         NEW b \in BranchIds \ DOMAIN g.branch, NEW stub, NEW blank,
         NEW h, h = createUnplacedWork(g, w, b, stub, blank)
  PROVE  Valid(h)
<1> DEFINE v == [work |-> w, name |-> "main", head |-> None]
           c == [work |-> w, blank |-> blank]
           n == NewWork(stub)
<1>1. /\ h.work = Put(g.work, w, n) /\ h.branch = Put(g.branch, b, v) /\ h.copy = Put(g.copy, b, c)
      /\ h.rev = g.rev /\ h.snap = g.snap /\ h.occ = g.occ /\ h.link = g.link
      /\ h.sugg = g.sugg /\ h.mark = g.mark /\ h.resume = g.resume
      /\ h.related = g.related /\ h.purgedWorks = g.purgedWorks /\ h.purgedOccs = g.purgedOccs
  BY DEF createUnplacedWork, Graphs
<1>2. n.merged = None /\ v.work = w /\ v.head = None /\ c.work = w BY DEF NewWork
<1> HIDE DEF n, v, c
<1>3. /\ DOMAIN h.work = DOMAIN g.work \cup {w} /\ h.work[w] = n
      /\ \A x \in DOMAIN g.work : h.work[x] = g.work[x]
      /\ DOMAIN h.branch = DOMAIN g.branch \cup {b} /\ h.branch[b] = v
      /\ \A x \in DOMAIN g.branch : h.branch[x] = g.branch[x]
      /\ DOMAIN h.copy = DOMAIN g.copy \cup {b} /\ h.copy[b] = c
      /\ \A x \in DOMAIN g.copy \ {b} : h.copy[x] = g.copy[x]
  BY <1>1 DEF Put
<1>4. Keeps(g, h) BY <1>1, <1>3 DEF Keeps
<1>5. WorksCarry(g, h) BY <1>2, <1>3 DEF WorksCarry
<1>6. BranchesCarry(g, h) BY <1>2, <1>3 DEF BranchesCarry
<1>7. CopiesCarry(g, h) BY <1>2, <1>3 DEF CopiesCarry, CopyOf
<1> QED BY <1>1, <1>4, <1>5, <1>6, <1>7, SameCarry, ValidCarried DEF Carries

LEMMA createOccurrenceValid ==
  ASSUME NEW g \in Graphs, Valid(g), NEW o \in OccIds \ DOMAIN g.occ, NEW w \in DOMAIN g.work,
         NEW p, NEW sel,
         \/ sel \in DOMAIN g.branch /\ g.branch[sel].work = w
         \/ sel \in DOMAIN g.rev /\ g.rev[sel].work = w,
         NEW h, h = createOccurrence(g, o, w, p, sel)
  PROVE  Valid(h)
<1> DEFINE v == [work |-> w, parent |-> p, sel |-> sel]
<1>1. /\ h.occ = Put(g.occ, o, v)
      /\ h.work = g.work /\ h.branch = g.branch /\ h.copy = g.copy
      /\ h.rev = g.rev /\ h.snap = g.snap /\ h.link = g.link
      /\ h.sugg = g.sugg /\ h.mark = g.mark /\ h.resume = g.resume
      /\ h.related = g.related /\ h.purgedWorks = g.purgedWorks /\ h.purgedOccs = g.purgedOccs
  BY DEF createOccurrence, Graphs
<1>2. v.work = w /\ v.sel = sel OBVIOUS
<1> HIDE DEF v
<1>3. /\ DOMAIN h.occ = DOMAIN g.occ \cup {o} /\ h.occ[o] = v
      /\ \A x \in DOMAIN g.occ : h.occ[x] = g.occ[x]
  BY <1>1 DEF Put
<1>4. Keeps(g, h) BY <1>1, <1>3 DEF Keeps
<1>5. OccurrencesCarry(g, h) BY <1>1, <1>2, <1>3 DEF OccurrencesCarry
<1> QED BY <1>1, <1>4, <1>5, SameCarry, ValidCarried DEF Carries

LEMMA createWorkBundleValid ==
  ASSUME NEW g \in Graphs, Valid(g), NEW w \in WorkIds \ DOMAIN g.work,
         NEW b \in BranchIds \ DOMAIN g.branch, NEW o \in OccIds \ DOMAIN g.occ, NEW p,
         NEW blank \in BOOLEAN, NEW h, h = createWorkBundle(g, w, b, o, p, blank)
  PROVE  Valid(h)
<1>0. PICK stub \in BOOLEAN : stub = FALSE OBVIOUS
<1>1. PICK k : stub = FALSE /\ k = createUnplacedWork(g, w, b, stub, blank)
  BY <1>0
<1>2. k \in Graphs BY <1>1, createUnplacedWorkType
<1>3. Valid(k) BY <1>1, createUnplacedWorkValid
<1>4. AddsWork(g, k, w, b) /\ k.occ = g.occ BY <1>1, createUnplacedWorkAdds
<1>5. h = createOccurrence(k, o, w, p, b) BY <1>1 DEF createWorkBundle
<1>6. w \in DOMAIN k.work /\ b \in DOMAIN k.branch /\ k.branch[b].work = w
      /\ o \in OccIds \ DOMAIN k.occ
  BY <1>4 DEF AddsWork
<1> QED BY <1>2, <1>3, <1>5, <1>6, createOccurrenceValid

\* Flags of works, parents and selectors of placements, and drafts.
LEMMA FlagsValid ==
  ASSUME NEW g, Valid(g), NEW h, DOMAIN h.work = DOMAIN g.work,
         \A w \in DOMAIN h.work : h.work[w].merged = g.work[w].merged,
         DOMAIN h.occ = DOMAIN g.occ,
         \A o \in DOMAIN h.occ : /\ h.occ[o].work = g.occ[o].work
                                 /\ \/ h.occ[o].sel = g.occ[o].sel
                                    \/ LET s == h.occ[o].sel IN
                                         \/ s \in DOMAIN g.branch /\ g.branch[s].work = g.occ[o].work
                                         \/ s \in DOMAIN g.rev /\ g.rev[s].work = g.occ[o].work,
         DOMAIN h.copy = DOMAIN g.copy,
         \A b \in DOMAIN h.copy : h.copy[b].work = g.copy[b].work,
         h.branch = g.branch, h.rev = g.rev, h.snap = g.snap, h.link = g.link,
         h.sugg = g.sugg, h.mark = g.mark, h.resume = g.resume,
         h.related = g.related, h.purgedWorks = g.purgedWorks, h.purgedOccs = g.purgedOccs
  PROVE  Valid(h)
<1>1. Keeps(g, h) BY DEF Keeps
<1>2. WorksCarry(g, h) BY DEF WorksCarry
<1>3. CopiesCarry(g, h) BY DEF CopiesCarry
<1>4. OccurrencesCarry(g, h) BY DEF OccurrencesCarry, Valid, validateOccurrences
<1> QED BY <1>1, <1>2, <1>3, <1>4, SameCarry, ValidCarried DEF Carries

LEMMA updateBranchWorkingCopyValid ==
  ASSUME NEW g \in Graphs, Valid(g), NEW b \in BranchIds, NEW blank,
         NEW h, h = updateBranchWorkingCopy(g, b, blank)
  PROVE  Valid(h)
<1>1. /\ h.copy = [g.copy EXCEPT ![b].blank = blank]
      /\ h.work = g.work /\ h.branch = g.branch /\ h.occ = g.occ
      /\ h.rev = g.rev /\ h.snap = g.snap /\ h.link = g.link
      /\ h.sugg = g.sugg /\ h.mark = g.mark /\ h.resume = g.resume
      /\ h.related = g.related /\ h.purgedWorks = g.purgedWorks /\ h.purgedOccs = g.purgedOccs
  BY DEF updateBranchWorkingCopy, Graphs
<1>2. \A x \in DOMAIN g.copy : [g.copy[x] EXCEPT !.blank = blank].work = g.copy[x].work
  BY GraphRecords DEF CopyRecs
<1>3. DOMAIN h.copy = DOMAIN g.copy /\ \A x \in DOMAIN h.copy : h.copy[x].work = g.copy[x].work
  BY <1>1, <1>2, GraphTables
<1> QED BY <1>1, <1>3, FlagsValid

LEMMA resolveWorkStubValid ==
  ASSUME NEW g \in Graphs, Valid(g), NEW w \in WorkIds, NEW h, h = resolveWorkStub(g, w)
  PROVE  Valid(h)
<1>1. /\ h.work = [g.work EXCEPT ![w].stub = FALSE]
      /\ h.copy = g.copy /\ h.branch = g.branch /\ h.occ = g.occ
      /\ h.rev = g.rev /\ h.snap = g.snap /\ h.link = g.link
      /\ h.sugg = g.sugg /\ h.mark = g.mark /\ h.resume = g.resume
      /\ h.related = g.related /\ h.purgedWorks = g.purgedWorks /\ h.purgedOccs = g.purgedOccs
  BY DEF resolveWorkStub, Graphs
<1>2. \A x \in DOMAIN g.work : [g.work[x] EXCEPT !.stub = FALSE].merged = g.work[x].merged
  BY GraphRecords DEF WorkRecs
<1>3. /\ DOMAIN h.work = DOMAIN g.work
      /\ \A x \in DOMAIN h.work : h.work[x].merged = g.work[x].merged
  BY <1>1, <1>2, GraphTables
<1> QED BY <1>1, <1>3, FlagsValid

LEMMA applyWorkTrashValid ==
  ASSUME NEW g \in Graphs, Valid(g), NEW W, NEW h, h = applyWorkTrash(g, W)
  PROVE  Valid(h)
<1>1. /\ h.work = [w \in DOMAIN g.work |->
                     IF w \in W THEN [g.work[w] EXCEPT !.deleted = TRUE] ELSE g.work[w]]
      /\ h.copy = g.copy /\ h.branch = g.branch /\ h.occ = g.occ
      /\ h.rev = g.rev /\ h.snap = g.snap /\ h.link = g.link
      /\ h.sugg = g.sugg /\ h.mark = g.mark /\ h.resume = g.resume
      /\ h.related = g.related /\ h.purgedWorks = g.purgedWorks /\ h.purgedOccs = g.purgedOccs
  BY DEF applyWorkTrash, Graphs
<1>2. \A x \in DOMAIN g.work : [g.work[x] EXCEPT !.deleted = TRUE].merged = g.work[x].merged
  BY GraphRecords DEF WorkRecs
<1>3. /\ DOMAIN h.work = DOMAIN g.work
      /\ \A x \in DOMAIN h.work : h.work[x].merged = g.work[x].merged
  BY <1>1, <1>2
<1> QED BY <1>1, <1>3, FlagsValid

LEMMA OccParentsValid ==
  ASSUME NEW g, Valid(g), NEW h, DOMAIN h.occ = DOMAIN g.occ,
         \A o \in DOMAIN h.occ : h.occ[o].work = g.occ[o].work /\ h.occ[o].sel = g.occ[o].sel,
         h.work = g.work, h.copy = g.copy, h.branch = g.branch,
         h.rev = g.rev, h.snap = g.snap, h.link = g.link,
         h.sugg = g.sugg, h.mark = g.mark, h.resume = g.resume,
         h.related = g.related, h.purgedWorks = g.purgedWorks, h.purgedOccs = g.purgedOccs
  PROVE  Valid(h)
BY FlagsValid

LEMMA cleanupOrphanOccurrencesValid ==
  ASSUME NEW g \in Graphs, Valid(g), NEW O, NEW h, h = cleanupOrphanOccurrences(g, O)
  PROVE  Valid(h)
<1>1. /\ h.occ = [o \in DOMAIN g.occ |->
                    IF o \in O /\ g.occ[o].parent # None /\ g.occ[o].parent \notin DOMAIN g.occ
                      THEN [g.occ[o] EXCEPT !.parent = None] ELSE g.occ[o]]
      /\ h.work = g.work /\ h.copy = g.copy /\ h.branch = g.branch
      /\ h.rev = g.rev /\ h.snap = g.snap /\ h.link = g.link
      /\ h.sugg = g.sugg /\ h.mark = g.mark /\ h.resume = g.resume
      /\ h.related = g.related /\ h.purgedWorks = g.purgedWorks /\ h.purgedOccs = g.purgedOccs
  BY DEF cleanupOrphanOccurrences, Graphs
<1>2. \A o \in DOMAIN g.occ : /\ [g.occ[o] EXCEPT !.parent = None].work = g.occ[o].work
                              /\ [g.occ[o] EXCEPT !.parent = None].sel = g.occ[o].sel
  BY GraphRecords DEF OccRecs
<1>3. /\ DOMAIN h.occ = DOMAIN g.occ
      /\ \A o \in DOMAIN h.occ : h.occ[o].work = g.occ[o].work /\ h.occ[o].sel = g.occ[o].sel
  BY <1>1, <1>2
<1> QED BY <1>1, <1>3, OccParentsValid

LEMMA applyWorkRestoreValid ==
  ASSUME NEW g \in Graphs, Valid(g), NEW w \in WorkIds, NEW h, h = applyWorkRestore(g, w)
  PROVE  Valid(h)
<1> DEFINE k == [g EXCEPT !.work[w].deleted = FALSE]
<1>1. k \in Graphs BY RestoredType
<1>2. /\ k.work = [g.work EXCEPT ![w].deleted = FALSE]
      /\ k.copy = g.copy /\ k.branch = g.branch /\ k.occ = g.occ
      /\ k.rev = g.rev /\ k.snap = g.snap /\ k.link = g.link
      /\ k.sugg = g.sugg /\ k.mark = g.mark /\ k.resume = g.resume
      /\ k.related = g.related /\ k.purgedWorks = g.purgedWorks /\ k.purgedOccs = g.purgedOccs
  BY DEF Graphs
<1>3. h = cleanupOrphanOccurrences(k, Owned(k.occ, w)) BY DEF applyWorkRestore
<1> HIDE DEF k
<1>4. \A x \in DOMAIN g.work : [g.work[x] EXCEPT !.deleted = FALSE].merged = g.work[x].merged
  BY GraphRecords DEF WorkRecs
<1>5. /\ DOMAIN k.work = DOMAIN g.work
      /\ \A x \in DOMAIN k.work : k.work[x].merged = g.work[x].merged
  BY <1>2, <1>4, GraphTables
<1>6. Valid(k) BY <1>2, <1>5, FlagsValid
<1> QED BY <1>1, <1>3, <1>6, cleanupOrphanOccurrencesValid

LEMMA MovedValid ==
  ASSUME NEW g \in Graphs, Valid(g), NEW o \in DOMAIN g.occ, NEW p,
         NEW h, h = [g EXCEPT !.occ[o].parent = p]
  PROVE  Valid(h)
<1>1. /\ h.occ = [g.occ EXCEPT ![o].parent = p]
      /\ h.work = g.work /\ h.copy = g.copy /\ h.branch = g.branch
      /\ h.rev = g.rev /\ h.snap = g.snap /\ h.link = g.link
      /\ h.sugg = g.sugg /\ h.mark = g.mark /\ h.resume = g.resume
      /\ h.related = g.related /\ h.purgedWorks = g.purgedWorks /\ h.purgedOccs = g.purgedOccs
  BY DEF Graphs
<1>2. \A x \in DOMAIN g.occ : /\ [g.occ[x] EXCEPT !.parent = p].work = g.occ[x].work
                              /\ [g.occ[x] EXCEPT !.parent = p].sel = g.occ[x].sel
  BY GraphRecords DEF OccRecs
<1>3. /\ DOMAIN h.occ = DOMAIN g.occ
      /\ \A x \in DOMAIN h.occ : h.occ[x].work = g.occ[x].work /\ h.occ[x].sel = g.occ[x].sel
  BY <1>1, <1>2, GraphTables
<1> QED BY ONLY Valid(g), <1>1, <1>3, OccParentsValid

LEMMA SelectedValid ==
  ASSUME NEW g \in Graphs, Valid(g), NEW o \in DOMAIN g.occ, NEW sel,
         \/ sel \in DOMAIN g.branch /\ g.branch[sel].work = g.occ[o].work
         \/ sel \in DOMAIN g.rev /\ g.rev[sel].work = g.occ[o].work,
         NEW h, h = [g EXCEPT !.occ[o].sel = sel]
  PROVE  Valid(h)
<1>1. /\ h.occ = [g.occ EXCEPT ![o].sel = sel]
      /\ h.work = g.work /\ h.copy = g.copy /\ h.branch = g.branch
      /\ h.rev = g.rev /\ h.snap = g.snap /\ h.link = g.link
      /\ h.sugg = g.sugg /\ h.mark = g.mark /\ h.resume = g.resume
      /\ h.related = g.related /\ h.purgedWorks = g.purgedWorks /\ h.purgedOccs = g.purgedOccs
  BY DEF Graphs
<1>2. /\ [g.occ[o] EXCEPT !.sel = sel].work = g.occ[o].work
      /\ [g.occ[o] EXCEPT !.sel = sel].sel = sel
  BY GraphRecords DEF OccRecs
<1>3. /\ DOMAIN h.occ = DOMAIN g.occ
      /\ h.occ[o].work = g.occ[o].work /\ h.occ[o].sel = sel
      /\ \A x \in DOMAIN h.occ \ {o} : h.occ[x] = g.occ[x]
  BY <1>1, <1>2, GraphTables
<1>4. \A x \in DOMAIN h.occ :
        /\ h.occ[x].work = g.occ[x].work
        /\ \/ h.occ[x].sel = g.occ[x].sel
           \/ LET s == h.occ[x].sel IN
                \/ s \in DOMAIN g.branch /\ g.branch[s].work = g.occ[x].work
                \/ s \in DOMAIN g.rev /\ g.rev[s].work = g.occ[x].work
  BY <1>3
<1> QED BY ONLY Valid(g), <1>1, <1>3, <1>4, FlagsValid

\* Marks, the resume position, links and suggestions: nothing points at them.
LEMMA CitingValid ==
  ASSUME NEW g, Valid(g), NEW h, h.work = g.work, h.branch = g.branch, h.copy = g.copy,
         h.rev = g.rev, h.snap = g.snap, h.occ = g.occ,
         h.related = g.related, h.purgedWorks = g.purgedWorks, h.purgedOccs = g.purgedOccs,
         LinksCarry(g, h), SuggestionsCarry(g, h), TargetsCarry(g, h)
  PROVE  Valid(h)
<1>1. Keeps(g, h) BY DEF Keeps
<1> QED BY <1>1, SameCarry, ValidCarried DEF Carries

LEMMA MarkedValid ==
  ASSUME NEW g \in Graphs, Valid(g), NEW f,
         \A m \in DOMAIN f : (m \in DOMAIN g.mark /\ f[m] = g.mark[m]) \/ ValidTarget(g, f[m]),
         NEW h, h = [g EXCEPT !.mark = f]
  PROVE  Valid(h)
<1>1. /\ h.mark = f /\ h.work = g.work /\ h.copy = g.copy /\ h.branch = g.branch
      /\ h.rev = g.rev /\ h.snap = g.snap /\ h.link = g.link /\ h.occ = g.occ
      /\ h.sugg = g.sugg /\ h.resume = g.resume
      /\ h.related = g.related /\ h.purgedWorks = g.purgedWorks /\ h.purgedOccs = g.purgedOccs
  BY DEF Graphs
<1>2. \A t : ValidTarget(h, t) <=> ValidTarget(g, t) BY <1>1 DEF ValidTarget, OccurrenceOf
<1>3. TargetsCarry(g, h) BY <1>1, <1>2 DEF TargetsCarry
<1> QED BY ONLY Valid(g), <1>1, <1>3, SameCarry, CitingValid

LEMMA ResumedValid ==
  ASSUME NEW g \in Graphs, Valid(g), NEW r, r = None \/ ValidTarget(g, r),
         NEW h, h = [g EXCEPT !.resume = r]
  PROVE  Valid(h)
<1>1. /\ h.resume = r /\ h.work = g.work /\ h.copy = g.copy /\ h.branch = g.branch
      /\ h.rev = g.rev /\ h.snap = g.snap /\ h.link = g.link /\ h.occ = g.occ
      /\ h.sugg = g.sugg /\ h.mark = g.mark
      /\ h.related = g.related /\ h.purgedWorks = g.purgedWorks /\ h.purgedOccs = g.purgedOccs
  BY DEF Graphs
<1>2. ValidTarget(h, r) <=> ValidTarget(g, r) BY <1>1 DEF ValidTarget, OccurrenceOf
<1>3. TargetsCarry(g, h) BY <1>1, <1>2 DEF TargetsCarry
<1> QED BY ONLY Valid(g), <1>1, <1>3, SameCarry, CitingValid

LEMMA createLinkValid ==
  ASSUME NEW g \in Graphs, Valid(g), NEW l, NEW E, NEW origin,
         \A e \in E : /\ e.work \in DOMAIN g.work
                      /\ e.rev # None => e.rev \in DOMAIN g.rev /\ g.rev[e.rev].work = e.work,
         NEW h, h = createLink(g, l, E, origin)
  PROVE  Valid(h)
<1> DEFINE v == [ends |-> E, active |-> TRUE, origin |-> origin]
<1>1. /\ h.link = Put(g.link, l, v)
      /\ h.work = g.work /\ h.copy = g.copy /\ h.branch = g.branch
      /\ h.rev = g.rev /\ h.snap = g.snap /\ h.occ = g.occ
      /\ h.sugg = g.sugg /\ h.mark = g.mark /\ h.resume = g.resume
      /\ h.related = g.related /\ h.purgedWorks = g.purgedWorks /\ h.purgedOccs = g.purgedOccs
  BY DEF createLink, Graphs
<1>2. v.ends = E OBVIOUS
<1> HIDE DEF v
<1>3. \A k \in DOMAIN h.link : (k \in DOMAIN g.link /\ h.link[k] = g.link[k]) \/ h.link[k] = v
  BY <1>1 DEF Put
<1>4. LinksCarry(g, h) BY <1>1, <1>2, <1>3 DEF LinksCarry
<1> QED BY <1>1, <1>4, SameCarry, CitingValid

LEMMA deleteLinkValid ==
  ASSUME NEW g \in Graphs, Valid(g), NEW v, NEW w, NEW h, h = deleteLink(g, v, w)
  PROVE  Valid(h)
<1>1. /\ h.link = [l \in DOMAIN g.link |->
                     IF WorksOf(g.link[l].ends) = {v, w}
                       THEN [g.link[l] EXCEPT !.active = FALSE] ELSE g.link[l]]
      /\ h.work = g.work /\ h.copy = g.copy /\ h.branch = g.branch
      /\ h.rev = g.rev /\ h.snap = g.snap /\ h.occ = g.occ
      /\ h.sugg = g.sugg /\ h.mark = g.mark /\ h.resume = g.resume
      /\ h.related = g.related /\ h.purgedWorks = g.purgedWorks /\ h.purgedOccs = g.purgedOccs
  BY DEF deleteLink, Graphs
<1>2. \A l \in DOMAIN g.link : [g.link[l] EXCEPT !.active = FALSE].ends = g.link[l].ends
  BY GraphRecords DEF LinkRecs
<1>3. LinksCarry(g, h) BY <1>1, <1>2 DEF LinksCarry
<1> QED BY <1>1, <1>3, SameCarry, CitingValid

LEMMA upsertEmergenceSuggestionValid ==
  ASSUME NEW g \in Graphs, Valid(g), NEW p, NEW from, NEW to,
         {p[1], p[2]} \subseteq DOMAIN g.work,
         OccurrenceOf(g, from, p[1]), OccurrenceOf(g, to, p[2]),
         NEW h, h = upsertEmergenceSuggestion(g, p, from, to)
  PROVE  Valid(h)
<1> DEFINE v == [from |-> from, to |-> to,
                 status |-> IF p \in DOMAIN g.sugg THEN g.sugg[p].status ELSE "pending"]
<1>1. /\ h.sugg = Put(g.sugg, p, v)
      /\ h.work = g.work /\ h.copy = g.copy /\ h.branch = g.branch
      /\ h.rev = g.rev /\ h.snap = g.snap /\ h.occ = g.occ
      /\ h.link = g.link /\ h.mark = g.mark /\ h.resume = g.resume
      /\ h.related = g.related /\ h.purgedWorks = g.purgedWorks /\ h.purgedOccs = g.purgedOccs
  BY DEF upsertEmergenceSuggestion, Graphs
<1>2. v.from = from /\ v.to = to OBVIOUS
<1> HIDE DEF v
<1>3. \A q \in DOMAIN h.sugg : (q \in DOMAIN g.sugg /\ h.sugg[q] = g.sugg[q]) \/ (q = p /\ h.sugg[q] = v)
  BY <1>1 DEF Put
<1>4. SuggestionsCarry(g, h) BY <1>1, <1>2, <1>3 DEF SuggestionsCarry, OccurrenceOf
<1> QED BY <1>1, <1>4, SameCarry, CitingValid

LEMMA resolveEmergenceSuggestionValid ==
  ASSUME NEW g \in Graphs, Valid(g), NEW p, NEW status,
         NEW h, h = resolveEmergenceSuggestion(g, p, status)
  PROVE  Valid(h)
<1>1. /\ h.sugg = [g.sugg EXCEPT ![p].status = status]
      /\ h.work = g.work /\ h.copy = g.copy /\ h.branch = g.branch
      /\ h.rev = g.rev /\ h.snap = g.snap /\ h.occ = g.occ
      /\ h.link = g.link /\ h.mark = g.mark /\ h.resume = g.resume
      /\ h.related = g.related /\ h.purgedWorks = g.purgedWorks /\ h.purgedOccs = g.purgedOccs
  BY DEF resolveEmergenceSuggestion, Graphs
<1>2. \A q \in DOMAIN g.sugg : /\ [g.sugg[q] EXCEPT !.status = status].from = g.sugg[q].from
                               /\ [g.sugg[q] EXCEPT !.status = status].to = g.sugg[q].to
  BY GraphRecords DEF SuggRecs
<1>3. /\ DOMAIN h.sugg = DOMAIN g.sugg
      /\ \A q \in DOMAIN h.sugg : h.sugg[q].from = g.sugg[q].from /\ h.sugg[q].to = g.sugg[q].to
  BY <1>1, <1>2, GraphTables
<1>4. SuggestionsCarry(g, h) BY <1>3 DEF SuggestionsCarry
<1> QED BY <1>1, <1>4, SameCarry, CitingValid

\* A new revision under revisions of the same work closes no cycle.
LEMMA PutKeepsDag ==
  ASSUME NEW g, assertRevisionDag(g),
         \A q \in DOMAIN g.rev : g.rev[q].parents \subseteq DOMAIN g.rev,
         NEW r, r \notin DOMAIN g.rev, NEW P, P \subseteq DOMAIN g.rev,
         NEW h, DOMAIN h.rev = DOMAIN g.rev \cup {r}, h.rev[r].parents = P,
         \A q \in DOMAIN g.rev : h.rev[q].parents = g.rev[q].parents
  PROVE  assertRevisionDag(h)
<1> SUFFICES ASSUME NEW C \in SUBSET DOMAIN h.rev, C # {},
                    \A q \in C : h.rev[q].parents \cap C # {}
             PROVE  FALSE
  BY DEF assertRevisionDag
<1> DEFINE D == C \ {r}
<1>1. D \in SUBSET DOMAIN g.rev OBVIOUS
<1>2. \A q \in C : h.rev[q].parents \subseteq DOMAIN g.rev OBVIOUS
<1>3. D # {}
  <2>1. PICK q \in C : TRUE OBVIOUS
  <2>2. PICK p \in h.rev[q].parents : p \in C OBVIOUS
  <2> QED BY <1>2, <2>2
<1>4. \A q \in D : g.rev[q].parents \cap D # {}
  <2>1. \A q \in D : h.rev[q].parents = g.rev[q].parents BY <1>1
  <2> QED BY <1>2, <2>1
<1> QED BY <1>1, <1>3, <1>4 DEF assertRevisionDag

LEMMA appendRevisionToBranchValid ==
  ASSUME NEW g \in Graphs, Valid(g), NEW r \in RevIds, NEW b \in BranchIds, NEW w \in WorkIds,
         NEW P \in SUBSET RevIds, validateRevisionCreation(g, r, b, w, P),
         NEW h, h = appendRevisionToBranch(g, r, b, w, P)
  PROVE  Valid(h)
<1>1. /\ h.work = g.work /\ h.copy = g.copy
      /\ h.snap = g.snap /\ h.occ = g.occ /\ h.sugg = g.sugg
      /\ h.link = g.link /\ h.mark = g.mark /\ h.resume = g.resume
      /\ h.related = g.related /\ h.purgedWorks = g.purgedWorks /\ h.purgedOccs = g.purgedOccs
  BY DEF appendRevisionToBranch, Graphs
<1>2. /\ DOMAIN h.branch = DOMAIN g.branch
      /\ \A x \in DOMAIN h.branch :
           /\ h.branch[x].work = g.branch[x].work
           /\ h.branch[x].head = IF x = b THEN r ELSE g.branch[x].head
      /\ DOMAIN h.rev = DOMAIN g.rev \cup {r}
      /\ h.rev[r].work = w /\ h.rev[r].parents = P
      /\ \A q \in DOMAIN g.rev \ {r} : h.rev[q] = g.rev[q]
  BY appendRevisionToBranchEffect
<1>3. /\ b \in DOMAIN g.branch /\ g.branch[b].work = w /\ r \notin DOMAIN g.rev
      /\ \A p \in P : p \in DOMAIN g.rev /\ g.rev[p].work = w
  BY DEF validateRevisionCreation
<1>4. w \in DOMAIN g.work BY <1>3 DEF Valid, validateBranches
<1>5. Keeps(g, h) BY <1>1, <1>2, <1>3 DEF Keeps
<1>6. BranchesCarry(g, h) BY <1>1, <1>2, <1>3, <1>4 DEF BranchesCarry
<1>7. assertRevisionDag(h)
  <2>1. \A q \in DOMAIN g.rev : g.rev[q].parents \subseteq DOMAIN g.rev /\ h.rev[q].parents = g.rev[q].parents
    BY <1>2, <1>3, TipsAreRevisions
  <2>2. P \subseteq DOMAIN g.rev BY <1>3
  <2>3. assertRevisionDag(g) BY DEF Valid
  <2> QED BY ONLY <1>2, <1>3, <2>1, <2>2, <2>3, PutKeepsDag
<1>8. RevisionsCarry(g, h) BY <1>1, <1>2, <1>3, <1>4, <1>7 DEF RevisionsCarry
<1> QED BY ONLY Valid(g), <1>1, <1>5, <1>6, <1>8, SameCarry, ValidCarried DEF Carries

LEMMA createRecoverySnapshotValid ==
  ASSUME NEW g \in Graphs, Valid(g), NEW n \in SnapIds, n \notin DOMAIN g.snap,
         NEW b \in BranchIds, b \in DOMAIN g.copy,
         NEW h, h = createRecoverySnapshot(g, n, b)
  PROVE  Valid(h)
<1>1. /\ h.work = g.work /\ h.occ = g.occ /\ h.sugg = g.sugg
      /\ h.link = g.link /\ h.mark = g.mark /\ h.resume = g.resume
      /\ h.related = g.related /\ h.purgedWorks = g.purgedWorks /\ h.purgedOccs = g.purgedOccs
  BY DEF createRecoverySnapshot, Graphs
<1>2. /\ h.branch = g.branch /\ h.copy = g.copy /\ h.rev = g.rev
      /\ DOMAIN h.snap = DOMAIN g.snap \cup {n}
      /\ h.snap[n].work = g.copy[b].work
      /\ h.snap[n].branch = b /\ h.snap[n].source = g.branch[b].head
      /\ \A m \in DOMAIN g.snap \ {n} : h.snap[m] = g.snap[m]
  BY createRecoverySnapshotEffect
<1>3. /\ b \in DOMAIN g.branch /\ g.copy[b].work = g.branch[b].work
      /\ g.copy[b].work \in DOMAIN g.work
      /\ LET r == g.branch[b].head IN
           r # None => r \in DOMAIN g.rev /\ g.rev[r].work = g.branch[b].work
  BY DEF Valid, validateWorkingCopies, validateBranches, CopyOf
<1>4. Keeps(g, h) BY <1>1, <1>2 DEF Keeps
<1>5. SnapshotsCarry(g, h) BY <1>1, <1>2, <1>3 DEF SnapshotsCarry
<1> QED BY ONLY Valid(g), <1>1, <1>2, <1>4, <1>5, SameCarry, ValidCarried DEF Carries

LEMMA applyRecoverySnapshotRestoreValid ==
  ASSUME NEW g \in Graphs, Valid(g), NEW n \in DOMAIN g.snap, NEW before \in SnapIds,
         before \notin DOMAIN g.snap, NEW blank \in BOOLEAN,
         g.snap[n].branch \in DOMAIN g.copy,
         NEW h, h = applyRecoverySnapshotRestore(g, n, before, blank)
  PROVE  Valid(h)
<1>0. PICK b \in BranchIds : b = g.snap[n].branch BY GraphTables
<1>1. PICK k : b = g.snap[n].branch /\ k = createRecoverySnapshot(g, before, b)
  BY <1>0
<1>2. k = createRecoverySnapshot(g, before, b) /\ b \in DOMAIN g.copy BY <1>1
<1>3. b \in DOMAIN g.branch BY <1>2 DEF Valid, validateWorkingCopies, CopyOf
<1>4. k \in Graphs BY <1>2, <1>3, createRecoverySnapshotType
<1>5. Valid(k) BY <1>2, createRecoverySnapshotValid
<1>6. h = updateBranchWorkingCopy(k, b, blank) BY <1>1 DEF applyRecoverySnapshotRestore
<1> QED BY <1>4, <1>5, <1>6, updateBranchWorkingCopyValid

\* A purge takes a work with all that belongs to it, and remembers what may
\* still be named: so nothing that stays points at nothing.
LEMMA PurgedValid ==
  ASSUME NEW g, Valid(g), NEW w, w \notin g.related, NEW c,
         c.work = Without(g.work, {w}),
         c.branch = Without(g.branch, Owned(g.branch, w)),
         c.copy = Without(g.copy, Owned(g.copy, w) \cup Owned(g.branch, w)),
         c.rev = Without(g.rev, Owned(g.rev, w)),
         c.snap = Without(g.snap, Owned(g.snap, w)),
         c.mark = Without(g.mark, Owned(g.mark, w)),
         c.resume = IF g.resume # None /\ g.resume.work = w THEN None ELSE g.resume,
         c.occ = Without(g.occ, Owned(g.occ, w)),
         c.link = Without(g.link, {l \in DOMAIN g.link : w \in WorksOf(g.link[l].ends)}),
         c.sugg = g.sugg, c.related = g.related,
         c.purgedWorks = g.purgedWorks \cup {w},
         c.purgedOccs = g.purgedOccs \cup Owned(g.occ, w)
  PROVE  Valid(c)
<1>1. /\ DOMAIN c.work = DOMAIN g.work \ {w} /\ \A x \in DOMAIN c.work : c.work[x] = g.work[x]
      /\ DOMAIN c.branch = {x \in DOMAIN g.branch : g.branch[x].work # w}
      /\ \A x \in DOMAIN c.branch : c.branch[x] = g.branch[x]
      /\ DOMAIN c.rev = {x \in DOMAIN g.rev : g.rev[x].work # w}
      /\ \A x \in DOMAIN c.rev : c.rev[x] = g.rev[x]
      /\ DOMAIN c.occ = {x \in DOMAIN g.occ : g.occ[x].work # w}
      /\ \A x \in DOMAIN c.occ : c.occ[x] = g.occ[x]
  BY DEF Without, Owned
<1>2. /\ DOMAIN c.copy \subseteq DOMAIN g.copy
      /\ \A x \in DOMAIN c.copy : c.copy[x] = g.copy[x] /\ g.copy[x].work # w
      /\ DOMAIN c.snap \subseteq DOMAIN g.snap
      /\ \A x \in DOMAIN c.snap : c.snap[x] = g.snap[x] /\ g.snap[x].work # w
      /\ DOMAIN c.mark \subseteq DOMAIN g.mark
      /\ \A x \in DOMAIN c.mark : c.mark[x] = g.mark[x] /\ g.mark[x].work # w
      /\ DOMAIN c.link \subseteq DOMAIN g.link
      /\ \A x \in DOMAIN c.link : c.link[x] = g.link[x] /\ w \notin WorksOf(g.link[x].ends)
  BY DEF Without, Owned
<1>3. validateWorks(c) BY <1>1 DEF Valid, validateWorks
<1>4. validateBranches(c)
  <2>1. ASSUME NEW b \in DOMAIN c.branch, NEW r, r = c.branch[b].head
        PROVE  /\ c.branch[b].work \in DOMAIN c.work
               /\ r # None => r \in DOMAIN c.rev /\ c.rev[r].work = c.branch[b].work
    <3>1. b \in DOMAIN g.branch /\ c.branch[b] = g.branch[b] /\ g.branch[b].work # w
      BY <1>1
    <3>2. /\ g.branch[b].work \in DOMAIN g.work
          /\ r # None => r \in DOMAIN g.rev /\ g.rev[r].work = g.branch[b].work
      BY <2>1, <3>1 DEF Valid, validateBranches
    <3> QED BY <1>1, <3>1, <3>2
  <2> QED BY <2>1 DEF validateBranches
<1>5. validateWorkingCopies(c)
  <2>1. ASSUME NEW b \in DOMAIN c.copy
        PROVE  CopyOf(c, b) /\ c.copy[b].work \in DOMAIN c.work
    <3>1. b \in DOMAIN g.copy /\ c.copy[b] = g.copy[b] /\ g.copy[b].work # w
      BY <1>2
    <3>2. CopyOf(g, b) /\ g.copy[b].work \in DOMAIN g.work
      BY <3>1 DEF Valid, validateWorkingCopies
    <3> QED BY <1>1, <2>1, <3>1, <3>2 DEF CopyOf
  <2> QED BY <2>1 DEF validateWorkingCopies
<1>6. validateRevisions(c) BY <1>1 DEF Valid, validateRevisions
<1>7. assertRevisionDag(c)
  <2>1. ASSUME NEW C \in SUBSET DOMAIN c.rev, \A r \in C : c.rev[r].parents \cap C # {}
        PROVE  C \in SUBSET DOMAIN g.rev /\ \A r \in C : g.rev[r].parents \cap C # {}
    BY <1>1, <2>1
  <2> QED BY <2>1 DEF Valid, assertRevisionDag
<1>8. validateRecoverySnapshots(c)
  <2>1. ASSUME NEW n \in DOMAIN c.snap, NEW s, s = c.snap[n]
        PROVE  /\ s.work \in DOMAIN c.work
               /\ s.branch \in DOMAIN c.branch /\ c.branch[s.branch].work = s.work
               /\ s.source # None => s.source \in DOMAIN c.rev /\ c.rev[s.source].work = s.work
    <3>1. n \in DOMAIN g.snap /\ s = g.snap[n] /\ s.work # w BY <1>2, <2>1
    <3>2. /\ s.work \in DOMAIN g.work
          /\ s.branch \in DOMAIN g.branch /\ g.branch[s.branch].work = s.work
          /\ s.source # None => s.source \in DOMAIN g.rev /\ g.rev[s.source].work = s.work
      BY <3>1 DEF Valid, validateRecoverySnapshots
    <3> QED BY <1>1, <3>1, <3>2
  <2> QED BY <2>1 DEF validateRecoverySnapshots
<1>9. validateOccurrences(c)
  <2> SUFFICES ASSUME NEW o \in DOMAIN c.occ
               PROVE  LET s == c.occ[o].sel IN
                        /\ c.occ[o].work \in DOMAIN c.work
                        /\ \/ s \in DOMAIN c.branch /\ c.branch[s].work = c.occ[o].work
                           \/ s \in DOMAIN c.rev /\ c.rev[s].work = c.occ[o].work
    BY DEF validateOccurrences
  <2>1. o \in DOMAIN g.occ /\ c.occ[o] = g.occ[o] /\ g.occ[o].work # w BY <1>1
  <2>2. LET s == g.occ[o].sel IN
          /\ g.occ[o].work \in DOMAIN g.work
          /\ \/ s \in DOMAIN g.branch /\ g.branch[s].work = g.occ[o].work
             \/ s \in DOMAIN g.rev /\ g.rev[s].work = g.occ[o].work
    BY <2>1 DEF Valid, validateOccurrences
  <2> QED BY <1>1, <2>1, <2>2
<1>10. validateLinks(c)
  <2>1. ASSUME NEW l \in DOMAIN c.link, NEW e \in c.link[l].ends
        PROVE  /\ e.work \in DOMAIN c.work
               /\ e.rev # None => e.rev \in DOMAIN c.rev /\ c.rev[e.rev].work = e.work
    <3>1. l \in DOMAIN g.link /\ e \in g.link[l].ends /\ e.work # w BY <1>2 DEF WorksOf
    <3>2. /\ e.work \in DOMAIN g.work
          /\ e.rev # None => e.rev \in DOMAIN g.rev /\ g.rev[e.rev].work = e.work
      BY <3>1 DEF Valid, validateLinks
    <3> QED BY <1>1, <3>1, <3>2
  <2> QED BY <2>1 DEF validateLinks
<1>11. validateEmergenceSuggestions(c)
  <2>1. \A o, x : OccurrenceOf(g, o, x) => o \in c.purgedOccs \/ OccurrenceOf(c, o, x)
    BY <1>1 DEF OccurrenceOf, Owned
  <2>2. DOMAIN g.work \cup g.purgedWorks \subseteq DOMAIN c.work \cup c.purgedWorks BY <1>1
  <2>3. \A p \in DOMAIN g.sugg :
          /\ {p[1], p[2]} \subseteq DOMAIN g.work \cup g.purgedWorks
          /\ g.sugg[p].from \in g.purgedOccs \/ OccurrenceOf(g, g.sugg[p].from, p[1])
          /\ g.sugg[p].to \in g.purgedOccs \/ OccurrenceOf(g, g.sugg[p].to, p[2])
    BY DEF Valid, validateEmergenceSuggestions
  <2> QED BY <2>1, <2>2, <2>3 DEF validateEmergenceSuggestions
<1>12. validateBookmarks(c) /\ validateResumePosition(c)
  <2>1. \A t : ValidTarget(g, t) /\ t.work # w => ValidTarget(c, t)
    BY <1>1 DEF ValidTarget, OccurrenceOf
  <2> QED BY <1>2, <2>1 DEF Valid, validateBookmarks, validateResumePosition
<1>13. validateSystemRelations(c) BY <1>1 DEF Valid, validateSystemRelations
<1> QED BY <1>3, <1>4, <1>5, <1>6, <1>7, <1>8, <1>9, <1>10, <1>11, <1>12, <1>13 DEF Valid

LEMMA applyWorkPurgeValid ==
  ASSUME NEW g \in Graphs, Valid(g), NEW w \in WorkIds, w \notin g.related,
         NEW h, h = applyWorkPurge(g, w)
  PROVE  Valid(h)
<1> DEFINE k == [g EXCEPT !.purgedWorks = @ \cup {w},
                          !.purgedOccs = @ \cup Owned(g.occ, w)]
           c == purgeAssociatedEntities(k, w)
<1>1. c \in Graphs BY PurgedType
<1>2. /\ c.work = Without(g.work, {w})
      /\ c.branch = Without(g.branch, Owned(g.branch, w))
      /\ c.copy = Without(g.copy, Owned(g.copy, w) \cup Owned(g.branch, w))
      /\ c.rev = Without(g.rev, Owned(g.rev, w))
      /\ c.snap = Without(g.snap, Owned(g.snap, w))
      /\ c.mark = Without(g.mark, Owned(g.mark, w))
      /\ c.resume = IF g.resume # None /\ g.resume.work = w THEN None ELSE g.resume
      /\ c.occ = Without(g.occ, Owned(g.occ, w))
      /\ c.link = Without(g.link, {l \in DOMAIN g.link : w \in WorksOf(g.link[l].ends)})
      /\ c.sugg = g.sugg /\ c.related = g.related
      /\ c.purgedWorks = g.purgedWorks \cup {w}
      /\ c.purgedOccs = g.purgedOccs \cup Owned(g.occ, w)
  BY DEF purgeAssociatedEntities, Graphs
<1>3. h = cleanupOrphanOccurrences(c, DOMAIN c.occ) BY DEF applyWorkPurge
<1> HIDE DEF c
<1>4. Valid(c) BY ONLY Valid(g), w \notin g.related, <1>2, PurgedValid
<1> QED BY <1>1, <1>3, <1>4, cleanupOrphanOccurrencesValid

-----------------------------------------------------------------------------
\* The operations that the validation can stop, when it has no reason to.

\* Placements that nothing cites may go.
LEMMA UncitedGoValid ==
  ASSUME NEW g, Valid(g), NEW h, DOMAIN h.occ \subseteq DOMAIN g.occ,
         (DOMAIN g.occ \ DOMAIN h.occ) \cap Cited(g) = {},
         \A o \in DOMAIN h.occ : h.occ[o].work = g.occ[o].work /\ h.occ[o].sel = g.occ[o].sel,
         h.work = g.work, h.copy = g.copy, h.branch = g.branch,
         h.rev = g.rev, h.snap = g.snap, h.link = g.link,
         h.sugg = g.sugg, h.mark = g.mark, h.resume = g.resume,
         h.related = g.related, h.purgedWorks = g.purgedWorks, h.purgedOccs = g.purgedOccs
  PROVE  Valid(h)
<1>1. /\ validateWorks(h) /\ validateBranches(h) /\ validateWorkingCopies(h)
      /\ validateRevisions(h) /\ assertRevisionDag(h) /\ validateRecoverySnapshots(h)
      /\ validateLinks(h) /\ validateSystemRelations(h)
  BY DEF Valid, validateWorks, validateBranches, validateWorkingCopies, CopyOf,
     validateRevisions, assertRevisionDag, validateRecoverySnapshots, validateLinks,
     validateSystemRelations
<1>2. validateOccurrences(h) BY DEF Valid, validateOccurrences
<1>3. \A o \in Cited(g) : \A w : OccurrenceOf(g, o, w) => OccurrenceOf(h, o, w)
  BY DEF OccurrenceOf
<1>4. /\ \A p \in DOMAIN g.sugg : g.sugg[p].from \in Cited(g) /\ g.sugg[p].to \in Cited(g)
      /\ \A m \in DOMAIN g.mark : g.mark[m].occ \in Cited(g)
      /\ g.resume # None => g.resume.occ \in Cited(g)
  BY DEF Cited
<1>5. validateEmergenceSuggestions(h)
  BY <1>3, <1>4 DEF Valid, validateEmergenceSuggestions
<1>6. validateBookmarks(h) /\ validateResumePosition(h)
  BY <1>3, <1>4 DEF Valid, validateBookmarks, validateResumePosition, ValidTarget
<1> QED BY <1>1, <1>2, <1>5, <1>6 DEF Valid

LEMMA deleteItemValid ==
  ASSUME NEW g \in Graphs, Valid(g), Cited(g) \cap Items(g) = {}, NEW o \in Items(g)
  PROVE  Valid(deleteItem(g, o))
<1> DEFINE k == deleteOccurrenceWithPromotion(g, o)
           p == g.occ[o].parent
           f == [c \in DOMAIN g.occ \ {o} |->
                   IF c \in Items(g) /\ g.occ[c].parent = o
                     THEN [g.occ[c] EXCEPT !.parent = p] ELSE g.occ[c]]
<1>0. o \in DOMAIN g.occ BY DEF Items
<1>1. /\ k \in Graphs
      /\ k.occ = f /\ k.work = g.work /\ k.copy = g.copy /\ k.branch = g.branch
      /\ k.rev = g.rev /\ k.snap = g.snap /\ k.link = g.link
      /\ k.sugg = g.sugg /\ k.mark = g.mark /\ k.resume = g.resume
      /\ k.related = g.related /\ k.purgedWorks = g.purgedWorks /\ k.purgedOccs = g.purgedOccs
  BY <1>0, deleteItemType DEF deleteOccurrenceWithPromotion, Graphs
<1>2. \A c \in DOMAIN g.occ : /\ [g.occ[c] EXCEPT !.parent = p].sel = g.occ[c].sel
                              /\ [g.occ[c] EXCEPT !.parent = p].work = g.occ[c].work
  BY GraphRecords DEF OccRecs
<1>3. /\ DOMAIN f = DOMAIN g.occ \ {o}
      /\ \A c \in DOMAIN f : f[c].work = g.occ[c].work /\ f[c].sel = g.occ[c].sel
  BY <1>2
<1>4. deleteItem(g, o) = trashBlankUnplacedWorks(k, {g.occ[o].work}) BY DEF deleteItem
<1> HIDE DEF k, f, p
<1>5. /\ DOMAIN k.occ \subseteq DOMAIN g.occ /\ (DOMAIN g.occ \ DOMAIN k.occ) \cap Cited(g) = {}
      /\ \A c \in DOMAIN k.occ : k.occ[c].work = g.occ[c].work /\ k.occ[c].sel = g.occ[c].sel
  BY <1>1, <1>3
<1>6. Valid(k) BY ONLY Valid(g), <1>1, <1>5, UncitedGoValid
<1>7. \A W : Valid(applyWorkTrash(k, W)) BY ONLY <1>1, <1>6, applyWorkTrashValid
<1> QED BY <1>4, <1>7 DEF trashBlankUnplacedWorks

LEMMA discardEmptyItemsValid ==
  ASSUME NEW g \in Graphs, Valid(g), Cited(g) \cap Items(g) = {}, NEW O, O \subseteq Items(g)
  PROVE  Valid(discardEmptyItems(g, O))
<1> DEFINE k == [g EXCEPT !.occ = Without(@, O)]
<1>1. /\ k \in Graphs
      /\ k.occ = Without(g.occ, O) /\ k.work = g.work /\ k.copy = g.copy /\ k.branch = g.branch
      /\ k.rev = g.rev /\ k.snap = g.snap /\ k.link = g.link
      /\ k.sugg = g.sugg /\ k.mark = g.mark /\ k.resume = g.resume
      /\ k.related = g.related /\ k.purgedWorks = g.purgedWorks /\ k.purgedOccs = g.purgedOccs
  BY discardEmptyItemsType DEF Graphs
<1>2. discardEmptyItems(g, O) = trashBlankUnplacedWorks(k, {g.occ[o].work : o \in O})
  BY DEF discardEmptyItems
<1> HIDE DEF k
<1>3. /\ DOMAIN k.occ = DOMAIN g.occ \ O
      /\ \A c \in DOMAIN k.occ : k.occ[c].work = g.occ[c].work /\ k.occ[c].sel = g.occ[c].sel
  BY <1>1 DEF Without
<1>4. /\ DOMAIN k.occ \subseteq DOMAIN g.occ /\ (DOMAIN g.occ \ DOMAIN k.occ) \cap Cited(g) = {}
  BY <1>3
<1>5. Valid(k) BY ONLY Valid(g), <1>1, <1>3, <1>4, UncitedGoValid
<1>6. \A W : Valid(applyWorkTrash(k, W)) BY ONLY <1>1, <1>5, applyWorkTrashValid
<1> QED BY <1>2, <1>6 DEF trashBlankUnplacedWorks

\* A merge renames one work everywhere but in the suggestions.
LEMMA applyMergeWorksValid ==
  ASSUME NEW g \in Graphs, Valid(g), NEW s \in Active(g), NEW t \in Active(g), s # t,
         DOMAIN g.sugg = {}, NEW first \in [DOMAIN g.link -> DOMAIN g.link]
  PROVE  Valid(applyMergeWorks(g, s, t, first))
<1> DEFINE h == applyMergeWorks(g, s, t, first)
           to(w) == IF w = s THEN t ELSE w
           E(l) == {replaceEndpointWork(e, s, t) : e \in g.link[l].ends}
           k == rewireMergedLinks(g.link, s, t)
<1>0. /\ s \in DOMAIN g.work /\ t \in DOMAIN g.work /\ s \in WorkIds /\ t \in WorkIds
      /\ \A w \in DOMAIN g.work : to(w) \in DOMAIN g.work
  BY GraphTables DEF Active
<1>1. /\ DOMAIN h.work = DOMAIN g.work
      /\ \A x \in DOMAIN h.work : h.work[x].merged = IF x = s THEN t ELSE g.work[x].merged
      /\ h.branch = rewireMergedBranches(g.branch, s, t)
      /\ h.copy = reassignWorkId(g.copy, s, t)
      /\ h.rev = reassignWorkId(g.rev, s, t)
      /\ h.snap = reassignWorkId(g.snap, s, t)
      /\ h.occ = reassignWorkId(g.occ, s, t)
      /\ h.link = retractDuplicateActiveLinks(k, first)
  BY <1>0, applyMergeWorksEffect
<1>2. /\ h.mark = reassignWorkId(g.mark, s, t)
      /\ h.resume = IF g.resume # None /\ g.resume.work = s
                      THEN [g.resume EXCEPT !.work = t] ELSE g.resume
      /\ h.sugg = g.sugg /\ h.purgedWorks = g.purgedWorks
      /\ h.related = {IF w = s THEN t ELSE w : w \in g.related}
  BY DEF applyMergeWorks, Graphs
<1> HIDE DEF h
<1>3. /\ \A x \in DOMAIN g.copy : [g.copy[x] EXCEPT !.work = t].work = t
      /\ \A x \in DOMAIN g.branch :
           /\ [g.branch[x] EXCEPT !.work = t, !.name = "merged"].work = t
           /\ [g.branch[x] EXCEPT !.work = t, !.name = "merged"].head = g.branch[x].head
      /\ \A x \in DOMAIN g.rev : /\ [g.rev[x] EXCEPT !.work = t].work = t
                                 /\ [g.rev[x] EXCEPT !.work = t].parents = g.rev[x].parents
      /\ \A x \in DOMAIN g.snap : /\ [g.snap[x] EXCEPT !.work = t].work = t
                                  /\ [g.snap[x] EXCEPT !.work = t].branch = g.snap[x].branch
                                  /\ [g.snap[x] EXCEPT !.work = t].source = g.snap[x].source
      /\ \A x \in DOMAIN g.occ : /\ [g.occ[x] EXCEPT !.work = t].work = t
                                 /\ [g.occ[x] EXCEPT !.work = t].sel = g.occ[x].sel
      /\ \A x \in DOMAIN g.mark : /\ [g.mark[x] EXCEPT !.work = t].work = t
                                  /\ [g.mark[x] EXCEPT !.work = t].occ = g.mark[x].occ
  BY GraphRecords DEF CopyRecs, BranchRecs, RevRecs, SnapRecs, OccRecs, Targets
<1>4. /\ DOMAIN h.branch = DOMAIN g.branch
      /\ \A x \in DOMAIN h.branch : /\ h.branch[x].work = to(g.branch[x].work)
                                    /\ h.branch[x].head = g.branch[x].head
  <2>1. h.branch = rewireMergedBranches(g.branch, s, t) BY <1>1
  <2>2. \A x \in DOMAIN g.branch :
          /\ [g.branch[x] EXCEPT !.work = t, !.name = "merged"].work = t
          /\ [g.branch[x] EXCEPT !.work = t, !.name = "merged"].head = g.branch[x].head
    BY <1>3
  <2>3. DOMAIN h.branch = DOMAIN g.branch
    BY ONLY <2>1 DEF rewireMergedBranches
  <2>4. \A x \in DOMAIN g.branch :
          h.branch[x].work = IF g.branch[x].work = s THEN t ELSE g.branch[x].work
    BY ONLY <2>1, <2>2 DEF rewireMergedBranches
  <2>5. \A x \in DOMAIN g.branch : h.branch[x].head = g.branch[x].head
    BY ONLY <2>1, <2>2 DEF rewireMergedBranches
  <2> QED BY <2>3, <2>4, <2>5
<1>5. /\ DOMAIN h.copy = DOMAIN g.copy
      /\ \A x \in DOMAIN h.copy : h.copy[x].work = to(g.copy[x].work)
      /\ DOMAIN h.rev = DOMAIN g.rev
      /\ \A x \in DOMAIN h.rev : /\ h.rev[x].work = to(g.rev[x].work)
                                 /\ h.rev[x].parents = g.rev[x].parents
      /\ DOMAIN h.snap = DOMAIN g.snap
      /\ \A x \in DOMAIN h.snap : /\ h.snap[x].work = to(g.snap[x].work)
                                  /\ h.snap[x].branch = g.snap[x].branch
                                  /\ h.snap[x].source = g.snap[x].source
  BY <1>1, <1>3 DEF reassignWorkId
<1>6. /\ DOMAIN h.occ = DOMAIN g.occ
      /\ \A x \in DOMAIN h.occ : h.occ[x].work = to(g.occ[x].work) /\ h.occ[x].sel = g.occ[x].sel
      /\ DOMAIN h.mark = DOMAIN g.mark
      /\ \A x \in DOMAIN h.mark : h.mark[x].work = to(g.mark[x].work) /\ h.mark[x].occ = g.mark[x].occ
  BY <1>1, <1>2, <1>3 DEF reassignWorkId
<1>7. DOMAIN h.link = DOMAIN g.link /\ \A l \in DOMAIN h.link : h.link[l].ends = E(l)
  <2>1. \A l \in DOMAIN g.link : g.link[l] \in LinkRecs BY GraphRecords
  <2>2. DOMAIN k = DOMAIN g.link /\ \A l \in DOMAIN g.link : k[l].ends = E(l)
    BY <2>1 DEF rewireMergedLinks, LinkRecs
  <2>3. k \in Tables(LinkIds, LinkRecs) BY <1>0, GraphFields, rewireMergedLinksType
  <2>4. h.link = retractDuplicateActiveLinks(k, first) BY <1>1
  <2> HIDE DEF k, E
  <2>5. \A l \in DOMAIN k : [k[l] EXCEPT !.active = FALSE].ends = k[l].ends
    BY <2>3, TableElim DEF LinkRecs
  <2>6. DOMAIN h.link = DOMAIN k /\ \A l \in DOMAIN k : h.link[l].ends = k[l].ends
    BY ONLY <2>4, <2>5 DEF retractDuplicateActiveLinks
  <2> QED BY <2>2, <2>6
<1>8. \A l \in DOMAIN g.link : \A e \in g.link[l].ends :
        /\ replaceEndpointWork(e, s, t).work = to(e.work)
        /\ replaceEndpointWork(e, s, t).rev = e.rev
  <2>1. \A e \in Endpoints : /\ replaceEndpointWork(e, s, t).work = to(e.work)
                             /\ replaceEndpointWork(e, s, t).rev = e.rev
    BY DEF replaceEndpointWork, Endpoints
  <2>2. \A l \in DOMAIN g.link : g.link[l].ends \subseteq Endpoints BY GraphRecords DEF LinkRecs
  <2> QED BY <2>1, <2>2
<1>9. h.resume # None =>
        g.resume # None /\ h.resume.work = to(g.resume.work) /\ h.resume.occ = g.resume.occ
  <2>1. g.resume \in Targets \cup {None} BY DEF Graphs
  <2>2. \A r \in Targets : [r EXCEPT !.work = t].work = t /\ [r EXCEPT !.work = t].occ = r.occ
    BY DEF Targets
  <2>3. CASE g.resume = None BY <1>2, <2>3
  <2>4. CASE g.resume # None /\ g.resume.work = s BY <1>2, <2>1, <2>2, <2>4
  <2>5. CASE g.resume # None /\ g.resume.work # s BY <1>2, <2>5
  <2> QED BY <2>3, <2>4, <2>5
<1>10. DOMAIN h.sugg = {} /\ h.related = {to(w) : w \in g.related} BY <1>2
<1> HIDE DEF k
<1>11. validateWorks(h) BY <1>0, <1>1, <1>2 DEF Valid, validateWorks
<1>12. validateBranches(h) BY <1>0, <1>1, <1>4, <1>5 DEF Valid, validateBranches
<1>13. validateWorkingCopies(h)
  BY <1>0, <1>1, <1>4, <1>5 DEF Valid, validateWorkingCopies, CopyOf
<1>14. validateRevisions(h)
  <2>1. \A r \in DOMAIN g.rev :
          /\ g.rev[r].work \in DOMAIN g.work
          /\ \A p \in g.rev[r].parents :
               p \in DOMAIN g.rev /\ p # r /\ g.rev[p].work = g.rev[r].work
    BY DEF Valid, validateRevisions
  <2>2. ASSUME NEW r \in DOMAIN h.rev
        PROVE  /\ h.rev[r].work \in DOMAIN h.work
               /\ \A p \in h.rev[r].parents :
                    p \in DOMAIN h.rev /\ p # r /\ h.rev[p].work = h.rev[r].work
    <3>1. r \in DOMAIN g.rev BY <1>5
    <3>2. h.rev[r].work \in DOMAIN h.work BY <1>0, <1>1, <1>5, <2>1, <3>1
    <3>3. h.rev[r].parents = g.rev[r].parents BY <1>5, <3>1
    <3>4. ASSUME NEW p \in g.rev[r].parents
          PROVE  p \in DOMAIN h.rev /\ p # r /\ h.rev[p].work = h.rev[r].work
      <4>1. p \in DOMAIN g.rev /\ p # r /\ g.rev[p].work = g.rev[r].work BY <2>1, <3>1
      <4> QED BY <1>5, <3>1, <4>1
    <3> QED BY <3>2, <3>3, <3>4
  <2> QED BY <2>2 DEF validateRevisions
<1>15. assertRevisionDag(h)
  <2>1. assertRevisionDag(g) BY DEF Valid
  <2> QED BY <1>5, <2>1 DEF assertRevisionDag
<1>16. validateRecoverySnapshots(h)
  BY <1>0, <1>1, <1>4, <1>5 DEF Valid, validateRecoverySnapshots
<1>17. validateOccurrences(h)
  BY <1>0, <1>1, <1>4, <1>5, <1>6 DEF Valid, validateOccurrences
<1>18. validateLinks(h)
  <2>1. ASSUME NEW l \in DOMAIN h.link, NEW e \in h.link[l].ends
        PROVE  /\ e.work \in DOMAIN h.work
               /\ e.rev # None => e.rev \in DOMAIN h.rev /\ h.rev[e.rev].work = e.work
    <3>1. PICK d \in g.link[l].ends : e = replaceEndpointWork(d, s, t) BY <1>7
    <3>2. l \in DOMAIN g.link /\ e.work = to(d.work) /\ e.rev = d.rev BY <1>7, <1>8, <3>1
    <3>3. /\ d.work \in DOMAIN g.work
          /\ d.rev # None => d.rev \in DOMAIN g.rev /\ g.rev[d.rev].work = d.work
      BY <3>1, <3>2 DEF Valid, validateLinks
    <3> QED BY <1>0, <1>1, <1>5, <3>2, <3>3
  <2> QED BY <2>1 DEF validateLinks
<1>19. validateSystemRelations(h) BY <1>0, <1>1, <1>10 DEF Valid, validateSystemRelations
<1>20. validateEmergenceSuggestions(h) BY <1>10 DEF validateEmergenceSuggestions
<1>21. validateBookmarks(h) /\ validateResumePosition(h)
  BY <1>0, <1>1, <1>6, <1>9 DEF Valid, validateBookmarks, validateResumePosition,
     ValidTarget, OccurrenceOf
<1> QED BY <1>11, <1>12, <1>13, <1>14, <1>15, <1>16, <1>17, <1>18, <1>19, <1>20, <1>21
        DEF Valid, h

LEMMA acceptEmergenceSuggestionValid ==
  ASSUME NEW g \in Graphs, Valid(g), NEW p \in DOMAIN g.sugg,
         {p[1], p[2]} \cap g.purgedWorks = {}, NEW l
  PROVE  Valid(acceptEmergenceSuggestion(g, p, l))
<1> DEFINE ends == {WorkEnd(p[1]), WorkEnd(p[2])}
           k == resolveEmergenceSuggestion(g, p, "resolved")
<1>1. PICK status, origin : status = "resolved" /\ origin = "suggestion" OBVIOUS
<1>2. k = resolveEmergenceSuggestion(g, p, status) BY <1>1
<1>3. k \in Graphs BY resolveEmergenceSuggestionType
<1>4. k.work = g.work BY DEF resolveEmergenceSuggestion, Graphs
<1>5. acceptEmergenceSuggestion(g, p, l) \in {k, createLink(k, l, ends, origin)}
  BY <1>1 DEF acceptEmergenceSuggestion
<1>6. {p[1], p[2]} \subseteq DOMAIN g.work
  BY DEF Valid, validateEmergenceSuggestions
<1> HIDE DEF k
<1>7. Valid(k) BY ONLY g \in Graphs, Valid(g), <1>2, resolveEmergenceSuggestionValid
<1>8. \A e \in ends : e.work \in DOMAIN k.work /\ e.rev = None BY <1>4, <1>6 DEF WorkEnd
<1> HIDE DEF ends
<1>9. Valid(createLink(k, l, ends, origin)) BY ONLY <1>3, <1>7, <1>8, createLinkValid
<1> QED BY <1>5, <1>7, <1>9

LEMMA createBranchValid ==
  ASSUME NEW g \in Graphs, Valid(g), NEW b, b \notin DOMAIN g.branch, NEW w \in DOMAIN g.work,
         NEW name, NEW head \in DOMAIN g.rev, g.rev[head].work = w, NEW blank
  PROVE  Valid(createBranch(g, b, w, name, head, blank))
<1> DEFINE h == createBranch(g, b, w, name, head, blank)
           v == [work |-> w, name |-> name, head |-> head]
           c == [work |-> w, blank |-> blank]
<1>1. /\ h.branch = Put(g.branch, b, v) /\ h.copy = Put(g.copy, b, c)
      /\ h.work = g.work /\ h.rev = g.rev /\ h.snap = g.snap /\ h.occ = g.occ
      /\ h.link = g.link /\ h.sugg = g.sugg /\ h.mark = g.mark /\ h.resume = g.resume
      /\ h.related = g.related /\ h.purgedWorks = g.purgedWorks /\ h.purgedOccs = g.purgedOccs
  BY DEF createBranch, Graphs
<1>2. v.work = w /\ v.head = head /\ c.work = w OBVIOUS
<1> HIDE DEF v, c, h
<1>3. /\ DOMAIN h.branch = DOMAIN g.branch \cup {b} /\ h.branch[b] = v
      /\ \A x \in DOMAIN g.branch : h.branch[x] = g.branch[x]
      /\ DOMAIN h.copy = DOMAIN g.copy \cup {b} /\ h.copy[b] = c
      /\ \A x \in DOMAIN g.copy \ {b} : h.copy[x] = g.copy[x]
  BY <1>1 DEF Put
<1>4. Keeps(g, h) BY <1>1, <1>3 DEF Keeps
<1>5. BranchesCarry(g, h) BY <1>1, <1>2, <1>3 DEF BranchesCarry
<1>6. CopiesCarry(g, h) BY <1>1, <1>2, <1>3 DEF CopiesCarry, CopyOf
<1>7. Valid(h) BY ONLY Valid(g), <1>1, <1>4, <1>5, <1>6, SameCarry, ValidCarried DEF Carries
<1> QED BY <1>7 DEF h

-----------------------------------------------------------------------------
(***************************************************************************)
(* A rewrite between its two commits.  Until a work is merged or purged,   *)
(* the work and the revision it is about are there.                        *)
(***************************************************************************)
RewriteHolds(g, rw) ==
  rw # None /\ g.purgedWorks \cup Tombs(g) = {} =>
    /\ rw.work \in DOMAIN g.work /\ rw.head \in DOMAIN g.rev
    /\ g.rev[rw.head].work = rw.work

\* Purges are not forgotten.
LEMMA ChangeRemembersPurges ==
  ASSUME NEW g \in Graphs, Valid(g), NEW h, Change(g, h)
  PROVE  \/ h.purgedWorks = g.purgedWorks
         \/ \E w \in DOMAIN g.work : h = applyWorkPurge(g, w)
         \/ \E s, t \in Active(g), first \in [DOMAIN g.link -> DOMAIN g.link] :
              h = applyMergeWorks(g, s, t, first)
<1>0. \A X, W, O : Follows(g, h, X, W, O) => h.purgedWorks = g.purgedWorks BY DEF Follows
<1>1. CASE Still(g, h) BY <1>1 DEF Still
<1>2. CASE OutlineChange(g, h)
  <2>0. \A o \in Items(g) : o \in DOMAIN g.occ BY DEF Items
  <2>1. CASE \E o, w, p, sel : h = createOccurrence(g, o, w, p, sel)
    <3>1. PICK o, w, p, sel : h = createOccurrence(g, o, w, p, sel) BY <2>1
    <3>2. Follows(g, createOccurrence(g, o, w, p, sel), {w}, {}, {o})
      BY createOccurrenceFollows
    <3> QED BY <1>0, <3>1, <3>2
  <2>2. CASE \/ \E w : h = resolveWorkStub(g, w)
             \/ \E W : h = applyWorkTrash(g, W)
    BY <1>0, <2>2, WorksFollow
  <2>3. CASE \/ \E o, p : h = [g EXCEPT !.occ[o].parent = p]
             \/ \E o, sel : h = [g EXCEPT !.occ[o].sel = sel]
    BY <1>0, <2>3, OutlineFollows
  <2>4. CASE \E o \in Items(g) : h = deleteItem(g, o)
    BY <1>0, <2>0, <2>4, deleteItemFollows
  <2>5. CASE \E O : h = discardEmptyItems(g, O)
    BY <1>0, <2>5, discardEmptyItemsFollows
  <2>6. CASE \E w : h = applyWorkRestore(g, w)
    BY <1>0, <2>6, applyWorkRestoreFollows
  <2> QED BY <1>2, <2>1, <2>2, <2>3, <2>4, <2>5, <2>6 DEF OutlineChange
<1>3. CASE WorkChange(g, h)
  <2>1. CASE \E w \in WorkIds, b \in BranchIds, stub \in BOOLEAN, blank \in BOOLEAN :
               h = createUnplacedWork(g, w, b, stub, blank)
    <3>1. PICK w \in WorkIds, b \in BranchIds, stub \in BOOLEAN, blank \in BOOLEAN :
            h = createUnplacedWork(g, w, b, stub, blank)
      BY <2>1
    <3>2. Follows(g, createUnplacedWork(g, w, b, stub, blank), {w}, {w}, {})
      BY createUnplacedWorkFollows
    <3> QED BY <1>0, <3>1, <3>2
  <2>2. CASE \E w \in WorkIds, b \in BranchIds, o \in OccIds, blank \in BOOLEAN : \E p :
               h = createWorkBundle(g, w, b, o, p, blank)
    <3>1. PICK w \in WorkIds, b \in BranchIds, o \in OccIds, blank \in BOOLEAN : \E p :
            h = createWorkBundle(g, w, b, o, p, blank)
      BY <2>2
    <3>2. \A p : Follows(g, createWorkBundle(g, w, b, o, p, blank), {w}, {w}, {o})
      BY createWorkBundleFollows
    <3> QED BY <1>0, <3>1, <3>2
  <2>3. CASE \/ \E w \in DOMAIN g.work : h = applyWorkPurge(g, w)
             \/ \E s, t \in Active(g), first \in [DOMAIN g.link -> DOMAIN g.link] :
                  h = applyMergeWorks(g, s, t, first)
    BY <2>3
  <2> QED BY <1>3, <2>1, <2>2, <2>3 DEF WorkChange
<1>4. CASE LinkChange(g, h)
  <2>1. CASE \/ \E l, E : h = createLink(g, l, E, "human")
             \/ \E v, w : h = deleteLink(g, v, w)
    BY <1>0, <2>1, LinksFollow
  <2>2. CASE \E p, l : h = acceptEmergenceSuggestion(g, p, l)
    <3>1. PICK p, l : h = acceptEmergenceSuggestion(g, p, l) BY <2>2
    <3> DEFINE k == resolveEmergenceSuggestion(g, p, "resolved")
    <3>2. k \in Graphs /\ k.purgedWorks = g.purgedWorks
      BY resolveEmergenceSuggestionType DEF resolveEmergenceSuggestion, Graphs
    <3>3. h = k \/ \E E : h = createLink(k, l, E, "suggestion")
      BY <3>1 DEF acceptEmergenceSuggestion
    <3> HIDE DEF k
    <3>4. \A E : createLink(k, l, E, "suggestion").purgedWorks = k.purgedWorks
      BY <3>2, LinksFollow DEF Follows
    <3> QED BY <3>2, <3>3, <3>4
  <2> QED BY <1>4, <2>1, <2>2 DEF LinkChange
<1>5. CASE HistoryChange(g, h)
  <2>1. CASE \E r, b, w, P : h = appendRevisionToBranch(g, r, b, w, P)
    BY <1>0, <2>1, appendRevisionToBranchFollows
  <2>2. CASE \E b, w, name, head, blank : h = createBranch(g, b, w, name, head, blank)
    BY <1>0, <2>2, createBranchFollows
  <2>3. CASE \E n, b : h = createRecoverySnapshot(g, n, b)
    BY <1>0, <2>3, createRecoverySnapshotFollows
  <2>4. CASE \E n \in DOMAIN g.snap, before \in SnapIds, blank \in BOOLEAN :
               /\ g.snap[n].branch \in DOMAIN g.branch \cap DOMAIN g.copy
               /\ h = applyRecoverySnapshotRestore(g, n, before, blank)
    <3>1. PICK n \in DOMAIN g.snap, before \in SnapIds, blank \in BOOLEAN :
            /\ g.snap[n].branch \in DOMAIN g.branch \cap DOMAIN g.copy
            /\ h = applyRecoverySnapshotRestore(g, n, before, blank)
      BY <2>4
    <3>2. Follows(g, applyRecoverySnapshotRestore(g, n, before, blank),
                  {g.copy[g.snap[n].branch].work}, {}, {})
      BY <3>1, applyRecoverySnapshotRestoreFollows
    <3> QED BY <1>0, <3>1, <3>2
  <2> QED BY <1>5, <2>1, <2>2, <2>3, <2>4 DEF HistoryChange
<1> QED BY <1>1, <1>2, <1>3, <1>4, <1>5 DEF Change

LEMMA StepKeepsRevisions ==
  ASSUME GraphInv, [Next]_vars, graph'.purgedWorks \cup Tombs(graph') = {}
  PROVE  /\ graph.purgedWorks \cup Tombs(graph) = {}
         /\ DOMAIN graph.work \subseteq DOMAIN graph'.work
         /\ \A r \in DOMAIN graph.rev :
              r \in DOMAIN graph'.rev /\ graph'.rev[r].work = graph.rev[r].work
<1>0. graph \in Graphs /\ Valid(graph) /\ Change(graph, graph')
  BY StepChange DEF GraphInv, TypeOK
<1>1. \A w \in DOMAIN graph.work : graph' # applyWorkPurge(graph, w)
  <2>1. ASSUME NEW w \in DOMAIN graph.work, graph' = applyWorkPurge(graph, w) PROVE FALSE
    <3> DEFINE k == [graph EXCEPT !.purgedWorks = @ \cup {w},
                                  !.purgedOccs = @ \cup Owned(graph.occ, w)]
               c == purgeAssociatedEntities(k, w)
    <3>0. w \in WorkIds /\ k \in Graphs /\ c \in Graphs
      BY <1>0, GraphTables, PurgedType
    <3>1. w \in c.purgedWorks
      <4>1. w \in k.purgedWorks BY <1>0 DEF Graphs
      <4> HIDE DEF k
      <4> QED BY <3>0, <4>1 DEF purgeAssociatedEntities, Graphs
    <3>2. graph' = cleanupOrphanOccurrences(c, DOMAIN c.occ) BY <2>1 DEF applyWorkPurge
    <3> HIDE DEF c
    <3>3. graph'.purgedWorks = c.purgedWorks BY <3>0, <3>2, OutlineFollows DEF Follows
    <3> QED BY <3>1, <3>3
  <2> QED BY <2>1
<1>2. \A s, t \in Active(graph), first \in [DOMAIN graph.link -> DOMAIN graph.link] :
        graph' # applyMergeWorks(graph, s, t, first)
  <2>1. ASSUME NEW s \in Active(graph), NEW t \in Active(graph),
               NEW first \in [DOMAIN graph.link -> DOMAIN graph.link],
               graph' = applyMergeWorks(graph, s, t, first)
        PROVE  FALSE
    <3>1. s \in DOMAIN graph.work /\ s \in WorkIds /\ t \in WorkIds
      BY <1>0, GraphTables DEF Active
    <3>2. s \in DOMAIN graph'.work /\ graph'.work[s].merged = t
      BY <1>0, <2>1, <3>1, applyMergeWorksEffect
    <3> QED BY <3>1, <3>2, NoneAssumption DEF Tombs
  <2> QED BY <2>1
<1>3. graph'.purgedWorks = graph.purgedWorks BY <1>0, <1>1, <1>2, ChangeRemembersPurges
<1>4. CASE Still(graph, graph') BY <1>3, <1>4 DEF Still, Tombs
<1>5. CASE OutlineChange(graph, graph') BY <1>0, <1>3, <1>5, OutlineKeeps DEF Tombs
<1>6. CASE WorkChange(graph, graph')
  <2>1. \E w \in WorkIds \ DOMAIN graph.work : \E b : AddsWork(graph, graph', w, b)
    BY <1>0, <1>1, <1>2, <1>6, createUnplacedWorkAdds, createWorkBundleAdds DEF WorkChange
  <2> QED BY <1>3, <2>1 DEF AddsWork, Tombs
<1>7. CASE LinkChange(graph, graph') BY <1>0, <1>3, <1>7, LinksKeep DEF Tombs
<1>8. CASE HistoryChange(graph, graph')
  BY <1>0, <1>3, <1>8, HistoryKeeps, HistoryBranchesStay DEF Tombs
<1> QED BY <1>0, <1>4, <1>5, <1>6, <1>7, <1>8 DEF Change

LEMMA RewritingStays ==
  ASSUME Next, ~RewriteCheckpoint, ~RewriteBranch
  PROVE  UNCHANGED rewriting
<1>1. CASE \/ CreateItem \/ CreateUnplacedWork \/ CreateOccurrence \/ UpdateText
           \/ ResolveStub \/ MoveItem \/ SetOccurrenceRevision \/ DeleteItem
           \/ DiscardEmptyItems
  BY ONLY <1>1 DEF CreateItem, CreateUnplacedWork, CreateOccurrence, UpdateText, ResolveStub,
     MoveItem, SetOccurrenceRevision, DeleteItem, DiscardEmptyItems, Run
<1>2. CASE TrashWork \/ ListUnplaced \/ RestoreWork \/ PurgeWork \/ MergeWorks
  BY ONLY <1>2 DEF TrashWork, ListUnplaced, RestoreWork, PurgeWork, MergeWorks, Run
<1>3. CASE \/ CreateBookmark \/ DeleteBookmark \/ SaveResumePosition \/ ClearResumePosition
           \/ CreateLink \/ DeleteLink \/ MaterializeSuggestion \/ ResolveSuggestion
  BY ONLY <1>3 DEF CreateBookmark, DeleteBookmark, SaveResumePosition, ClearResumePosition,
     CreateLink, DeleteLink, MaterializeSuggestion, ResolveSuggestion, Run
<1>4. CASE \/ CreateCheckpoint \/ CreateManualMerge
           \/ CreateRecoverySnapshot \/ RestoreSnapshot \/ PromoteSnapshot
  BY ONLY <1>4 DEF CreateCheckpoint, CreateManualMerge, CreateRecoverySnapshot,
     RestoreSnapshot, PromoteSnapshot, Run
<1> QED BY <1>1, <1>2, <1>3, <1>4 DEF Next

LEMMA RewriteStaysSound ==
  ASSUME GraphInv, RewriteHolds(graph, rewriting), [Next]_vars
  PROVE  RewriteHolds(graph', rewriting')
<1>0. graph \in Graphs /\ TypeOK /\ Valid(graph) BY DEF GraphInv, TypeOK
<1>1. CASE rewriting' = rewriting
  BY <1>1, StepKeepsRevisions DEF RewriteHolds
<1>2. CASE RewriteCheckpoint
  <2>1. PICK b, w, h, r, name, blank :
          /\ b \in DOMAIN graph.branch /\ w = graph.branch[b].work
          /\ \/ /\ rewriting' = [work |-> w, head |-> h, name |-> name, blank |-> blank]
                /\ h \in DOMAIN graph.rev /\ graph.rev[h].work = w /\ graph' = graph
             \/ /\ r \in NewRev
                /\ Commit("createRevision", appendRevisionToBranch(graph, r, b, w, {h} \ {None}))
                /\ validateRevisionCreation(graph, r, b, w, {h} \ {None})
                /\ IF graph' = graph THEN UNCHANGED rewriting
                   ELSE rewriting' = [work |-> w, head |-> r, name |-> name, blank |-> blank]
    BY ONLY <1>2 DEF RewriteCheckpoint
  <2>2. w \in DOMAIN graph.work BY <1>0, <2>1 DEF Valid, validateBranches
  <2>3. CASE rewriting' = rewriting BY <1>1, <2>3
  <2>4. CASE /\ rewriting' = [work |-> w, head |-> h, name |-> name, blank |-> blank]
             /\ h \in DOMAIN graph.rev /\ graph.rev[h].work = w /\ graph' = graph
    BY <2>2, <2>4 DEF RewriteHolds
  <2>5. CASE /\ rewriting' = [work |-> w, head |-> r, name |-> name, blank |-> blank]
             /\ r \in NewRev /\ graph' # graph
             /\ Commit("createRevision", appendRevisionToBranch(graph, r, b, w, {h} \ {None}))
             /\ validateRevisionCreation(graph, r, b, w, {h} \ {None})
    <3> DEFINE P == {h} \ {None}
    <3>1. graph' = appendRevisionToBranch(graph, r, b, w, P) BY <2>5 DEF Commit
    <3>2. r \in RevIds /\ b \in BranchIds /\ w \in WorkIds /\ P \in SUBSET RevIds
      BY <1>0, <2>2, <2>5, GraphTables DEF NewRev, validateRevisionCreation
    <3> HIDE DEF P
    <3>3. /\ r \in DOMAIN graph'.rev /\ graph'.rev[r].work = w
      BY <1>0, <3>1, <3>2, appendRevisionToBranchEffect
    <3>4. graph'.work = graph.work BY <1>0, <3>1 DEF appendRevisionToBranch, Graphs
    <3> QED BY <2>2, <2>5, <3>3, <3>4 DEF RewriteHolds
  <2> QED BY <2>1, <2>3, <2>4, <2>5
<1>3. CASE RewriteBranch BY <1>3 DEF RewriteBranch, RewriteHolds
<1> QED BY <1>1, <1>2, <1>3, RewritingStays DEF vars

\* Why operation op may be refused on graph g.
RefusalReason(g, op) ==
  \/ op \in {"deleteItem", "discardEmptyItems"} /\ Cited(g) \cap Items(g) # {}
  \/ op = "purgeWork" /\ \E w \in g.related \cap DOMAIN g.work : g.work[w].deleted
  \/ op = "mergeWorks" /\ DOMAIN g.sugg # {}
  \/ op = "acceptSuggestion" /\ \E p \in DOMAIN g.sugg : {p[1], p[2]} \cap g.purgedWorks # {}
  \/ op = "createBranch" /\ g.purgedWorks \cup Tombs(g) # {}

-----------------------------------------------------------------------------
\* Which operations are refused.

LEMMA Accepted ==
  ASSUME NEW h, Valid(h), NEW op, Commit(op, h)
  PROVE  RefusalsAreKnown'
BY DEF Commit, RefusalsAreKnown

\* A refused operation leaves the graph, and with it the reason, as it was.
LEMMA RefusedFor ==
  ASSUME NEW h, NEW op, Commit(op, h), refused' = op => RefusalReason(graph, op) \/ Valid(h)
  PROVE  RefusalsAreKnown'
<1>1. refused' = None => RefusalsAreKnown' BY DEF RefusalsAreKnown
<1>2. CASE refused' = op /\ graph' = graph /\ ~Valid(h)
  <2>1. RefusalReason(graph', refused') BY <1>2
  <2> QED BY <2>1 DEF RefusalReason, RefusalsAreKnown, InTrash, Tombs
<1>3. refused' = None \/ (refused' = op /\ graph' = graph /\ ~Valid(h)) BY DEF Commit
<1> QED BY <1>1, <1>2, <1>3

LEMMA PlacingAccepted ==
  ASSUME GraphInv,
         \/ CreateItem \/ CreateUnplacedWork \/ CreateOccurrence \/ UpdateText
         \/ ResolveStub \/ MoveItem \/ SetOccurrenceRevision \/ DeleteItem
  PROVE  RefusalsAreKnown'
<1>0. graph \in Graphs /\ TypeOK /\ Valid(graph) BY DEF GraphInv, TypeOK
<1>1. \A o \in NewOcc : o \in OccIds \ DOMAIN graph.occ
  BY DEF GraphInv, Sound, MemoryOfPurges, NewOcc
<1>2. CASE CreateItem
  <2>1. PICK w \in NewWorkId, b \in NewBranch, o \in NewOcc, p \in Parents, blank \in BOOLEAN :
          Run("createItem", createWorkBundle(graph, w, b, o, p, blank))
    BY ONLY <1>2 DEF CreateItem
  <2>2. w \in WorkIds \ DOMAIN graph.work /\ b \in BranchIds \ DOMAIN graph.branch
        /\ o \in OccIds \ DOMAIN graph.occ
    BY <1>1 DEF NewWorkId, NewBranch
  <2>3. Valid(createWorkBundle(graph, w, b, o, p, blank))
    BY ONLY <1>0, <2>2, blank \in BOOLEAN, createWorkBundleValid
  <2> QED BY <2>1, <2>3, Accepted DEF Run
<1>3. CASE CreateUnplacedWork
  <2>1. PICK w \in NewWorkId, b \in NewBranch, stub \in BOOLEAN :
          Run("createUnplacedWork", createUnplacedWork(graph, w, b, stub, stub))
    BY ONLY <1>3 DEF CreateUnplacedWork
  <2>2. w \in WorkIds \ DOMAIN graph.work /\ b \in BranchIds \ DOMAIN graph.branch
    BY DEF NewWorkId, NewBranch
  <2>3. Valid(createUnplacedWork(graph, w, b, stub, stub))
    BY ONLY <1>0, <2>2, createUnplacedWorkValid
  <2> QED BY <2>1, <2>3, Accepted DEF Run
<1>4. CASE CreateOccurrence
  <2>1. PICK o \in NewOcc, w \in Active(graph), p \in Items(graph) \cup {None} :
          \E sel \in Selectors(graph, w) :
            Run("createOccurrence", createOccurrence(graph, o, w, p, sel))
    BY ONLY <1>4 DEF CreateOccurrence
  <2>2. PICK sel \in Selectors(graph, w) :
          Run("createOccurrence", createOccurrence(graph, o, w, p, sel))
    BY ONLY <2>1
  <2>3. \/ sel \in DOMAIN graph.branch /\ graph.branch[sel].work = w
        \/ sel \in DOMAIN graph.rev /\ graph.rev[sel].work = w
    BY <1>0 DEF Selectors, Owned, Valid, validateOccurrences
  <2>4. o \in OccIds \ DOMAIN graph.occ /\ w \in DOMAIN graph.work BY <1>1 DEF Active
  <2>5. Valid(createOccurrence(graph, o, w, p, sel))
    BY ONLY <1>0, <2>3, <2>4, createOccurrenceValid
  <2> QED BY <2>2, <2>5, Accepted DEF Run
<1>5. CASE UpdateText
  <2>1. PICK b \in DOMAIN graph.copy, blank \in BOOLEAN :
          Run("updateText", updateBranchWorkingCopy(graph, b, blank))
    BY ONLY <1>5 DEF UpdateText
  <2>2. b \in BranchIds BY <1>0, PickedIds
  <2>3. Valid(updateBranchWorkingCopy(graph, b, blank))
    BY ONLY <1>0, <2>2, updateBranchWorkingCopyValid
  <2> QED BY <2>1, <2>3, Accepted DEF Run
<1>6. CASE ResolveStub
  <2>1. PICK w \in Active(graph) : Run("resolveStub", resolveWorkStub(graph, w))
    BY ONLY <1>6 DEF ResolveStub
  <2>2. w \in WorkIds BY <1>0, PickedIds
  <2>3. Valid(resolveWorkStub(graph, w)) BY ONLY <1>0, <2>2, resolveWorkStubValid
  <2> QED BY <2>1, <2>3, Accepted DEF Run
<1>7. CASE MoveItem
  <2>1. PICK o \in Items(graph), p \in Parents :
          Run("moveItem", [graph EXCEPT !.occ[o].parent = p])
    BY ONLY <1>7 DEF MoveItem
  <2>2. o \in DOMAIN graph.occ BY <1>0, PickedIds
  <2>3. Valid([graph EXCEPT !.occ[o].parent = p]) BY ONLY <1>0, <2>2, MovedValid
  <2> QED BY <2>1, <2>3, Accepted DEF Run
<1>8. CASE SetOccurrenceRevision
  <2>1. PICK o \in Items(graph) :
          \E sel \in Owned(graph.rev, graph.occ[o].work) \cup Mains(graph, graph.occ[o].work) :
            Run("setOccurrenceRevision", [graph EXCEPT !.occ[o].sel = sel])
    BY ONLY <1>8 DEF SetOccurrenceRevision
  <2>2. PICK sel \in Owned(graph.rev, graph.occ[o].work) \cup Mains(graph, graph.occ[o].work) :
          Run("setOccurrenceRevision", [graph EXCEPT !.occ[o].sel = sel])
    BY ONLY <2>1
  <2>3. \/ sel \in DOMAIN graph.branch /\ graph.branch[sel].work = graph.occ[o].work
        \/ sel \in DOMAIN graph.rev /\ graph.rev[sel].work = graph.occ[o].work
    BY DEF Owned, Mains
  <2>4. o \in DOMAIN graph.occ BY <1>0, PickedIds
  <2>5. Valid([graph EXCEPT !.occ[o].sel = sel])
    BY ONLY <1>0, <2>3, <2>4, SelectedValid
  <2> QED BY <2>2, <2>5, Accepted DEF Run
<1>9. CASE DeleteItem
  <2>1. PICK o \in Items(graph) : Run("deleteItem", deleteItem(graph, o))
    BY ONLY <1>9 DEF DeleteItem
  <2>2. Cited(graph) \cap Items(graph) = {} => Valid(deleteItem(graph, o))
    BY ONLY <1>0, <2>1, deleteItemValid
  <2> QED BY <2>1, <2>2, RefusedFor DEF Run, RefusalReason
<1> QED BY <1>2, <1>3, <1>4, <1>5, <1>6, <1>7, <1>8, <1>9

LEMMA TrashAndMergeAccepted ==
  ASSUME GraphInv,
         \/ DiscardEmptyItems \/ TrashWork \/ ListUnplaced \/ RestoreWork
         \/ PurgeWork \/ MergeWorks
  PROVE  RefusalsAreKnown'
<1>0. graph \in Graphs /\ TypeOK /\ Valid(graph) BY DEF GraphInv, TypeOK
<1>1. CASE TrashWork \/ ListUnplaced
  <2>1. PICK W, op : Run(op, applyWorkTrash(graph, W))
    BY ONLY <1>1 DEF TrashWork, ListUnplaced
  <2>2. Valid(applyWorkTrash(graph, W)) BY ONLY <1>0, applyWorkTrashValid
  <2> QED BY <2>1, <2>2, Accepted DEF Run
<1>2. CASE RestoreWork
  <2>1. PICK w \in InTrash : Run("restoreWork", applyWorkRestore(graph, w))
    BY ONLY <1>2 DEF RestoreWork
  <2>2. w \in WorkIds BY <1>0, PickedIds DEF InTrash
  <2>3. Valid(applyWorkRestore(graph, w)) BY ONLY <1>0, <2>2, applyWorkRestoreValid
  <2> QED BY <2>1, <2>3, Accepted DEF Run
<1>3. CASE PurgeWork
  <2>1. PICK w \in InTrash : Run("purgeWork", applyWorkPurge(graph, w))
    BY ONLY <1>3 DEF PurgeWork
  <2>2. w \in WorkIds BY <1>0, PickedIds DEF InTrash
  <2>3. w \notin graph.related => Valid(applyWorkPurge(graph, w))
    BY ONLY <1>0, <2>2, applyWorkPurgeValid
  <2>4. w \in DOMAIN graph.work /\ graph.work[w].deleted BY <2>1 DEF InTrash
  <2> QED BY <2>1, <2>3, <2>4, RefusedFor DEF Run, RefusalReason
<1>4. CASE MergeWorks
  <2>1. PICK s \in Active(graph), t \in Active(graph),
             first \in [DOMAIN graph.link -> DOMAIN graph.link] :
          s # t /\ Run("mergeWorks", applyMergeWorks(graph, s, t, first))
    BY ONLY <1>4 DEF MergeWorks
  <2>2. DOMAIN graph.sugg = {} => Valid(applyMergeWorks(graph, s, t, first))
    BY ONLY <1>0, <2>1, applyMergeWorksValid
  <2>3. graph.sugg = <<>> => DOMAIN graph.sugg = {} OBVIOUS
  <2> QED BY <2>1, <2>2, <2>3, RefusedFor DEF Run, RefusalReason
<1>5. CASE DiscardEmptyItems
  <2>1. PICK O \in SUBSET EmptyItems(graph) :
          Run("discardEmptyItems", discardEmptyItems(graph, O))
    BY ONLY <1>5 DEF DiscardEmptyItems
  <2>2. O \subseteq Items(graph) BY DEF EmptyItems, BlankItems
  <2>3. Cited(graph) \cap Items(graph) = {} => Valid(discardEmptyItems(graph, O))
    BY ONLY <1>0, <2>2, discardEmptyItemsValid
  <2> QED BY <2>1, <2>3, RefusedFor DEF Run, RefusalReason
<1> QED BY <1>1, <1>2, <1>3, <1>4, <1>5

LEMMA CitingAccepted ==
  ASSUME GraphInv,
         \/ CreateBookmark \/ DeleteBookmark \/ SaveResumePosition \/ ClearResumePosition
         \/ CreateLink \/ DeleteLink \/ MaterializeSuggestion \/ ResolveSuggestion
  PROVE  RefusalsAreKnown'
<1>0. graph \in Graphs /\ TypeOK /\ Valid(graph) BY DEF GraphInv, TypeOK
<1>1. \A o \in Placements(graph) : \A t :
        t.work = graph.occ[o].work /\ t.occ = o => ValidTarget(graph, t)
  BY DEF Placements, Active, ValidTarget, OccurrenceOf
<1>2. CASE CreateBookmark
  <2>1. PICK o \in Placements(graph), m \in MarkIds \ DOMAIN graph.mark :
          Run("createBookmark",
            [graph EXCEPT !.mark = Put(@, m, [work |-> graph.occ[o].work, occ |-> o])])
    BY ONLY <1>2 DEF CreateBookmark
  <2> DEFINE v == [work |-> graph.occ[o].work, occ |-> o]
             f == Put(graph.mark, m, v)
  <2>2. v.work = graph.occ[o].work /\ v.occ = o OBVIOUS
  <2>3. [graph EXCEPT !.mark = Put(@, m, v)] = [graph EXCEPT !.mark = f] OBVIOUS
  <2>4. Run("createBookmark", [graph EXCEPT !.mark = f]) BY ONLY <2>1, <2>3
  <2> HIDE DEF v
  <2>5. \A k \in DOMAIN f : (k \in DOMAIN graph.mark /\ f[k] = graph.mark[k]) \/ f[k] = v
    BY DEF Put
  <2> HIDE DEF f
  <2>6. ValidTarget(graph, v) BY <1>1, <2>2
  <2>7. Valid([graph EXCEPT !.mark = f]) BY ONLY <1>0, <2>5, <2>6, MarkedValid
  <2> QED BY <2>4, <2>7, Accepted DEF Run
<1>3. CASE DeleteBookmark
  <2>1. PICK m \in DOMAIN graph.mark :
          Run("deleteBookmark", [graph EXCEPT !.mark = Without(@, {m})])
    BY ONLY <1>3 DEF DeleteBookmark
  <2> DEFINE f == Without(graph.mark, {m})
  <2>2. [graph EXCEPT !.mark = Without(@, {m})] = [graph EXCEPT !.mark = f] OBVIOUS
  <2>3. Run("deleteBookmark", [graph EXCEPT !.mark = f]) BY ONLY <2>1, <2>2
  <2>4. \A k \in DOMAIN f : k \in DOMAIN graph.mark /\ f[k] = graph.mark[k] BY DEF Without
  <2> HIDE DEF f
  <2>5. Valid([graph EXCEPT !.mark = f]) BY ONLY <1>0, <2>4, MarkedValid
  <2> QED BY <2>3, <2>5, Accepted DEF Run
<1>4. CASE SaveResumePosition
  <2>1. PICK o \in Placements(graph) :
          Run("saveResumePosition",
            [graph EXCEPT !.resume = [work |-> graph.occ[o].work, occ |-> o]])
    BY ONLY <1>4 DEF SaveResumePosition
  <2> DEFINE v == [work |-> graph.occ[o].work, occ |-> o]
  <2>2. v.work = graph.occ[o].work /\ v.occ = o OBVIOUS
  <2> HIDE DEF v
  <2>3. ValidTarget(graph, v) BY <1>1, <2>2
  <2>4. Valid([graph EXCEPT !.resume = v]) BY ONLY <1>0, <2>3, ResumedValid
  <2> QED BY <2>1, <2>4, Accepted DEF Run, v
<1>5. CASE ClearResumePosition
  <2>1. Run("clearResumePosition", [graph EXCEPT !.resume = None])
    BY ONLY <1>5 DEF ClearResumePosition
  <2>2. Valid([graph EXCEPT !.resume = None])
    <3>1. PICK r : r = None OBVIOUS
    <3>2. Valid([graph EXCEPT !.resume = r]) BY ONLY <1>0, <3>1, ResumedValid
    <3> QED BY ONLY <3>1, <3>2
  <2> QED BY <2>1, <2>2, Accepted DEF Run
<1>6. CASE CreateLink
  <2>1. PICK l \in NewLink, e \in LinkEnds(graph), f \in LinkEnds(graph) :
          Run("createLink", createLink(graph, l, {e, f}, "human"))
    BY ONLY <1>6 DEF CreateLink
  <2>2. PICK E, origin : E = {e, f} /\ origin = "human" OBVIOUS
  <2>3. \A x \in E : /\ x.work \in DOMAIN graph.work
                     /\ x.rev # None => x.rev \in DOMAIN graph.rev /\ graph.rev[x.rev].work = x.work
    BY <2>2 DEF LinkEnds, Active, Owned
  <2>4. Valid(createLink(graph, l, E, origin)) BY ONLY <1>0, <2>3, createLinkValid
  <2> QED BY <2>1, <2>2, <2>4, Accepted DEF Run
<1>7. CASE DeleteLink
  <2>1. PICK v, w : Run("deleteLink", deleteLink(graph, v, w)) BY ONLY <1>7 DEF DeleteLink
  <2>2. Valid(deleteLink(graph, v, w)) BY ONLY <1>0, deleteLinkValid
  <2> QED BY <2>1, <2>2, Accepted DEF Run
<1>8. CASE MaterializeSuggestion
  <2>1. PICK from \in Items(graph), to \in Items(graph) :
          Run("materialize", upsertEmergenceSuggestion(
            graph, <<graph.occ[from].work, graph.occ[to].work>>, from, to))
    BY ONLY <1>8 DEF MaterializeSuggestion
  <2>2. PICK p : p = <<graph.occ[from].work, graph.occ[to].work>> OBVIOUS
  <2>3. /\ {p[1], p[2]} \subseteq DOMAIN graph.work
        /\ OccurrenceOf(graph, from, p[1]) /\ OccurrenceOf(graph, to, p[2])
    BY <2>2 DEF Items, OccurrenceOf
  <2>4. Valid(upsertEmergenceSuggestion(graph, p, from, to))
    BY ONLY <1>0, <2>3, upsertEmergenceSuggestionValid
  <2> QED BY <2>1, <2>2, <2>4, Accepted DEF Run
<1>9. CASE ResolveSuggestion
  <2>1. PICK p \in DOMAIN graph.sugg :
          \/ \E status :
               Run("resolveSuggestion", resolveEmergenceSuggestion(graph, p, status))
          \/ \E l \in NewLink :
               Run("acceptSuggestion", acceptEmergenceSuggestion(graph, p, l))
    BY ONLY <1>9 DEF ResolveSuggestion
  <2>2. \A status : Valid(resolveEmergenceSuggestion(graph, p, status))
    BY ONLY <1>0, resolveEmergenceSuggestionValid
  <2>3. {p[1], p[2]} \cap graph.purgedWorks = {} =>
          \A l : Valid(acceptEmergenceSuggestion(graph, p, l))
    BY ONLY <1>0, p \in DOMAIN graph.sugg, acceptEmergenceSuggestionValid
  <2>4. ASSUME NEW l, Run("acceptSuggestion", acceptEmergenceSuggestion(graph, p, l))
        PROVE  RefusalsAreKnown'
    BY <2>3, <2>4, RefusedFor DEF Run, RefusalReason
  <2> QED BY <2>1, <2>2, <2>4, Accepted DEF Run
<1> QED BY <1>2, <1>3, <1>4, <1>5, <1>6, <1>7, <1>8, <1>9

LEMMA HistoryAccepted ==
  ASSUME GraphInv, RewriteHolds(graph, rewriting),
         \/ CreateCheckpoint \/ CreateManualMerge \/ RewriteCheckpoint \/ RewriteBranch
         \/ CreateRecoverySnapshot \/ RestoreSnapshot \/ PromoteSnapshot
  PROVE  RefusalsAreKnown'
<1>0. graph \in Graphs /\ TypeOK /\ Valid(graph) BY DEF GraphInv, TypeOK
<1>1. ASSUME NEW r \in NewRev, NEW b, NEW w, NEW P, NEW op,
             validateRevisionCreation(graph, r, b, w, P),
             Commit(op, appendRevisionToBranch(graph, r, b, w, P))
      PROVE  RefusalsAreKnown'
  <2>1. r \in RevIds /\ b \in BranchIds /\ w \in WorkIds /\ P \in SUBSET RevIds
    BY <1>0, <1>1, PickedIds DEF NewRev, validateRevisionCreation
  <2>2. Valid(appendRevisionToBranch(graph, r, b, w, P))
    BY ONLY <1>0, <1>1, <2>1, appendRevisionToBranchValid
  <2> QED BY <1>1, <2>2, Accepted
<1>2. CASE CreateCheckpoint
  <2>1. PICK b \in DOMAIN graph.branch, r \in NewRev : \E w, P :
          /\ validateRevisionCreation(graph, r, b, w, P)
          /\ Run("createRevision", appendRevisionToBranch(graph, r, b, w, P))
    BY ONLY <1>2 DEF CreateCheckpoint
  <2> QED BY <1>1, <2>1 DEF Run
<1>3. CASE CreateManualMerge
  <2>1. PICK b \in DOMAIN graph.branch, r \in NewRev : \E w, P :
          /\ validateRevisionCreation(graph, r, b, w, P)
          /\ Run("createRevision", appendRevisionToBranch(graph, r, b, w, P))
    BY ONLY <1>3 DEF CreateManualMerge
  <2> QED BY <1>1, <2>1 DEF Run
<1>4. CASE RewriteCheckpoint
  <2>1. \/ refused' = None
        \/ \E b \in DOMAIN graph.branch, r \in NewRev : \E w, P :
             /\ validateRevisionCreation(graph, r, b, w, P)
             /\ Commit("createRevision", appendRevisionToBranch(graph, r, b, w, P))
    BY ONLY <1>4 DEF RewriteCheckpoint
  <2>2. refused' = None => RefusalsAreKnown' BY DEF RefusalsAreKnown
  <2> QED BY <1>1, <2>1, <2>2
<1>5. CASE RewriteBranch
  <2>1. PICK b \in NewBranch :
          /\ rewriting # None
          /\ Commit("createBranch", createBranch(graph, b, rewriting.work, rewriting.name,
                                                rewriting.head, rewriting.blank))
    BY ONLY <1>5 DEF RewriteBranch
  <2>2. b \notin DOMAIN graph.branch BY DEF NewBranch
  <2>3. graph.purgedWorks \cup Tombs(graph) = {} =>
          Valid(createBranch(graph, b, rewriting.work, rewriting.name,
                             rewriting.head, rewriting.blank))
    <3>1. SUFFICES ASSUME graph.purgedWorks \cup Tombs(graph) = {}
                   PROVE  Valid(createBranch(graph, b, rewriting.work, rewriting.name,
                                             rewriting.head, rewriting.blank))
      OBVIOUS
    <3>2. /\ rewriting.work \in DOMAIN graph.work /\ rewriting.head \in DOMAIN graph.rev
          /\ graph.rev[rewriting.head].work = rewriting.work
      BY <2>1, <3>1 DEF RewriteHolds
    <3> QED BY ONLY <1>0, <2>2, <3>2, createBranchValid
  <2> QED BY <2>1, <2>3, RefusedFor DEF RefusalReason
<1>6. CASE CreateRecoverySnapshot
  <2>1. PICK b \in DOMAIN graph.branch, n \in NewSnap :
          CopyOf(graph, b) /\ Run("createSnapshot", createRecoverySnapshot(graph, n, b))
    BY ONLY <1>6 DEF CreateRecoverySnapshot
  <2>2. n \in SnapIds /\ n \notin DOMAIN graph.snap /\ b \in BranchIds /\ b \in DOMAIN graph.copy
    BY <1>0, <2>1, PickedIds DEF NewSnap, CopyOf
  <2>3. Valid(createRecoverySnapshot(graph, n, b))
    BY ONLY <1>0, <2>2, createRecoverySnapshotValid
  <2> QED BY <2>1, <2>3, Accepted DEF Run
<1>7. CASE RestoreSnapshot
  <2>1. PICK n \in DOMAIN graph.snap, before \in NewSnap, blank \in BOOLEAN :
          /\ InScope(graph, n)
          /\ Run("restoreSnapshot", applyRecoverySnapshotRestore(graph, n, before, blank))
    BY ONLY <1>7 DEF RestoreSnapshot
  <2>2. before \in SnapIds /\ before \notin DOMAIN graph.snap
        /\ graph.snap[n].branch \in DOMAIN graph.copy
    BY <2>1 DEF NewSnap, InScope, CopyOf
  <2>3. n \in DOMAIN graph.snap /\ blank \in BOOLEAN OBVIOUS
  <2>4. Valid(applyRecoverySnapshotRestore(graph, n, before, blank))
    BY ONLY <1>0, <2>2, <2>3, applyRecoverySnapshotRestoreValid
  <2> QED BY <2>1, <2>4, Accepted DEF Run
<1>8. CASE PromoteSnapshot
  <2>1. PICK n \in DOMAIN graph.snap, r \in NewRev : \E b, w, P :
          /\ validateRevisionCreation(graph, r, b, w, P)
          /\ Run("promoteSnapshot", appendRevisionToBranch(graph, r, b, w, P))
    BY ONLY <1>8 DEF PromoteSnapshot
  <2> QED BY <1>1, <2>1 DEF Run
<1> QED BY <1>2, <1>3, <1>4, <1>5, <1>6, <1>7, <1>8

\* The operations of GraphStore that can pass their own checks and still be stopped
\* by the validation of the commit are these, and only for these reasons: deleting
\* or discarding items while a shown placement is cited; purging while a relation of
\* an old backup names a work in the trash; merging while there are suggestions;
\* accepting a suggestion for a purged work; the second commit of a rewrite after a
\* merge or a purge.  All other operations preserve the validity of the graph by
\* their own checks (validatedGraphStateSnapshot in graph_state_validation.ts,
\* called by commitFullMutation).
THEOREM RefusalsStayKnown == Spec => []RefusalsAreKnown
<1> DEFINE Inv == GraphInv /\ RewriteHolds(graph, rewriting) /\ RefusalsAreKnown
<1>1. Init => Inv
  <2>1. Init => RefusalsAreKnown /\ RewriteHolds(graph, rewriting)
    BY DEF Init, RefusalsAreKnown, RewriteHolds
  <2> QED BY <2>1, InitGraphInv
<1>2. Inv /\ [Next]_vars => Inv'
  <2> SUFFICES ASSUME Inv, [Next]_vars PROVE Inv' OBVIOUS
  <2>1. GraphInv' /\ RewriteHolds(graph, rewriting)'
    BY NextGraphInv, RewriteStaysSound
  <2>2. UNCHANGED vars => RefusalsAreKnown' BY DEF vars, RefusalsAreKnown, InTrash
  <2>3. Next => RefusalsAreKnown'
    BY PlacingAccepted, TrashAndMergeAccepted, CitingAccepted, HistoryAccepted DEF Next
  <2> QED BY <2>1, <2>2, <2>3
<1>3. Inv => RefusalsAreKnown OBVIOUS
<1> QED BY <1>1, <1>2, <1>3, PTL DEF Spec
=============================================================================
