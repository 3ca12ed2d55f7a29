--------------------------- MODULE GraphStoreProofs ---------------------------
(***************************************************************************)
(* What holds of the outline graph for any set of works, branches,         *)
(* placements, revisions and links.                                        *)
(***************************************************************************)
EXTENDS GraphStore, TLAPS

-----------------------------------------------------------------------------
\* Tables: functions on a part of the ids.

LEMMA TableIntro ==
  ASSUME NEW S, NEW R, NEW f, NEW D, D \subseteq S, f \in [D -> R]
  PROVE  f \in Tables(S, R)
BY DEF Tables

LEMMA TableElim ==
  ASSUME NEW S, NEW R, NEW f \in Tables(S, R)
  PROVE  /\ DOMAIN f \subseteq S /\ f \in [DOMAIN f -> R]
         /\ \A x \in DOMAIN f : f[x] \in R
<1>1. PICK D \in SUBSET S : f \in [D -> R] BY DEF Tables
<1> QED BY <1>1

LEMMA EmptyTable ==
  ASSUME NEW S, NEW R
  PROVE  <<>> \in Tables(S, R)
<1>1. <<>> \in [{} -> R] OBVIOUS
<1> QED BY <1>1, TableIntro

LEMMA PutTable ==
  ASSUME NEW S, NEW R, NEW f \in Tables(S, R), NEW k \in S, NEW v \in R
  PROVE  Put(f, k, v) \in Tables(S, R)
<1>1. Put(f, k, v) \in [DOMAIN f \cup {k} -> R] BY TableElim DEF Put
<1>2. DOMAIN f \cup {k} \subseteq S BY TableElim
<1> QED BY <1>1, <1>2, TableIntro

LEMMA WithoutTable ==
  ASSUME NEW S, NEW R, NEW f \in Tables(S, R), NEW X
  PROVE  Without(f, X) \in Tables(S, R)
<1>1. Without(f, X) \in [DOMAIN f \ X -> R] BY TableElim DEF Without
<1>2. DOMAIN f \ X \subseteq S BY TableElim
<1> QED BY <1>1, <1>2, TableIntro

LEMMA GraphFields ==
  ASSUME NEW g \in Graphs
  PROVE  /\ g.work \in Tables(WorkIds, WorkRecs)
         /\ g.branch \in Tables(BranchIds, BranchRecs)
         /\ g.copy \in Tables(BranchIds, CopyRecs)
         /\ g.rev \in Tables(RevIds, RevRecs)
         /\ g.snap \in Tables(SnapIds, SnapRecs)
         /\ g.occ \in Tables(OccIds, OccRecs)
         /\ g.mark \in Tables(MarkIds, Targets)
         /\ g.link \in Tables(LinkIds, LinkRecs)
         /\ g.sugg \in Tables(WorkIds \X WorkIds, SuggRecs)
         /\ g.related \in SUBSET WorkIds
         /\ g.resume \in Targets \cup {None}
         /\ g.purgedWorks \in SUBSET WorkIds
         /\ g.purgedOccs \in SUBSET OccIds
         /\ g.issued \in SUBSET OccIds
BY DEF Graphs

LEMMA GraphTables ==
  ASSUME NEW g \in Graphs
  PROVE  /\ DOMAIN g.work \subseteq WorkIds /\ g.work \in [DOMAIN g.work -> WorkRecs]
         /\ DOMAIN g.branch \subseteq BranchIds /\ g.branch \in [DOMAIN g.branch -> BranchRecs]
         /\ DOMAIN g.copy \subseteq BranchIds /\ g.copy \in [DOMAIN g.copy -> CopyRecs]
         /\ DOMAIN g.rev \subseteq RevIds /\ g.rev \in [DOMAIN g.rev -> RevRecs]
         /\ DOMAIN g.snap \subseteq SnapIds /\ g.snap \in [DOMAIN g.snap -> SnapRecs]
         /\ DOMAIN g.occ \subseteq OccIds /\ g.occ \in [DOMAIN g.occ -> OccRecs]
         /\ DOMAIN g.mark \subseteq MarkIds /\ g.mark \in [DOMAIN g.mark -> Targets]
         /\ DOMAIN g.link \subseteq LinkIds /\ g.link \in [DOMAIN g.link -> LinkRecs]
         /\ DOMAIN g.sugg \subseteq WorkIds \X WorkIds /\ g.sugg \in [DOMAIN g.sugg -> SuggRecs]
BY GraphFields, TableElim

LEMMA GraphRecords ==
  ASSUME NEW g \in Graphs
  PROVE  /\ \A x \in DOMAIN g.work : g.work[x] \in WorkRecs
         /\ \A x \in DOMAIN g.branch : g.branch[x] \in BranchRecs
         /\ \A x \in DOMAIN g.copy : g.copy[x] \in CopyRecs
         /\ \A x \in DOMAIN g.rev : g.rev[x] \in RevRecs
         /\ \A x \in DOMAIN g.snap : g.snap[x] \in SnapRecs
         /\ \A x \in DOMAIN g.occ : g.occ[x] \in OccRecs
         /\ \A x \in DOMAIN g.mark : g.mark[x] \in Targets
         /\ \A x \in DOMAIN g.link : g.link[x] \in LinkRecs
         /\ \A x \in DOMAIN g.sugg : g.sugg[x] \in SuggRecs
BY GraphTables

LEMMA RecordUpdates ==
  /\ \A r \in WorkRecs :
       /\ \A d \in BOOLEAN : [r EXCEPT !.deleted = d] \in WorkRecs
       /\ [r EXCEPT !.stub = FALSE] \in WorkRecs
       /\ \A m \in WorkIds : [r EXCEPT !.merged = m] \in WorkRecs
  /\ \A r \in BranchRecs :
       /\ \A h \in RevIds : [r EXCEPT !.head = h] \in BranchRecs
       /\ \A w \in WorkIds : [r EXCEPT !.work = w, !.name = "merged"] \in BranchRecs
  /\ \A r \in CopyRecs : \A blank \in BOOLEAN : [r EXCEPT !.blank = blank] \in CopyRecs
  /\ \A r \in OccRecs :
       /\ \A p \in OccIds \cup {None} : [r EXCEPT !.parent = p] \in OccRecs
       /\ \A v \in BranchIds \cup RevIds : [r EXCEPT !.sel = v] \in OccRecs
  /\ \A r \in LinkRecs :
       /\ [r EXCEPT !.active = FALSE] \in LinkRecs
       /\ \A E \in SUBSET Endpoints : [r EXCEPT !.ends = E] \in LinkRecs
  /\ \A r \in SuggRecs : \A v \in {"held", "resolved"} : [r EXCEPT !.status = v] \in SuggRecs
<1>1. \A r \in WorkRecs :
        /\ \A d \in BOOLEAN : [r EXCEPT !.deleted = d] \in WorkRecs
        /\ [r EXCEPT !.stub = FALSE] \in WorkRecs
        /\ \A m \in WorkIds : [r EXCEPT !.merged = m] \in WorkRecs
  BY DEF WorkRecs
<1>2. \A r \in BranchRecs :
        /\ \A h \in RevIds : [r EXCEPT !.head = h] \in BranchRecs
        /\ \A w \in WorkIds : [r EXCEPT !.work = w, !.name = "merged"] \in BranchRecs
  BY DEF BranchRecs
<1>3. \A r \in CopyRecs : \A blank \in BOOLEAN : [r EXCEPT !.blank = blank] \in CopyRecs
  BY DEF CopyRecs
<1>4. \A r \in OccRecs :
        /\ \A p \in OccIds \cup {None} : [r EXCEPT !.parent = p] \in OccRecs
        /\ \A v \in BranchIds \cup RevIds : [r EXCEPT !.sel = v] \in OccRecs
  BY DEF OccRecs
<1>5. \A r \in LinkRecs :
        /\ [r EXCEPT !.active = FALSE] \in LinkRecs
        /\ \A E \in SUBSET Endpoints : [r EXCEPT !.ends = E] \in LinkRecs
  BY DEF LinkRecs
<1>6. \A r \in SuggRecs : \A v \in {"held", "resolved"} :
        [r EXCEPT !.status = v] \in SuggRecs
  BY DEF SuggRecs
<1> QED BY <1>1, <1>2, <1>3, <1>4, <1>5, <1>6

LEMMA InitTypeOK == Init => TypeOK
<1> SUFFICES ASSUME Init PROVE graph \in Graphs BY DEF Init, TypeOK
<1>1. EmptyGraph \in Graphs BY EmptyTable DEF EmptyGraph, Graphs
<1>2. ASSUME OldBackup(graph) PROVE graph \in Graphs
  <2>1. PICK B \in SUBSET BranchIds, O \in SUBSET OccIds, related \in SUBSET WorkIds :
          \E owner \in [B -> WorkIds], shown \in [O -> B] :
            graph = migrateBackupV0(owner, shown, related)
    BY <1>2 DEF OldBackup
  <2>2. PICK owner \in [B -> WorkIds], shown \in [O -> B] :
          graph = migrateBackupV0(owner, shown, related)
    BY <2>1
  <2> DEFINE work == [w \in {owner[b] : b \in B} |-> NewWork(FALSE)]
             branch == [b \in B |-> [work |-> owner[b], name |-> "main", head |-> None]]
             copy == [b \in B |-> [work |-> owner[b], blank |-> FALSE]]
             occ == [o \in O |-> [work |-> owner[shown[o]], parent |-> None, sel |-> shown[o]]]
  <2>3. work \in Tables(WorkIds, WorkRecs)
    <3>1. NewWork(FALSE) \in WorkRecs BY DEF NewWork, WorkRecs
    <3>2. work \in [{owner[b] : b \in B} -> WorkRecs] BY <3>1
    <3>3. {owner[b] : b \in B} \subseteq WorkIds OBVIOUS
    <3> HIDE DEF work
    <3> QED BY <3>2, <3>3, TableIntro
  <2>4. branch \in Tables(BranchIds, BranchRecs)
    <3>1. \A b \in B : [work |-> owner[b], name |-> "main", head |-> None] \in BranchRecs
      BY DEF BranchRecs
    <3>2. branch \in [B -> BranchRecs] BY <3>1
    <3> QED BY <3>2, TableIntro
  <2>5. copy \in Tables(BranchIds, CopyRecs)
    <3>1. \A b \in B : [work |-> owner[b], blank |-> FALSE] \in CopyRecs BY DEF CopyRecs
    <3>2. copy \in [B -> CopyRecs] BY <3>1
    <3> QED BY <3>2, TableIntro
  <2>6. occ \in Tables(OccIds, OccRecs)
    <3>1. \A o \in O : [work |-> owner[shown[o]], parent |-> None, sel |-> shown[o]] \in OccRecs
      BY DEF OccRecs
    <3>2. occ \in [O -> OccRecs] BY <3>1
    <3> QED BY <3>2, TableIntro
  <2> HIDE DEF work, branch, copy, occ
  <2>7. DOMAIN owner = B /\ DOMAIN shown = O OBVIOUS
  <2>8. graph = [EmptyGraph EXCEPT !.work = work, !.branch = branch, !.copy = copy,
                                   !.occ = occ, !.issued = O, !.related = related]
    BY <2>2, <2>7 DEF migrateBackupV0, work, branch, copy, occ
  <2> QED BY <1>1, <2>3, <2>4, <2>5, <2>6, <2>8 DEF Graphs
<1> QED BY <1>1, <1>2 DEF Init

\* What the first graph has and has not, be it empty or restored from an old backup.
LEMMA InitParts ==
  ASSUME Init
  PROVE  /\ graph.rev = <<>> /\ graph.snap = <<>> /\ graph.mark = <<>>
         /\ graph.link = <<>> /\ graph.sugg = <<>> /\ graph.resume = None
         /\ graph.purgedWorks = {} /\ graph.purgedOccs = {}
         /\ graph.issued = DOMAIN graph.occ /\ graph.related \subseteq DOMAIN graph.work
         /\ \A w \in DOMAIN graph.work : graph.work[w] = NewWork(FALSE)
         /\ \A w \in DOMAIN graph.work : \E b \in DOMAIN graph.branch : graph.branch[b].work = w
         /\ \A b \in DOMAIN graph.branch :
              /\ graph.branch[b].work \in DOMAIN graph.work
              /\ graph.branch[b].name = "main" /\ graph.branch[b].head = None
              /\ \A c \in DOMAIN graph.branch : graph.branch[b].work = graph.branch[c].work => b = c
         /\ DOMAIN graph.copy = DOMAIN graph.branch
         /\ \A b \in DOMAIN graph.copy : graph.copy[b].work = graph.branch[b].work
         /\ \A o \in DOMAIN graph.occ :
              /\ graph.occ[o].sel \in DOMAIN graph.branch
              /\ graph.occ[o].work = graph.branch[graph.occ[o].sel].work
              /\ graph.occ[o].parent = None
<1>1. CASE graph = EmptyGraph
  <2>1. /\ graph.rev = <<>> /\ graph.snap = <<>> /\ graph.mark = <<>>
        /\ graph.link = <<>> /\ graph.sugg = <<>> /\ graph.resume = None
        /\ graph.purgedWorks = {} /\ graph.purgedOccs = {}
        /\ graph.issued = {} /\ graph.related = {}
        /\ graph.work = <<>> /\ graph.branch = <<>> /\ graph.copy = <<>> /\ graph.occ = <<>>
    BY <1>1 DEF EmptyGraph
  <2>2. DOMAIN <<>> = {} OBVIOUS
  <2> QED BY <2>1, <2>2
<1>2. CASE OldBackup(graph)
  <2>1. PICK B \in SUBSET BranchIds, O \in SUBSET OccIds, related \in SUBSET WorkIds :
          \E owner \in [B -> WorkIds], shown \in [O -> B] :
            /\ OneToOne(owner) /\ related \subseteq {owner[b] : b \in B}
            /\ graph = migrateBackupV0(owner, shown, related)
    BY <1>2 DEF OldBackup
  <2>2. PICK owner \in [B -> WorkIds], shown \in [O -> B] :
          /\ OneToOne(owner) /\ related \subseteq {owner[b] : b \in B}
          /\ graph = migrateBackupV0(owner, shown, related)
    BY <2>1
  <2>3. DOMAIN owner = B /\ DOMAIN shown = O OBVIOUS
  <2>4. /\ graph.rev = <<>> /\ graph.snap = <<>> /\ graph.mark = <<>>
        /\ graph.link = <<>> /\ graph.sugg = <<>> /\ graph.resume = None
        /\ graph.purgedWorks = {} /\ graph.purgedOccs = {}
        /\ graph.issued = O /\ graph.related = related
        /\ graph.work = [w \in {owner[b] : b \in B} |-> NewWork(FALSE)]
        /\ graph.branch = [b \in B |-> [work |-> owner[b], name |-> "main", head |-> None]]
        /\ graph.copy = [b \in B |-> [work |-> owner[b], blank |-> FALSE]]
        /\ graph.occ = [o \in O |->
                          [work |-> owner[shown[o]], parent |-> None, sel |-> shown[o]]]
    BY <2>2, <2>3 DEF migrateBackupV0, EmptyGraph
  <2>5. /\ DOMAIN graph.work = {owner[b] : b \in B}
        /\ \A w \in DOMAIN graph.work : graph.work[w] = NewWork(FALSE)
    BY <2>4
  <2>6. /\ DOMAIN graph.branch = B
        /\ \A b \in B : /\ graph.branch[b].work = owner[b]
                       /\ graph.branch[b].name = "main" /\ graph.branch[b].head = None
    BY <2>4
  <2>7. DOMAIN graph.copy = B /\ \A b \in B : graph.copy[b].work = owner[b] BY <2>4
  <2>8. /\ DOMAIN graph.occ = O
        /\ \A o \in O : /\ graph.occ[o].sel = shown[o] /\ graph.occ[o].parent = None
                       /\ graph.occ[o].work = owner[shown[o]]
    BY <2>4
  <2>9. \A b, c \in B : owner[b] = owner[c] => b = c BY <2>2, <2>3 DEF OneToOne
  <2>10. graph.related \subseteq DOMAIN graph.work BY <2>2, <2>4, <2>5
  <2>11. \A w \in DOMAIN graph.work : \E b \in DOMAIN graph.branch : graph.branch[b].work = w
    BY <2>5, <2>6
  <2>12. \A b \in B : owner[b] \in DOMAIN graph.work BY <2>5
  <2>13. \A o \in O : shown[o] \in B OBVIOUS
  <2>14. graph.issued = DOMAIN graph.occ BY <2>4, <2>8
  <2>15. \A b \in DOMAIN graph.branch :
           /\ graph.branch[b].work \in DOMAIN graph.work
           /\ graph.branch[b].name = "main" /\ graph.branch[b].head = None
           /\ \A c \in DOMAIN graph.branch : graph.branch[b].work = graph.branch[c].work => b = c
    BY <2>6, <2>9, <2>12
  <2>16. /\ DOMAIN graph.copy = DOMAIN graph.branch
         /\ \A b \in DOMAIN graph.copy : graph.copy[b].work = graph.branch[b].work
    BY <2>6, <2>7
  <2>17. \A o \in DOMAIN graph.occ :
           /\ graph.occ[o].sel \in DOMAIN graph.branch
           /\ graph.occ[o].work = graph.branch[graph.occ[o].sel].work
           /\ graph.occ[o].parent = None
    BY <2>6, <2>8, <2>13
  <2> QED BY <2>4, <2>5, <2>10, <2>11, <2>14, <2>15, <2>16, <2>17
<1> QED BY <1>1, <1>2 DEF Init

-----------------------------------------------------------------------------
\* Each operation returns a graph.

LEMMA createUnplacedWorkType ==
  ASSUME NEW g \in Graphs, NEW w \in WorkIds, NEW b \in BranchIds,
         NEW stub \in BOOLEAN, NEW blank \in BOOLEAN
  PROVE  createUnplacedWork(g, w, b, stub, blank) \in Graphs
<1>1. Put(g.work, w, NewWork(stub)) \in Tables(WorkIds, WorkRecs)
  BY GraphFields, PutTable DEF NewWork, WorkRecs
<1>2. Put(g.branch, b, [work |-> w, name |-> "main", head |-> None]) \in Tables(BranchIds, BranchRecs)
  BY GraphFields, PutTable DEF BranchRecs
<1>3. Put(g.copy, b, [work |-> w, blank |-> blank]) \in Tables(BranchIds, CopyRecs)
  BY GraphFields, PutTable DEF CopyRecs
<1> QED BY <1>1, <1>2, <1>3 DEF createUnplacedWork, Graphs

LEMMA createOccurrenceType ==
  ASSUME NEW g \in Graphs, NEW o \in OccIds, NEW w \in WorkIds,
         NEW p \in OccIds \cup {None}, NEW sel \in BranchIds \cup RevIds
  PROVE  createOccurrence(g, o, w, p, sel) \in Graphs
<1>1. Put(g.occ, o, [work |-> w, parent |-> p, sel |-> sel]) \in Tables(OccIds, OccRecs)
  BY GraphFields, PutTable DEF OccRecs
<1> QED BY <1>1 DEF createOccurrence, Graphs

LEMMA updateBranchWorkingCopyType ==
  ASSUME NEW g \in Graphs, NEW b, NEW blank \in BOOLEAN
  PROVE  updateBranchWorkingCopy(g, b, blank) \in Graphs
<1>1. [g.copy EXCEPT ![b].blank = blank] \in Tables(BranchIds, CopyRecs)
  <2>1. \A x \in DOMAIN g.copy : g.copy[x] \in CopyRecs BY GraphRecords
  <2>2. b \in DOMAIN g.copy => [g.copy[b] EXCEPT !.blank = blank] \in CopyRecs
    BY <2>1, RecordUpdates
  <2>3. [g.copy EXCEPT ![b].blank = blank] \in [DOMAIN g.copy -> CopyRecs]
    BY <2>2, GraphTables
  <2> QED BY <2>3, GraphTables, TableIntro
<1> QED BY <1>1 DEF updateBranchWorkingCopy, Graphs

LEMMA createWorkBundleType ==
  ASSUME NEW g \in Graphs, NEW w \in WorkIds, NEW b \in BranchIds, NEW o \in OccIds,
         NEW p \in OccIds \cup {None}, NEW blank \in BOOLEAN
  PROVE  createWorkBundle(g, w, b, o, p, blank) \in Graphs
BY createUnplacedWorkType, createOccurrenceType DEF createWorkBundle

LEMMA resolveWorkStubType ==
  ASSUME NEW g \in Graphs, NEW w
  PROVE  resolveWorkStub(g, w) \in Graphs
<1>1. \A x \in DOMAIN g.work : g.work[x] \in WorkRecs BY GraphRecords
<1>2. w \in DOMAIN g.work => [g.work[w] EXCEPT !.stub = FALSE] \in WorkRecs
  BY <1>1, RecordUpdates
<1>3. [g.work EXCEPT ![w].stub = FALSE] \in [DOMAIN g.work -> WorkRecs]
  BY <1>2, GraphTables
<1>4. [g.work EXCEPT ![w].stub = FALSE] \in Tables(WorkIds, WorkRecs)
  BY <1>3, GraphTables, TableIntro
<1> QED BY <1>4 DEF resolveWorkStub, Graphs

LEMMA applyWorkTrashType ==
  ASSUME NEW g \in Graphs, NEW W
  PROVE  applyWorkTrash(g, W) \in Graphs
<1> DEFINE f == [w \in DOMAIN g.work |->
                  IF w \in W THEN [g.work[w] EXCEPT !.deleted = TRUE] ELSE g.work[w]]
<1>1. \A x \in DOMAIN g.work :
        g.work[x] \in WorkRecs /\ [g.work[x] EXCEPT !.deleted = TRUE] \in WorkRecs
  BY GraphRecords, RecordUpdates
<1>2. f \in [DOMAIN g.work -> WorkRecs] BY <1>1
<1>3. f \in Tables(WorkIds, WorkRecs) BY <1>2, GraphTables, TableIntro
<1> QED BY <1>3 DEF applyWorkTrash, Graphs

LEMMA cleanupOrphanOccurrencesType ==
  ASSUME NEW g \in Graphs, NEW O
  PROVE  cleanupOrphanOccurrences(g, O) \in Graphs
<1> DEFINE f == [o \in DOMAIN g.occ |->
                  IF o \in O /\ g.occ[o].parent # None /\ g.occ[o].parent \notin DOMAIN g.occ
                    THEN [g.occ[o] EXCEPT !.parent = None] ELSE g.occ[o]]
<1>1. \A x \in DOMAIN g.occ :
        g.occ[x] \in OccRecs /\ [g.occ[x] EXCEPT !.parent = None] \in OccRecs
  BY GraphRecords, RecordUpdates
<1>2. f \in [DOMAIN g.occ -> OccRecs] BY <1>1
<1>3. f \in Tables(OccIds, OccRecs) BY <1>2, GraphTables, TableIntro
<1> QED BY <1>3 DEF cleanupOrphanOccurrences, Graphs

LEMMA RestoredType ==
  ASSUME NEW g \in Graphs, NEW w
  PROVE  [g EXCEPT !.work[w].deleted = FALSE] \in Graphs
<1>1. w \in DOMAIN g.work => [g.work[w] EXCEPT !.deleted = FALSE] \in WorkRecs
  BY GraphRecords, RecordUpdates
<1>2. [g.work EXCEPT ![w].deleted = FALSE] \in [DOMAIN g.work -> WorkRecs]
  BY <1>1, GraphTables
<1>3. [g.work EXCEPT ![w].deleted = FALSE] \in Tables(WorkIds, WorkRecs)
  BY <1>2, GraphTables, TableIntro
<1> QED BY <1>3 DEF Graphs

LEMMA applyWorkRestoreType ==
  ASSUME NEW g \in Graphs, NEW w
  PROVE  applyWorkRestore(g, w) \in Graphs
<1> DEFINE h == [g EXCEPT !.work[w].deleted = FALSE]
<1>1. h \in Graphs BY RestoredType
<1> HIDE DEF h
<1>2. cleanupOrphanOccurrences(h, Owned(h.occ, w)) \in Graphs
  BY <1>1, cleanupOrphanOccurrencesType
<1> QED BY <1>2 DEF applyWorkRestore, h

LEMMA deleteItemType ==
  ASSUME NEW g \in Graphs, NEW o \in DOMAIN g.occ
  PROVE  deleteOccurrenceWithPromotion(g, o) \in Graphs /\ deleteItem(g, o) \in Graphs
<1> DEFINE f == [c \in DOMAIN g.occ \ {o} |->
                  IF c \in Items(g) /\ g.occ[c].parent = o
                    THEN [g.occ[c] EXCEPT !.parent = g.occ[o].parent] ELSE g.occ[c]]
<1>0. g.occ[o].parent \in OccIds \cup {None} BY GraphRecords DEF OccRecs
<1>1. \A x \in DOMAIN g.occ :
        /\ g.occ[x] \in OccRecs
        /\ [g.occ[x] EXCEPT !.parent = g.occ[o].parent] \in OccRecs
  BY <1>0, GraphRecords, RecordUpdates
<1>2. f \in [DOMAIN g.occ \ {o} -> OccRecs] BY <1>1
<1>3. f \in Tables(OccIds, OccRecs) BY <1>2, GraphTables, TableIntro
<1>4. deleteOccurrenceWithPromotion(g, o) \in Graphs
  BY <1>3 DEF deleteOccurrenceWithPromotion, Graphs
<1> QED BY <1>4, applyWorkTrashType DEF deleteItem, trashBlankUnplacedWorks

LEMMA discardEmptyItemsType ==
  ASSUME NEW g \in Graphs, NEW O
  PROVE  [g EXCEPT !.occ = Without(@, O)] \in Graphs /\ discardEmptyItems(g, O) \in Graphs
<1>1. Without(g.occ, O) \in Tables(OccIds, OccRecs) BY GraphFields, WithoutTable
<1>2. [g EXCEPT !.occ = Without(@, O)] \in Graphs BY <1>1 DEF Graphs
<1> QED BY <1>2, applyWorkTrashType DEF discardEmptyItems, trashBlankUnplacedWorks

LEMMA purgeAssociatedEntitiesType ==
  ASSUME NEW k \in Graphs, NEW w
  PROVE  purgeAssociatedEntities(k, w) \in Graphs
<1>1. /\ \A X : Without(k.work, X) \in Tables(WorkIds, WorkRecs)
      /\ \A X : Without(k.branch, X) \in Tables(BranchIds, BranchRecs)
      /\ \A X : Without(k.copy, X) \in Tables(BranchIds, CopyRecs)
      /\ \A X : Without(k.rev, X) \in Tables(RevIds, RevRecs)
      /\ \A X : Without(k.snap, X) \in Tables(SnapIds, SnapRecs)
      /\ \A X : Without(k.mark, X) \in Tables(MarkIds, Targets)
      /\ \A X : Without(k.occ, X) \in Tables(OccIds, OccRecs)
      /\ \A X : Without(k.link, X) \in Tables(LinkIds, LinkRecs)
  BY GraphFields, WithoutTable
<1> QED BY <1>1 DEF purgeAssociatedEntities, Graphs

LEMMA PurgedType ==
  ASSUME NEW g \in Graphs, NEW w \in WorkIds,
         NEW k, k = [g EXCEPT !.purgedWorks = @ \cup {w},
                              !.purgedOccs = @ \cup Owned(g.occ, w)]
  PROVE  k \in Graphs /\ purgeAssociatedEntities(k, w) \in Graphs
<1>1. Owned(g.occ, w) \subseteq OccIds BY GraphTables DEF Owned
<1>2. k \in Graphs BY <1>1 DEF Graphs
<1> QED BY <1>2, purgeAssociatedEntitiesType

LEMMA applyWorkPurgeType ==
  ASSUME NEW g \in Graphs, NEW w \in WorkIds
  PROVE  applyWorkPurge(g, w) \in Graphs
<1> DEFINE k == [g EXCEPT !.purgedWorks = @ \cup {w},
                          !.purgedOccs = @ \cup Owned(g.occ, w)]
           h == purgeAssociatedEntities(k, w)
<1>1. h \in Graphs BY PurgedType
<1> HIDE DEF h
<1>2. cleanupOrphanOccurrences(h, DOMAIN h.occ) \in Graphs
  BY <1>1, cleanupOrphanOccurrencesType
<1> QED BY <1>2 DEF applyWorkPurge, h

LEMMA reassignWorkIdType ==
  ASSUME NEW S, NEW R, NEW f \in Tables(S, R), NEW s, NEW t,
         \A r \in R : [r EXCEPT !.work = t] \in R
  PROVE  reassignWorkId(f, s, t) \in Tables(S, R)
<1>1. DOMAIN f \subseteq S /\ \A x \in DOMAIN f : f[x] \in R BY TableElim
<1>2. reassignWorkId(f, s, t) \in [DOMAIN f -> R] BY <1>1 DEF reassignWorkId
<1> QED BY <1>1, <1>2, TableIntro

LEMMA WorkUpdates ==
  ASSUME NEW w \in WorkIds
  PROVE  /\ \A r \in CopyRecs : [r EXCEPT !.work = w] \in CopyRecs
         /\ \A r \in RevRecs : [r EXCEPT !.work = w] \in RevRecs
         /\ \A r \in SnapRecs : [r EXCEPT !.work = w] \in SnapRecs
         /\ \A r \in OccRecs : [r EXCEPT !.work = w] \in OccRecs
         /\ \A r \in Targets : [r EXCEPT !.work = w] \in Targets
         /\ \A r \in Endpoints : [r EXCEPT !.work = w] \in Endpoints
<1>1. \A r \in CopyRecs : [r EXCEPT !.work = w] \in CopyRecs BY DEF CopyRecs
<1>2. \A r \in RevRecs : [r EXCEPT !.work = w] \in RevRecs BY DEF RevRecs
<1>3. \A r \in SnapRecs : [r EXCEPT !.work = w] \in SnapRecs BY DEF SnapRecs
<1>4. \A r \in OccRecs : [r EXCEPT !.work = w] \in OccRecs BY DEF OccRecs
<1>5. \A r \in Targets : [r EXCEPT !.work = w] \in Targets BY DEF Targets
<1>6. \A r \in Endpoints : [r EXCEPT !.work = w] \in Endpoints BY DEF Endpoints
<1> QED BY <1>1, <1>2, <1>3, <1>4, <1>5, <1>6

LEMMA rewireMergedBranchesType ==
  ASSUME NEW f \in Tables(BranchIds, BranchRecs), NEW s, NEW t \in WorkIds
  PROVE  rewireMergedBranches(f, s, t) \in Tables(BranchIds, BranchRecs)
<1>1. DOMAIN f \subseteq BranchIds /\ \A x \in DOMAIN f : f[x] \in BranchRecs BY TableElim
<1>2. rewireMergedBranches(f, s, t) \in [DOMAIN f -> BranchRecs]
  BY <1>1, RecordUpdates DEF rewireMergedBranches
<1> QED BY <1>1, <1>2, TableIntro

LEMMA rewireMergedLinksType ==
  ASSUME NEW f \in Tables(LinkIds, LinkRecs), NEW s, NEW t \in WorkIds
  PROVE  rewireMergedLinks(f, s, t) \in Tables(LinkIds, LinkRecs)
<1>1. DOMAIN f \subseteq LinkIds /\ \A x \in DOMAIN f : f[x] \in LinkRecs BY TableElim
<1>2. ASSUME NEW x \in DOMAIN f
      PROVE  {replaceEndpointWork(e, s, t) : e \in f[x].ends} \in SUBSET Endpoints
  <2>1. f[x].ends \in SUBSET Endpoints BY <1>1 DEF LinkRecs
  <2>2. \A e \in Endpoints : replaceEndpointWork(e, s, t) \in Endpoints
    BY WorkUpdates DEF replaceEndpointWork
  <2> QED BY <2>1, <2>2
<1>3. \A x \in DOMAIN f :
        [f[x] EXCEPT !.ends = {replaceEndpointWork(e, s, t) : e \in f[x].ends}] \in LinkRecs
  BY <1>1, <1>2, RecordUpdates
<1>4. rewireMergedLinks(f, s, t) \in [DOMAIN f -> LinkRecs]
  BY <1>3 DEF rewireMergedLinks
<1> QED BY <1>1, <1>4, TableIntro

LEMMA retractDuplicateActiveLinksType ==
  ASSUME NEW f \in Tables(LinkIds, LinkRecs), NEW first
  PROVE  retractDuplicateActiveLinks(f, first) \in Tables(LinkIds, LinkRecs)
<1>1. DOMAIN f \subseteq LinkIds /\ \A x \in DOMAIN f : f[x] \in LinkRecs BY TableElim
<1>2. retractDuplicateActiveLinks(f, first) \in [DOMAIN f -> LinkRecs]
  BY <1>1, RecordUpdates DEF retractDuplicateActiveLinks
<1> QED BY <1>1, <1>2, TableIntro

LEMMA applyMergeWorksType ==
  ASSUME NEW g \in Graphs, NEW s, NEW t \in WorkIds, NEW first
  PROVE  applyMergeWorks(g, s, t, first) \in Graphs
<1>1. [g.work EXCEPT ![s].merged = t] \in Tables(WorkIds, WorkRecs)
  <2>1. s \in DOMAIN g.work => [g.work[s] EXCEPT !.merged = t] \in WorkRecs
    BY GraphRecords, RecordUpdates
  <2>2. [g.work EXCEPT ![s].merged = t] \in [DOMAIN g.work -> WorkRecs]
    BY <2>1, GraphTables
  <2> QED BY <2>2, GraphTables, TableIntro
<1>2. rewireMergedBranches(g.branch, s, t) \in Tables(BranchIds, BranchRecs)
  BY GraphFields, rewireMergedBranchesType
<1>3. /\ reassignWorkId(g.copy, s, t) \in Tables(BranchIds, CopyRecs)
      /\ reassignWorkId(g.rev, s, t) \in Tables(RevIds, RevRecs)
      /\ reassignWorkId(g.snap, s, t) \in Tables(SnapIds, SnapRecs)
      /\ reassignWorkId(g.occ, s, t) \in Tables(OccIds, OccRecs)
      /\ reassignWorkId(g.mark, s, t) \in Tables(MarkIds, Targets)
  BY GraphFields, WorkUpdates, reassignWorkIdType
<1>4. (IF g.resume # None /\ g.resume.work = s THEN [g.resume EXCEPT !.work = t]
                                                ELSE g.resume) \in Targets \cup {None}
  BY GraphFields, WorkUpdates
<1>5. retractDuplicateActiveLinks(rewireMergedLinks(g.link, s, t), first)
        \in Tables(LinkIds, LinkRecs)
  BY GraphFields, rewireMergedLinksType, retractDuplicateActiveLinksType
<1>6. {IF w = s THEN t ELSE w : w \in g.related} \in SUBSET WorkIds BY GraphFields
<1> QED BY <1>1, <1>2, <1>3, <1>4, <1>5, <1>6 DEF applyMergeWorks, Graphs

LEMMA appendRevisionToBranchType ==
  ASSUME NEW g \in Graphs, NEW r \in RevIds, NEW b, NEW w \in WorkIds,
         NEW parents \in SUBSET RevIds
  PROVE  appendRevisionToBranch(g, r, b, w, parents) \in Graphs
<1>1. Put(g.rev, r, [work |-> w, parents |-> parents]) \in Tables(RevIds, RevRecs)
  BY GraphFields, PutTable DEF RevRecs
<1>2. [g.branch EXCEPT ![b].head = r] \in Tables(BranchIds, BranchRecs)
  <2>1. b \in DOMAIN g.branch => [g.branch[b] EXCEPT !.head = r] \in BranchRecs
    BY GraphRecords, RecordUpdates
  <2>2. [g.branch EXCEPT ![b].head = r] \in [DOMAIN g.branch -> BranchRecs]
    BY <2>1, GraphTables
  <2> QED BY <2>2, GraphTables, TableIntro
<1> QED BY <1>1, <1>2 DEF appendRevisionToBranch, Graphs

LEMMA createBranchType ==
  ASSUME NEW g \in Graphs, NEW b \in BranchIds, NEW w \in WorkIds,
         NEW name \in RewriteNames, NEW head \in RevIds, NEW blank \in BOOLEAN
  PROVE  createBranch(g, b, w, name, head, blank) \in Graphs
<1>1. Put(g.branch, b, [work |-> w, name |-> name, head |-> head])
        \in Tables(BranchIds, BranchRecs)
  BY GraphFields, PutTable DEF BranchRecs
<1>2. Put(g.copy, b, [work |-> w, blank |-> blank]) \in Tables(BranchIds, CopyRecs)
  BY GraphFields, PutTable DEF CopyRecs
<1> QED BY <1>1, <1>2 DEF createBranch, Graphs

LEMMA createRecoverySnapshotType ==
  ASSUME NEW g \in Graphs, NEW n \in SnapIds, NEW b \in DOMAIN g.branch, b \in DOMAIN g.copy
  PROVE  createRecoverySnapshot(g, n, b) \in Graphs
<1>1. g.branch[b] \in BranchRecs /\ g.copy[b] \in CopyRecs /\ b \in BranchIds
  BY GraphRecords, GraphTables
<1>2. [work |-> g.copy[b].work, branch |-> b, source |-> g.branch[b].head] \in SnapRecs
  BY <1>1 DEF BranchRecs, CopyRecs, SnapRecs
<1>3. Put(g.snap, n, [work |-> g.copy[b].work, branch |-> b, source |-> g.branch[b].head])
        \in Tables(SnapIds, SnapRecs)
  BY <1>2, GraphFields, PutTable
<1> QED BY <1>3 DEF createRecoverySnapshot, Graphs

LEMMA createLinkType ==
  ASSUME NEW g \in Graphs, NEW l \in LinkIds, NEW ends \in SUBSET Endpoints,
         NEW origin \in {"human", "suggestion"}
  PROVE  createLink(g, l, ends, origin) \in Graphs
<1>1. Put(g.link, l, [ends |-> ends, active |-> TRUE, origin |-> origin])
        \in Tables(LinkIds, LinkRecs)
  BY GraphFields, PutTable DEF LinkRecs
<1> QED BY <1>1 DEF createLink, Graphs

LEMMA deleteLinkType ==
  ASSUME NEW g \in Graphs, NEW v, NEW w
  PROVE  deleteLink(g, v, w) \in Graphs
<1> DEFINE f == [l \in DOMAIN g.link |->
                  IF WorksOf(g.link[l].ends) = {v, w}
                    THEN [g.link[l] EXCEPT !.active = FALSE] ELSE g.link[l]]
<1>1. f \in [DOMAIN g.link -> LinkRecs] BY GraphRecords, RecordUpdates
<1>2. f \in Tables(LinkIds, LinkRecs) BY <1>1, GraphTables, TableIntro
<1> QED BY <1>2 DEF deleteLink, Graphs

LEMMA upsertEmergenceSuggestionType ==
  ASSUME NEW g \in Graphs, NEW p \in WorkIds \X WorkIds, NEW from \in OccIds, NEW to \in OccIds
  PROVE  upsertEmergenceSuggestion(g, p, from, to) \in Graphs
<1> DEFINE status == IF p \in DOMAIN g.sugg THEN g.sugg[p].status ELSE "pending"
<1>1. status \in {"pending", "held", "resolved"} BY GraphRecords DEF SuggRecs
<1> HIDE DEF status
<1>2. Put(g.sugg, p, [from |-> from, to |-> to, status |-> status])
        \in Tables(WorkIds \X WorkIds, SuggRecs)
  BY <1>1, GraphFields, PutTable DEF SuggRecs
<1> QED BY <1>2 DEF upsertEmergenceSuggestion, Graphs, status

LEMMA resolveEmergenceSuggestionType ==
  ASSUME NEW g \in Graphs, NEW p, NEW status \in {"held", "resolved"}
  PROVE  resolveEmergenceSuggestion(g, p, status) \in Graphs
<1>1. p \in DOMAIN g.sugg => [g.sugg[p] EXCEPT !.status = status] \in SuggRecs
  BY GraphRecords, RecordUpdates
<1>2. [g.sugg EXCEPT ![p].status = status] \in [DOMAIN g.sugg -> SuggRecs]
  BY <1>1, GraphTables
<1>3. [g.sugg EXCEPT ![p].status = status] \in Tables(WorkIds \X WorkIds, SuggRecs)
  BY <1>2, GraphTables, TableIntro
<1> QED BY <1>3 DEF resolveEmergenceSuggestion, Graphs

LEMMA acceptEmergenceSuggestionType ==
  ASSUME NEW g \in Graphs, NEW p \in WorkIds \X WorkIds, NEW l \in LinkIds
  PROVE  acceptEmergenceSuggestion(g, p, l) \in Graphs
<1> DEFINE h == resolveEmergenceSuggestion(g, p, "resolved")
           ends == {WorkEnd(p[1]), WorkEnd(p[2])}
<1>1. h \in Graphs BY resolveEmergenceSuggestionType
<1>2. ends \in SUBSET Endpoints BY DEF WorkEnd, Endpoints
<1> HIDE DEF h, ends
<1>3. createLink(h, l, ends, "suggestion") \in Graphs BY <1>1, <1>2, createLinkType
<1> QED BY <1>1, <1>3 DEF acceptEmergenceSuggestion, h, ends

-----------------------------------------------------------------------------
\* Type correctness.

LEMMA CommitType ==
  ASSUME TypeOK, NEW h \in Graphs, NEW op \in Ops, Commit(op, h)
  PROVE  graph' \in Graphs /\ refused' \in Ops \cup {None}
BY DEF Commit, TypeOK

LEMMA RunType ==
  ASSUME TypeOK, NEW h \in Graphs, NEW op \in Ops, Run(op, h)
  PROVE  TypeOK'
BY CommitType DEF Run, TypeOK

\* The ids an action picks from.
LEMMA PickedIds ==
  ASSUME TypeOK
  PROVE  /\ graph \in Graphs
         /\ Items(graph) \subseteq DOMAIN graph.occ
         /\ Placements(graph) \subseteq DOMAIN graph.occ
         /\ DOMAIN graph.occ \subseteq OccIds /\ Parents \subseteq OccIds \cup {None}
         /\ DOMAIN graph.work \subseteq WorkIds /\ Active(graph) \subseteq WorkIds
         /\ DOMAIN graph.branch \subseteq BranchIds /\ DOMAIN graph.copy \subseteq BranchIds
         /\ DOMAIN graph.rev \subseteq RevIds /\ DOMAIN graph.snap \subseteq SnapIds
         /\ DOMAIN graph.link \subseteq LinkIds
         /\ DOMAIN graph.sugg \subseteq WorkIds \X WorkIds
         /\ \A o \in DOMAIN graph.occ :
              graph.occ[o].work \in WorkIds /\ graph.occ[o].sel \in BranchIds \cup RevIds
         /\ \A b \in DOMAIN graph.branch :
              graph.branch[b].work \in WorkIds /\ graph.branch[b].head \in RevIds \cup {None}
         /\ \A b \in DOMAIN graph.copy :
              graph.copy[b].work \in WorkIds /\ graph.copy[b].blank \in BOOLEAN
         /\ \A n \in DOMAIN graph.snap :
              /\ graph.snap[n].work \in WorkIds /\ graph.snap[n].branch \in BranchIds
              /\ graph.snap[n].source \in RevIds \cup {None}
<1>1. graph \in Graphs BY DEF TypeOK
<1>2. Items(graph) \subseteq DOMAIN graph.occ /\ Placements(graph) \subseteq DOMAIN graph.occ
  BY DEF Items, Placements
<1>3. Active(graph) \subseteq DOMAIN graph.work BY DEF Active
<1>4. \A o \in DOMAIN graph.occ :
        graph.occ[o].work \in WorkIds /\ graph.occ[o].sel \in BranchIds \cup RevIds
  BY <1>1, GraphRecords DEF OccRecs
<1>5. \A b \in DOMAIN graph.branch :
        graph.branch[b].work \in WorkIds /\ graph.branch[b].head \in RevIds \cup {None}
  BY <1>1, GraphRecords DEF BranchRecs
<1>6. \A b \in DOMAIN graph.copy :
        graph.copy[b].work \in WorkIds /\ graph.copy[b].blank \in BOOLEAN
  BY <1>1, GraphRecords DEF CopyRecs
<1>7. \A n \in DOMAIN graph.snap :
        /\ graph.snap[n].work \in WorkIds /\ graph.snap[n].branch \in BranchIds
        /\ graph.snap[n].source \in RevIds \cup {None}
  BY <1>1, GraphRecords DEF SnapRecs
<1>8. Parents \subseteq OccIds \cup {None} BY <1>1, GraphFields DEF Parents
<1> QED BY <1>1, <1>2, <1>3, <1>4, <1>5, <1>6, <1>7, <1>8, GraphTables

LEMMA PlacingType ==
  ASSUME TypeOK,
         \/ CreateItem \/ CreateUnplacedWork \/ CreateOccurrence \/ UpdateText
         \/ ResolveStub \/ MoveItem \/ SetOccurrenceRevision \/ DeleteItem
  PROVE  TypeOK'
<1>1. CASE CreateItem
  <2>1. PICK w \in WorkIds, b \in BranchIds, o \in OccIds, p \in Parents, blank \in BOOLEAN :
          Run("createItem", createWorkBundle(graph, w, b, o, p, blank))
    BY <1>1 DEF CreateItem, NewWorkId, NewBranch, NewOcc
  <2>2. createWorkBundle(graph, w, b, o, p, blank) \in Graphs
    BY PickedIds, createWorkBundleType
  <2> QED BY <2>1, <2>2, RunType DEF Ops
<1>2. CASE CreateUnplacedWork
  <2>1. PICK w \in WorkIds, b \in BranchIds, stub \in BOOLEAN :
          Run("createUnplacedWork", createUnplacedWork(graph, w, b, stub, stub))
    BY <1>2 DEF CreateUnplacedWork, NewWorkId, NewBranch
  <2>2. createUnplacedWork(graph, w, b, stub, stub) \in Graphs
    BY PickedIds, createUnplacedWorkType
  <2> QED BY <2>1, <2>2, RunType DEF Ops
<1>3. CASE CreateOccurrence
  <2>1. PICK o \in NewOcc, w \in Active(graph), p \in Items(graph) \cup {None} :
          \E sel \in Selectors(graph, w) :
            Run("createOccurrence", createOccurrence(graph, o, w, p, sel))
    BY <1>3 DEF CreateOccurrence
  <2>2. PICK sel \in Selectors(graph, w) :
          Run("createOccurrence", createOccurrence(graph, o, w, p, sel))
    BY <2>1
  <2>3. sel \in BranchIds \cup RevIds BY PickedIds DEF Selectors, Owned
  <2>4. o \in OccIds /\ w \in WorkIds /\ p \in OccIds \cup {None} BY PickedIds DEF NewOcc
  <2>5. createOccurrence(graph, o, w, p, sel) \in Graphs
    BY <2>3, <2>4, PickedIds, createOccurrenceType
  <2> QED BY <2>2, <2>5, RunType DEF Ops
<1>4. CASE UpdateText
  <2>1. PICK b \in DOMAIN graph.copy, blank \in BOOLEAN :
          Run("updateText", updateBranchWorkingCopy(graph, b, blank))
    BY <1>4 DEF UpdateText
  <2>2. updateBranchWorkingCopy(graph, b, blank) \in Graphs
    BY PickedIds, updateBranchWorkingCopyType
  <2> QED BY <2>1, <2>2, RunType DEF Ops
<1>5. CASE ResolveStub
  <2>1. PICK w : Run("resolveStub", resolveWorkStub(graph, w)) BY <1>5 DEF ResolveStub
  <2>2. resolveWorkStub(graph, w) \in Graphs BY PickedIds, resolveWorkStubType
  <2> QED BY <2>1, <2>2, RunType DEF Ops
<1>6. CASE MoveItem
  <2>1. PICK o \in Items(graph), p \in Parents :
          Run("moveItem", [graph EXCEPT !.occ[o].parent = p])
    BY <1>6 DEF MoveItem
  <2>2. [graph EXCEPT !.occ[o].parent = p] \in Graphs
    <3>1. o \in DOMAIN graph.occ /\ graph \in Graphs /\ p \in OccIds \cup {None}
      BY PickedIds
    <3>2. [graph.occ[o] EXCEPT !.parent = p] \in OccRecs
      BY <3>1, GraphRecords, RecordUpdates
    <3>3. [graph.occ EXCEPT ![o].parent = p] \in [DOMAIN graph.occ -> OccRecs]
      BY <3>1, <3>2, GraphTables
    <3>4. [graph.occ EXCEPT ![o].parent = p] \in Tables(OccIds, OccRecs)
      BY <3>1, <3>3, GraphTables, TableIntro
    <3> QED BY <3>1, <3>4 DEF Graphs
  <2> QED BY <2>1, <2>2, RunType DEF Ops
<1>7. CASE SetOccurrenceRevision
  <2>1. PICK o \in Items(graph) :
          \E sel \in Owned(graph.rev, graph.occ[o].work) \cup Mains(graph, graph.occ[o].work) :
            Run("setOccurrenceRevision", [graph EXCEPT !.occ[o].sel = sel])
    BY <1>7 DEF SetOccurrenceRevision
  <2>2. PICK sel \in Owned(graph.rev, graph.occ[o].work) \cup Mains(graph, graph.occ[o].work) :
          Run("setOccurrenceRevision", [graph EXCEPT !.occ[o].sel = sel])
    BY <2>1
  <2>3. [graph EXCEPT !.occ[o].sel = sel] \in Graphs
    <3>1. o \in DOMAIN graph.occ /\ graph \in Graphs /\ sel \in BranchIds \cup RevIds
      BY PickedIds DEF Owned, Mains
    <3>2. [graph.occ[o] EXCEPT !.sel = sel] \in OccRecs
      BY <3>1, GraphRecords, RecordUpdates
    <3>3. [graph.occ EXCEPT ![o].sel = sel] \in [DOMAIN graph.occ -> OccRecs]
      BY <3>1, <3>2, GraphTables
    <3>4. [graph.occ EXCEPT ![o].sel = sel] \in Tables(OccIds, OccRecs)
      BY <3>1, <3>3, GraphTables, TableIntro
    <3> QED BY <3>1, <3>4 DEF Graphs
  <2> QED BY <2>2, <2>3, RunType DEF Ops
<1>8. CASE DeleteItem
  <2>1. PICK o \in Items(graph) : Run("deleteItem", deleteItem(graph, o)) BY <1>8 DEF DeleteItem
  <2>2. deleteItem(graph, o) \in Graphs BY PickedIds, deleteItemType
  <2> QED BY <2>1, <2>2, RunType DEF Ops
<1> QED BY <1>1, <1>2, <1>3, <1>4, <1>5, <1>6, <1>7, <1>8

LEMMA TrashAndMergeType ==
  ASSUME TypeOK,
         \/ DiscardEmptyItems
         \/ TrashWork \/ ListUnplaced \/ RestoreWork \/ PurgeWork \/ MergeWorks
  PROVE  TypeOK'
<1>0. CASE DiscardEmptyItems
  <2>1. PICK O : Run("discardEmptyItems", discardEmptyItems(graph, O))
    BY <1>0 DEF DiscardEmptyItems
  <2> QED BY <2>1, PickedIds, discardEmptyItemsType, RunType DEF Ops
<1>1. CASE TrashWork
  <2>1. PICK o : Run("trashWork", applyWorkTrash(graph, {graph.occ[o].work}))
    BY <1>1 DEF TrashWork
  <2> QED BY <2>1, PickedIds, applyWorkTrashType, RunType DEF Ops
<1>2. CASE ListUnplaced
  <2>1. Run("listUnplaced", applyWorkTrash(graph, StaleBlankWorks(graph)))
    BY <1>2 DEF ListUnplaced
  <2> QED BY <2>1, PickedIds, applyWorkTrashType, RunType DEF Ops
<1>3. CASE RestoreWork
  <2>1. PICK w : Run("restoreWork", applyWorkRestore(graph, w)) BY <1>3 DEF RestoreWork
  <2> QED BY <2>1, PickedIds, applyWorkRestoreType, RunType DEF Ops
<1>4. CASE PurgeWork
  <2>1. PICK w \in InTrash : Run("purgeWork", applyWorkPurge(graph, w)) BY <1>4 DEF PurgeWork
  <2>2. w \in WorkIds BY PickedIds DEF InTrash
  <2> QED BY <2>1, <2>2, PickedIds, applyWorkPurgeType, RunType DEF Ops
<1>5. CASE MergeWorks
  <2>1. PICK s, t \in Active(graph) :
          \E first \in [DOMAIN graph.link -> DOMAIN graph.link] :
            Run("mergeWorks", applyMergeWorks(graph, s, t, first))
    BY <1>5 DEF MergeWorks
  <2>2. PICK first : Run("mergeWorks", applyMergeWorks(graph, s, t, first)) BY <2>1
  <2>3. applyMergeWorks(graph, s, t, first) \in Graphs BY PickedIds, applyMergeWorksType
  <2> QED BY <2>2, <2>3, RunType DEF Ops
<1> QED BY <1>0, <1>1, <1>2, <1>3, <1>4, <1>5

LEMMA CitingType ==
  ASSUME TypeOK,
         \/ CreateBookmark \/ DeleteBookmark \/ SaveResumePosition \/ ClearResumePosition
         \/ CreateLink \/ DeleteLink \/ MaterializeSuggestion \/ ResolveSuggestion
  PROVE  TypeOK'
<1>0. \A o \in Placements(graph) : [work |-> graph.occ[o].work, occ |-> o] \in Targets
  BY PickedIds DEF Targets
<1>1. CASE CreateBookmark
  <2>1. PICK o \in Placements(graph), m \in MarkIds \ DOMAIN graph.mark :
          Run("createBookmark",
            [graph EXCEPT !.mark = Put(@, m, [work |-> graph.occ[o].work, occ |-> o])])
    BY <1>1 DEF CreateBookmark
  <2>2. Put(graph.mark, m, [work |-> graph.occ[o].work, occ |-> o]) \in Tables(MarkIds, Targets)
    BY <1>0, PickedIds, GraphFields, PutTable
  <2>3. [graph EXCEPT !.mark = Put(@, m, [work |-> graph.occ[o].work, occ |-> o])] \in Graphs
    BY <2>2, PickedIds DEF Graphs
  <2> QED BY <2>1, <2>3, RunType DEF Ops
<1>2. CASE DeleteBookmark
  <2>1. PICK m : Run("deleteBookmark", [graph EXCEPT !.mark = Without(@, {m})])
    BY <1>2 DEF DeleteBookmark
  <2>2. Without(graph.mark, {m}) \in Tables(MarkIds, Targets)
    BY PickedIds, GraphFields, WithoutTable
  <2>3. [graph EXCEPT !.mark = Without(@, {m})] \in Graphs BY <2>2, PickedIds DEF Graphs
  <2> QED BY <2>1, <2>3, RunType DEF Ops
<1>3. CASE SaveResumePosition
  <2>1. PICK o \in Placements(graph) :
          Run("saveResumePosition",
            [graph EXCEPT !.resume = [work |-> graph.occ[o].work, occ |-> o]])
    BY <1>3 DEF SaveResumePosition
  <2>2. [graph EXCEPT !.resume = [work |-> graph.occ[o].work, occ |-> o]] \in Graphs
    BY <1>0, PickedIds DEF Graphs
  <2> QED BY <2>1, <2>2, RunType DEF Ops
<1>4. CASE ClearResumePosition
  <2>1. Run("clearResumePosition", [graph EXCEPT !.resume = None])
    BY <1>4 DEF ClearResumePosition
  <2>2. [graph EXCEPT !.resume = None] \in Graphs BY PickedIds DEF Graphs
  <2> QED BY <2>1, <2>2, RunType DEF Ops
<1>5. CASE CreateLink
  <2>1. PICK l \in NewLink, e \in LinkEnds(graph), f \in LinkEnds(graph) :
          Run("createLink", createLink(graph, l, {e, f}, "human"))
    BY <1>5 DEF CreateLink
  <2>2. l \in LinkIds /\ {e, f} \in SUBSET Endpoints BY DEF NewLink, LinkEnds
  <2>3. createLink(graph, l, {e, f}, "human") \in Graphs BY <2>2, PickedIds, createLinkType
  <2> QED BY <2>1, <2>3, RunType DEF Ops
<1>6. CASE DeleteLink
  <2>1. PICK v, w : Run("deleteLink", deleteLink(graph, v, w)) BY <1>6 DEF DeleteLink
  <2> QED BY <2>1, PickedIds, deleteLinkType, RunType DEF Ops
<1>7. CASE MaterializeSuggestion
  <2>1. PICK from \in Items(graph), to \in Items(graph) :
          Run("materialize", upsertEmergenceSuggestion(
            graph, <<graph.occ[from].work, graph.occ[to].work>>, from, to))
    BY <1>7 DEF MaterializeSuggestion
  <2>2. <<graph.occ[from].work, graph.occ[to].work>> \in WorkIds \X WorkIds BY PickedIds
  <2>3. from \in OccIds /\ to \in OccIds BY PickedIds
  <2>4. upsertEmergenceSuggestion(
          graph, <<graph.occ[from].work, graph.occ[to].work>>, from, to) \in Graphs
    BY <2>2, <2>3, PickedIds, upsertEmergenceSuggestionType
  <2> QED BY <2>1, <2>4, RunType DEF Ops
<1>8. CASE ResolveSuggestion
  <2>1. PICK p \in DOMAIN graph.sugg :
          \/ \E status \in {"held", "resolved"} :
               Run("resolveSuggestion", resolveEmergenceSuggestion(graph, p, status))
          \/ \E l \in NewLink :
               Run("acceptSuggestion", acceptEmergenceSuggestion(graph, p, l))
    BY <1>8 DEF ResolveSuggestion
  <2>2. CASE \E status \in {"held", "resolved"} :
               Run("resolveSuggestion", resolveEmergenceSuggestion(graph, p, status))
    BY <2>2, PickedIds, resolveEmergenceSuggestionType, RunType DEF Ops
  <2>3. CASE \E l \in NewLink : Run("acceptSuggestion", acceptEmergenceSuggestion(graph, p, l))
    <3>1. PICK l \in NewLink : Run("acceptSuggestion", acceptEmergenceSuggestion(graph, p, l))
      BY <2>3
    <3>2. acceptEmergenceSuggestion(graph, p, l) \in Graphs
      BY PickedIds, acceptEmergenceSuggestionType DEF NewLink
    <3> QED BY <3>1, <3>2, RunType DEF Ops
  <2> QED BY <2>1, <2>2, <2>3
<1> QED BY <1>1, <1>2, <1>3, <1>4, <1>5, <1>6, <1>7, <1>8

LEMMA HistoryType ==
  ASSUME TypeOK,
         \/ CreateCheckpoint \/ CreateManualMerge \/ RewriteCheckpoint \/ RewriteBranch
         \/ CreateRecoverySnapshot \/ RestoreSnapshot \/ PromoteSnapshot
  PROVE  TypeOK'
<1>0. \A b \in DOMAIN graph.branch, r \in NewRev : \A P \in SUBSET RevIds :
        appendRevisionToBranch(graph, r, b, graph.branch[b].work, P) \in Graphs
  BY PickedIds, appendRevisionToBranchType DEF NewRev
<1>1. CASE CreateCheckpoint
  <2>1. PICK b \in DOMAIN graph.branch, r \in NewRev :
          Run("createRevision", appendRevisionToBranch(
            graph, r, b, graph.branch[b].work, {graph.branch[b].head} \ {None}))
    BY <1>1 DEF CreateCheckpoint
  <2>2. {graph.branch[b].head} \ {None} \in SUBSET RevIds BY PickedIds
  <2> QED BY <1>0, <2>1, <2>2, RunType DEF Ops
<1>2. CASE CreateManualMerge
  <2>1. PICK b \in DOMAIN graph.branch, r \in NewRev, p \in DOMAIN graph.rev :
          /\ graph.branch[b].head # None
          /\ Run("createRevision", appendRevisionToBranch(
               graph, r, b, graph.branch[b].work, {graph.branch[b].head, p}))
    BY <1>2 DEF CreateManualMerge
  <2>2. {graph.branch[b].head, p} \in SUBSET RevIds BY <2>1, PickedIds
  <2> QED BY <1>0, <2>1, <2>2, RunType DEF Ops
<1>3. CASE RewriteCheckpoint
  <2>1. PICK b \in DOMAIN graph.branch, name \in RewriteNames :
          /\ CopyOf(graph, b)
          /\ \/ /\ graph.branch[b].head # None /\ UNCHANGED graph /\ refused' = None
                /\ rewriting' = [work |-> graph.branch[b].work, head |-> graph.branch[b].head,
                                 name |-> name, blank |-> graph.copy[b].blank]
             \/ \E r \in NewRev :
                  /\ Commit("createRevision", appendRevisionToBranch(
                       graph, r, b, graph.branch[b].work, {graph.branch[b].head} \ {None}))
                  /\ \/ rewriting' = rewriting
                     \/ rewriting' = [work |-> graph.branch[b].work, head |-> r,
                                      name |-> name, blank |-> graph.copy[b].blank]
    BY <1>3 DEF RewriteCheckpoint
  <2>2. \A h \in RevIds : [work |-> graph.branch[b].work, head |-> h, name |-> name,
                           blank |-> graph.copy[b].blank] \in Rewrites
    BY <2>1, PickedIds DEF Rewrites, CopyOf
  <2>3. CASE /\ graph.branch[b].head # None /\ UNCHANGED graph /\ refused' = None
             /\ rewriting' = [work |-> graph.branch[b].work, head |-> graph.branch[b].head,
                              name |-> name, blank |-> graph.copy[b].blank]
    BY <2>2, <2>3, PickedIds DEF TypeOK
  <2>4. ASSUME NEW r \in NewRev,
               Commit("createRevision", appendRevisionToBranch(
                 graph, r, b, graph.branch[b].work, {graph.branch[b].head} \ {None})),
               \/ rewriting' = rewriting
               \/ rewriting' = [work |-> graph.branch[b].work, head |-> r,
                                name |-> name, blank |-> graph.copy[b].blank]
        PROVE  TypeOK'
    <3>1. {graph.branch[b].head} \ {None} \in SUBSET RevIds BY PickedIds
    <3>2. graph' \in Graphs /\ refused' \in Ops \cup {None}
      BY <1>0, <2>4, <3>1, CommitType DEF Ops
    <3>3. rewriting' \in Rewrites \cup {None} BY <2>2, <2>4 DEF NewRev, TypeOK
    <3> QED BY <3>2, <3>3 DEF TypeOK
  <2> QED BY <2>1, <2>3, <2>4
<1>4. CASE RewriteBranch
  <2>1. PICK b \in NewBranch :
          /\ rewriting # None /\ rewriting' = None
          /\ Commit("createBranch", createBranch(graph, b, rewriting.work, rewriting.name,
                                                 rewriting.head, rewriting.blank))
    BY <1>4 DEF RewriteBranch
  <2>2. rewriting \in Rewrites BY <2>1 DEF TypeOK
  <2>3. /\ rewriting.work \in WorkIds /\ rewriting.name \in RewriteNames
        /\ rewriting.head \in RevIds /\ rewriting.blank \in BOOLEAN
    BY <2>2 DEF Rewrites
  <2>4. createBranch(graph, b, rewriting.work, rewriting.name, rewriting.head,
                     rewriting.blank) \in Graphs
    BY <2>3, PickedIds, createBranchType DEF NewBranch
  <2> QED BY <2>1, <2>4, CommitType DEF Ops, TypeOK
<1>5. CASE CreateRecoverySnapshot
  <2>1. PICK b \in DOMAIN graph.branch, n \in NewSnap :
          CopyOf(graph, b) /\ Run("createSnapshot", createRecoverySnapshot(graph, n, b))
    BY <1>5 DEF CreateRecoverySnapshot
  <2>2. createRecoverySnapshot(graph, n, b) \in Graphs
    BY <2>1, PickedIds, createRecoverySnapshotType DEF CopyOf, NewSnap
  <2> QED BY <2>1, <2>2, RunType DEF Ops
<1>6. CASE RestoreSnapshot
  <2>1. PICK n \in DOMAIN graph.snap, before \in NewSnap, blank \in BOOLEAN :
          /\ InScope(graph, n)
          /\ Run("restoreSnapshot", applyRecoverySnapshotRestore(graph, n, before, blank))
    BY <1>6 DEF RestoreSnapshot
  <2>2. createRecoverySnapshot(graph, before, graph.snap[n].branch) \in Graphs
    BY <2>1, PickedIds, createRecoverySnapshotType DEF InScope, CopyOf, NewSnap
  <2>3. applyRecoverySnapshotRestore(graph, n, before, blank) \in Graphs
    BY <2>2, updateBranchWorkingCopyType DEF applyRecoverySnapshotRestore
  <2> QED BY <2>1, <2>3, RunType DEF Ops
<1>7. CASE PromoteSnapshot
  <2>1. PICK n \in DOMAIN graph.snap, r \in NewRev :
          Run("promoteSnapshot", appendRevisionToBranch(
            graph, r, graph.snap[n].branch, graph.snap[n].work, PromotionParents(graph, n)))
    BY <1>7 DEF PromoteSnapshot
  <2>2. PromotionParents(graph, n) \in SUBSET RevIds BY PickedIds DEF PromotionParents
  <2>3. appendRevisionToBranch(graph, r, graph.snap[n].branch, graph.snap[n].work,
                               PromotionParents(graph, n)) \in Graphs
    BY <2>2, PickedIds, appendRevisionToBranchType DEF NewRev
  <2> QED BY <2>1, <2>3, RunType DEF Ops
<1> QED BY <1>1, <1>2, <1>3, <1>4, <1>5, <1>6, <1>7

LEMMA NextTypeOK == TypeOK /\ [Next]_vars => TypeOK'
<1> SUFFICES ASSUME TypeOK, [Next]_vars PROVE TypeOK' OBVIOUS
<1>1. CASE UNCHANGED vars BY <1>1 DEF vars, TypeOK
<1> QED BY <1>1, PlacingType, TrashAndMergeType, CitingType, HistoryType DEF Next

\* Every operation of the services returns a graph: ids of the right kind in
\* every array and every field, and no field left out.
THEOREM TypeCorrect == Spec => []TypeOK
BY InitTypeOK, NextTypeOK, PTL DEF Spec

-----------------------------------------------------------------------------
\* The decisions about suggestions.

LEMMA CommitKeepsSuggestions ==
  ASSUME NEW h, h.sugg = graph.sugg, NEW op, Commit(op, h)
  PROVE  graph'.sugg = graph.sugg
BY DEF Commit

\* Most operations do not touch the suggestions at all.
LEMMA SuggestionsUntouched ==
  ASSUME NEW g \in Graphs
  PROVE  /\ \A w, b, stub, blank : createUnplacedWork(g, w, b, stub, blank).sugg = g.sugg
         /\ \A o, w, p, sel : createOccurrence(g, o, w, p, sel).sugg = g.sugg
         /\ \A b, blank : updateBranchWorkingCopy(g, b, blank).sugg = g.sugg
         /\ \A w : resolveWorkStub(g, w).sugg = g.sugg
         /\ \A o, p : [g EXCEPT !.occ[o].parent = p].sugg = g.sugg
         /\ \A o, v : [g EXCEPT !.occ[o].sel = v].sugg = g.sugg
         /\ \A o : deleteOccurrenceWithPromotion(g, o).sugg = g.sugg
         /\ \A W : applyWorkTrash(g, W).sugg = g.sugg
         /\ \A O : cleanupOrphanOccurrences(g, O).sugg = g.sugg
         /\ \A w : [g EXCEPT !.work[w].deleted = FALSE].sugg = g.sugg
         /\ \A w : purgeAssociatedEntities(g, w).sugg = g.sugg
         /\ \A s, t, first : applyMergeWorks(g, s, t, first).sugg = g.sugg
         /\ \A m, v : [g EXCEPT !.mark = Put(@, m, v)].sugg = g.sugg
         /\ \A X : [g EXCEPT !.mark = Without(@, X)].sugg = g.sugg
         /\ \A v : [g EXCEPT !.resume = v].sugg = g.sugg
         /\ \A l, E, origin : createLink(g, l, E, origin).sugg = g.sugg
         /\ \A v, w : deleteLink(g, v, w).sugg = g.sugg
         /\ \A r, b, w, P : appendRevisionToBranch(g, r, b, w, P).sugg = g.sugg
         /\ \A b, w, name, head, blank : createBranch(g, b, w, name, head, blank).sugg = g.sugg
         /\ \A n, b : createRecoverySnapshot(g, n, b).sugg = g.sugg
BY DEF Graphs, createUnplacedWork, createOccurrence, updateBranchWorkingCopy,
       resolveWorkStub, deleteOccurrenceWithPromotion, applyWorkTrash,
       cleanupOrphanOccurrences, purgeAssociatedEntities, applyMergeWorks, createLink,
       deleteLink, appendRevisionToBranch, createBranch, createRecoverySnapshot

LEMMA CompositesUntouched ==
  ASSUME NEW g \in Graphs
  PROVE  /\ \A w, b, o, p, blank : createWorkBundle(g, w, b, o, p, blank).sugg = g.sugg
         /\ \A o \in DOMAIN g.occ : deleteItem(g, o).sugg = g.sugg
         /\ \A O : discardEmptyItems(g, O).sugg = g.sugg
         /\ \A w : applyWorkRestore(g, w).sugg = g.sugg
         /\ \A w \in WorkIds : applyWorkPurge(g, w).sugg = g.sugg
         /\ \A n, before, blank :
              applyRecoverySnapshotRestore(g, n, before, blank).sugg = g.sugg
<1>1. ASSUME NEW w, NEW b, NEW o, NEW p, NEW blank
      PROVE  createWorkBundle(g, w, b, o, p, blank).sugg = g.sugg
  BY DEF createWorkBundle, createOccurrence, createUnplacedWork, Graphs
<1>2. ASSUME NEW o \in DOMAIN g.occ
      PROVE  deleteItem(g, o).sugg = g.sugg
  BY deleteItemType, SuggestionsUntouched DEF deleteItem, trashBlankUnplacedWorks
<1>6. ASSUME NEW O
      PROVE  discardEmptyItems(g, O).sugg = g.sugg
  <2> DEFINE h == [g EXCEPT !.occ = Without(@, O)]
  <2>1. h \in Graphs BY discardEmptyItemsType
  <2>2. h.sugg = g.sugg BY DEF Graphs
  <2> HIDE DEF h
  <2> QED BY <2>1, <2>2, SuggestionsUntouched DEF discardEmptyItems, trashBlankUnplacedWorks, h
<1>3. ASSUME NEW w
      PROVE  applyWorkRestore(g, w).sugg = g.sugg
  <2> DEFINE h == [g EXCEPT !.work[w].deleted = FALSE]
  <2>1. h \in Graphs BY RestoredType
  <2>2. h.sugg = g.sugg BY SuggestionsUntouched
  <2> HIDE DEF h
  <2>3. cleanupOrphanOccurrences(h, Owned(h.occ, w)).sugg = g.sugg
    BY <2>1, <2>2, SuggestionsUntouched
  <2> QED BY <2>3 DEF applyWorkRestore, h
<1>4. ASSUME NEW w \in WorkIds
      PROVE  applyWorkPurge(g, w).sugg = g.sugg
  <2> DEFINE k == [g EXCEPT !.purgedWorks = @ \cup {w},
                            !.purgedOccs = @ \cup Owned(g.occ, w)]
             h == purgeAssociatedEntities(k, w)
  <2>1. k \in Graphs /\ h \in Graphs BY PurgedType
  <2>2. k.sugg = g.sugg BY DEF Graphs
  <2> HIDE DEF k
  <2>3. h.sugg = g.sugg BY <2>1, <2>2, SuggestionsUntouched
  <2> HIDE DEF h
  <2>4. cleanupOrphanOccurrences(h, DOMAIN h.occ).sugg = g.sugg
    BY <2>1, <2>3, SuggestionsUntouched
  <2> QED BY <2>4 DEF applyWorkPurge, h, k
<1>5. ASSUME NEW n, NEW before, NEW blank
      PROVE  applyRecoverySnapshotRestore(g, n, before, blank).sugg = g.sugg
  BY DEF applyRecoverySnapshotRestore, createRecoverySnapshot, updateBranchWorkingCopy, Graphs
<1> QED BY <1>1, <1>2, <1>3, <1>4, <1>5, <1>6

LEMMA OtherActionsKeepSuggestions ==
  ASSUME TypeOK, Next, ~MaterializeSuggestion, ~ResolveSuggestion
  PROVE  graph'.sugg = graph.sugg
<1>0. graph \in Graphs BY DEF TypeOK
<1> USE <1>0 DEF Run
<1>1. CASE CreateItem \/ CreateUnplacedWork \/ CreateOccurrence \/ UpdateText \/ ResolveStub
  <2>1. CASE CreateItem
    <3>1. PICK w \in WorkIds, b \in BranchIds, o \in NewOcc, p \in Parents, blank \in BOOLEAN :
            Run("createItem", createWorkBundle(graph, w, b, o, p, blank))
      BY ONLY <2>1 DEF CreateItem, NewWorkId, NewBranch
    <3>2. createWorkBundle(graph, w, b, o, p, blank).sugg = graph.sugg BY CompositesUntouched
    <3> QED BY <3>1, <3>2, CommitKeepsSuggestions
  <2>2. CASE CreateUnplacedWork
    BY <2>2, SuggestionsUntouched, CommitKeepsSuggestions DEF CreateUnplacedWork
  <2>3. CASE CreateOccurrence
    BY <2>3, SuggestionsUntouched, CommitKeepsSuggestions DEF CreateOccurrence
  <2>4. CASE UpdateText
    BY <2>4, SuggestionsUntouched, CommitKeepsSuggestions DEF UpdateText
  <2>5. CASE ResolveStub
    BY <2>5, SuggestionsUntouched, CommitKeepsSuggestions DEF ResolveStub
  <2> QED BY <1>1, <2>1, <2>2, <2>3, <2>4, <2>5
<1>2. CASE MoveItem \/ SetOccurrenceRevision \/ DeleteItem \/ DiscardEmptyItems
  <2>1. CASE MoveItem
    <3>1. PICK o, p : Commit("moveItem", [graph EXCEPT !.occ[o].parent = p])
      BY <2>1 DEF MoveItem
    <3>2. [graph EXCEPT !.occ[o].parent = p].sugg = graph.sugg BY SuggestionsUntouched
    <3> QED BY <3>1, <3>2, CommitKeepsSuggestions
  <2>2. CASE SetOccurrenceRevision
    <3>1. PICK o, v : Commit("setOccurrenceRevision", [graph EXCEPT !.occ[o].sel = v])
      BY <2>2 DEF SetOccurrenceRevision
    <3>2. [graph EXCEPT !.occ[o].sel = v].sugg = graph.sugg BY SuggestionsUntouched
    <3> QED BY <3>1, <3>2, CommitKeepsSuggestions
  <2>3. CASE DeleteItem
    BY <2>3, CompositesUntouched, CommitKeepsSuggestions DEF DeleteItem, Items
  <2>4. CASE DiscardEmptyItems
    BY <2>4, CompositesUntouched, CommitKeepsSuggestions DEF DiscardEmptyItems
  <2> QED BY <1>2, <2>1, <2>2, <2>3, <2>4
<1>3. CASE TrashWork \/ ListUnplaced \/ RestoreWork \/ PurgeWork \/ MergeWorks
  <2>1. CASE TrashWork
    BY <2>1, SuggestionsUntouched, CommitKeepsSuggestions DEF TrashWork
  <2>2. CASE ListUnplaced
    BY <2>2, SuggestionsUntouched, CommitKeepsSuggestions DEF ListUnplaced
  <2>3. CASE RestoreWork
    BY <2>3, CompositesUntouched, CommitKeepsSuggestions DEF RestoreWork
  <2>4. CASE PurgeWork
    BY <2>4, CompositesUntouched, CommitKeepsSuggestions, GraphTables DEF PurgeWork, InTrash
  <2>5. CASE MergeWorks
    BY <2>5, SuggestionsUntouched, CommitKeepsSuggestions DEF MergeWorks
  <2> QED BY <1>3, <2>1, <2>2, <2>3, <2>4, <2>5
<1>4. CASE CreateBookmark \/ DeleteBookmark \/ SaveResumePosition \/ ClearResumePosition
  <2>1. CASE CreateBookmark
    <3>1. PICK m, v : Commit("createBookmark", [graph EXCEPT !.mark = Put(@, m, v)])
      BY <2>1 DEF CreateBookmark
    <3>2. [graph EXCEPT !.mark = Put(@, m, v)].sugg = graph.sugg BY SuggestionsUntouched
    <3> QED BY <3>1, <3>2, CommitKeepsSuggestions
  <2>2. CASE DeleteBookmark
    BY <2>2, SuggestionsUntouched, CommitKeepsSuggestions DEF DeleteBookmark
  <2>3. CASE SaveResumePosition
    BY <2>3, SuggestionsUntouched, CommitKeepsSuggestions DEF SaveResumePosition
  <2>4. CASE ClearResumePosition
    BY <2>4, SuggestionsUntouched, CommitKeepsSuggestions DEF ClearResumePosition
  <2> QED BY <1>4, <2>1, <2>2, <2>3, <2>4
<1>5. CASE CreateLink \/ DeleteLink
  <2>1. CASE CreateLink
    <3>1. PICK l, E : Commit("createLink", createLink(graph, l, E, "human"))
      BY <2>1 DEF CreateLink
    <3>2. createLink(graph, l, E, "human").sugg = graph.sugg BY SuggestionsUntouched
    <3> QED BY <3>1, <3>2, CommitKeepsSuggestions
  <2>2. CASE DeleteLink
    BY <2>2, SuggestionsUntouched, CommitKeepsSuggestions DEF DeleteLink
  <2> QED BY <1>5, <2>1, <2>2
<1>6. CASE CreateCheckpoint \/ CreateManualMerge \/ RewriteCheckpoint \/ RewriteBranch
  <2>1. CASE CreateCheckpoint
    BY <2>1, SuggestionsUntouched, CommitKeepsSuggestions DEF CreateCheckpoint
  <2>2. CASE CreateManualMerge
    BY <2>2, SuggestionsUntouched, CommitKeepsSuggestions DEF CreateManualMerge
  <2>3. CASE RewriteCheckpoint
    BY <2>3, SuggestionsUntouched, CommitKeepsSuggestions DEF RewriteCheckpoint
  <2>4. CASE RewriteBranch
    BY <2>4, SuggestionsUntouched, CommitKeepsSuggestions DEF RewriteBranch
  <2> QED BY <1>6, <2>1, <2>2, <2>3, <2>4
<1>7. CASE CreateRecoverySnapshot \/ RestoreSnapshot \/ PromoteSnapshot
  <2>1. CASE CreateRecoverySnapshot
    BY <2>1, SuggestionsUntouched, CommitKeepsSuggestions DEF CreateRecoverySnapshot
  <2>2. CASE RestoreSnapshot
    <3>1. PICK n \in DOMAIN graph.snap, before \in NewSnap, blank \in BOOLEAN :
            Run("restoreSnapshot", applyRecoverySnapshotRestore(graph, n, before, blank))
      BY ONLY <2>2 DEF RestoreSnapshot
    <3>2. applyRecoverySnapshotRestore(graph, n, before, blank).sugg = graph.sugg
      BY CompositesUntouched
    <3> QED BY <3>1, <3>2, CommitKeepsSuggestions
  <2>3. CASE PromoteSnapshot
    BY <2>3, SuggestionsUntouched, CommitKeepsSuggestions DEF PromoteSnapshot
  <2> QED BY <1>7, <2>1, <2>2, <2>3
<1> QED BY <1>1, <1>2, <1>3, <1>4, <1>5, <1>6, <1>7 DEF Next

\* A resolved suggestion stays resolved.
ResolvedStay(f, h) ==
  \A p \in DOMAIN f : f[p].status = "resolved" => p \in DOMAIN h /\ h[p].status = "resolved"

LEMMA CommitKeepsResolved ==
  ASSUME NEW h, ResolvedStay(graph.sugg, h.sugg), NEW op, Commit(op, h)
  PROVE  ResolvedStay(graph.sugg, graph'.sugg)
BY DEF Commit, ResolvedStay

LEMMA StepKeepsResolved ==
  ASSUME TypeOK, Next
  PROVE  ResolvedStay(graph.sugg, graph'.sugg)
<1>0. graph \in Graphs BY DEF TypeOK
<1>1. CASE MaterializeSuggestion
  <2>1. PICK from \in Items(graph), to \in Items(graph) :
          Commit("materialize", upsertEmergenceSuggestion(
            graph, <<graph.occ[from].work, graph.occ[to].work>>, from, to))
    BY <1>1 DEF MaterializeSuggestion, Run
  <2> DEFINE p == <<graph.occ[from].work, graph.occ[to].work>>
             s == [from |-> from, to |-> to,
                   status |-> IF p \in DOMAIN graph.sugg THEN graph.sugg[p].status ELSE "pending"]
             h == upsertEmergenceSuggestion(graph, p, from, to)
  <2>2. h.sugg = Put(graph.sugg, p, s)
    BY <1>0 DEF upsertEmergenceSuggestion, Graphs
  <2>3. p \in DOMAIN graph.sugg => s.status = graph.sugg[p].status OBVIOUS
  <2> HIDE DEF s, p
  <2>4. ResolvedStay(graph.sugg, h.sugg) BY <2>2, <2>3 DEF ResolvedStay, Put
  <2> QED BY <2>1, <2>4, CommitKeepsResolved DEF p
<1>2. CASE ResolveSuggestion
  <2>1. PICK p \in DOMAIN graph.sugg :
          /\ graph.sugg[p].status # "resolved"
          /\ \/ \E status \in {"held", "resolved"} :
                  Commit("resolveSuggestion", resolveEmergenceSuggestion(graph, p, status))
             \/ \E l \in NewLink :
                  Commit("acceptSuggestion", acceptEmergenceSuggestion(graph, p, l))
    BY <1>2 DEF ResolveSuggestion, Run
  <2>2. ASSUME NEW status \in {"held", "resolved"}
        PROVE  ResolvedStay(graph.sugg, resolveEmergenceSuggestion(graph, p, status).sugg)
    BY <1>0, <2>1 DEF resolveEmergenceSuggestion, Graphs, ResolvedStay
  <2>3. ASSUME NEW l \in NewLink
        PROVE  ResolvedStay(graph.sugg, acceptEmergenceSuggestion(graph, p, l).sugg)
    <3>1. resolveEmergenceSuggestion(graph, p, "resolved") \in Graphs
      BY <1>0, resolveEmergenceSuggestionType
    <3>2. acceptEmergenceSuggestion(graph, p, l).sugg
            = resolveEmergenceSuggestion(graph, p, "resolved").sugg
      BY <3>1, SuggestionsUntouched DEF acceptEmergenceSuggestion
    <3> QED BY <2>2, <3>2
  <2> QED BY <2>1, <2>2, <2>3, CommitKeepsResolved
<1>3. CASE ~MaterializeSuggestion /\ ~ResolveSuggestion
  BY <1>3, OtherActionsKeepSuggestions DEF ResolvedStay
<1> QED BY <1>1, <1>2, <1>3

\* A dismissed or accepted suggestion is never offered again: no operation, and
\* not the upsert of the same candidate, makes it pending or drops it
\* (memory_store.ts, upsertEmergenceSuggestion).
THEOREM DecisionsAreFinal == Spec => SuggestionDecisionsAreFinal
<1>1. TypeOK /\ [Next]_vars =>
        [\A p \in DOMAIN graph.sugg : graph.sugg[p].status = "resolved" =>
           p \in DOMAIN graph'.sugg /\ graph'.sugg[p].status = "resolved"]_vars
  BY StepKeepsResolved DEF ResolvedStay
<1> QED BY <1>1, TypeCorrect, PTL DEF Spec, SuggestionDecisionsAreFinal

-----------------------------------------------------------------------------
(***************************************************************************)
(* What a step does to the graph: it changes the outline, the works, the   *)
(* links or the histories, by one operation, or none of these.             *)
(***************************************************************************)
\* Only drafts, marks, suggestions or the resume position differ.
Still(g, h) ==
  /\ h.work = g.work /\ h.branch = g.branch /\ h.rev = g.rev
  /\ h.snap = g.snap /\ h.occ = g.occ /\ h.link = g.link
  /\ h.purgedWorks = g.purgedWorks
  /\ DOMAIN h.copy = DOMAIN g.copy
  /\ \A b \in DOMAIN h.copy : h.copy[b].work = g.copy[b].work

OutlineChange(g, h) ==
  \/ \E o \in OccIds, w \in Active(g), p \in Items(g) \cup {None} : \E sel :
       h = createOccurrence(g, o, w, p, sel)
  \/ \E w \in Active(g) : h = resolveWorkStub(g, w)
  \/ \E o \in Items(g), p \in g.issued \cup {None} : h = [g EXCEPT !.occ[o].parent = p]
  \/ \E o \in Items(g) : \E sel : h = [g EXCEPT !.occ[o].sel = sel]
  \/ \E o \in Items(g) : h = deleteItem(g, o)
  \/ \E O \in SUBSET EmptyItems(g) : h = discardEmptyItems(g, O)
  \/ \E o \in Items(g) : h = applyWorkTrash(g, {g.occ[o].work})
  \/ h = applyWorkTrash(g, StaleBlankWorks(g))
  \/ \E w \in DOMAIN g.work : g.work[w].deleted /\ h = applyWorkRestore(g, w)

WorkChange(g, h) ==
  \/ \E w \in WorkIds \ DOMAIN g.work, b \in BranchIds \ DOMAIN g.branch,
        stub \in BOOLEAN, blank \in BOOLEAN :
       h = createUnplacedWork(g, w, b, stub, blank)
  \/ \E w \in WorkIds \ DOMAIN g.work, b \in BranchIds \ DOMAIN g.branch,
        o \in OccIds \ g.issued, p \in g.issued \cup {None}, blank \in BOOLEAN :
       h = createWorkBundle(g, w, b, o, p, blank)
  \/ \E w \in DOMAIN g.work : g.work[w].deleted /\ h = applyWorkPurge(g, w)
  \/ \E s, t \in Active(g), first \in [DOMAIN g.link -> DOMAIN g.link] :
       /\ s # t /\ IsFirst(rewireMergedLinks(g.link, s, t), first)
       /\ h = applyMergeWorks(g, s, t, first)

LinkChange(g, h) ==
  \/ \E l \in LinkIds \ DOMAIN g.link : \E ends :
       /\ \A k \in DOMAIN g.link : g.link[k].active => g.link[k].ends # ends
       /\ h = createLink(g, l, ends, "human")
  \/ \E v, w : h = deleteLink(g, v, w)
  \/ \E p \in DOMAIN g.sugg, l \in LinkIds \ DOMAIN g.link :
       h = acceptEmergenceSuggestion(g, p, l)

\* A revision is made under the head of the branch, or it promotes a snapshot.
HistoryChange(g, h) ==
  \/ \E b \in DOMAIN g.branch, r \in RevIds \ DOMAIN g.rev, P \in SUBSET DOMAIN g.rev :
       /\ g.branch[b].head \in P \cup {None}
       /\ h = appendRevisionToBranch(g, r, b, g.branch[b].work, P)
  \/ \E n \in DOMAIN g.snap, r \in RevIds \ DOMAIN g.rev :
       h = appendRevisionToBranch(g, r, g.snap[n].branch, g.snap[n].work,
                                  PromotionParents(g, n))
  \/ \E b \in BranchIds \ DOMAIN g.branch, rw \in Rewrites :
       h = createBranch(g, b, rw.work, rw.name, rw.head, rw.blank)
  \/ \E b \in DOMAIN g.branch, n \in SnapIds \ DOMAIN g.snap :
       b \in DOMAIN g.copy /\ h = createRecoverySnapshot(g, n, b)
  \/ \E n \in DOMAIN g.snap, before \in SnapIds \ DOMAIN g.snap, blank \in BOOLEAN :
       /\ g.snap[n].branch \in DOMAIN g.branch \cap DOMAIN g.copy
       /\ h = applyRecoverySnapshotRestore(g, n, before, blank)

Change(g, h) ==
  \/ Still(g, h)
  \/ /\ Valid(h)
     /\ OutlineChange(g, h) \/ WorkChange(g, h) \/ LinkChange(g, h) \/ HistoryChange(g, h)

LEMMA CommitChange ==
  ASSUME NEW h, NEW op, Commit(op, h),
         \/ Still(graph, h) \/ OutlineChange(graph, h) \/ WorkChange(graph, h)
         \/ LinkChange(graph, h) \/ HistoryChange(graph, h)
  PROVE  Change(graph, graph')
<1>1. Still(graph, graph) BY DEF Still
<1>2. graph' = graph \/ (graph' = h /\ Valid(h)) BY DEF Commit
<1> HIDE DEF Commit, Still, OutlineChange, WorkChange, LinkChange, HistoryChange, Valid
<1>3. CASE graph' = graph
  <2>1. Still(graph, graph') BY <1>1, <1>3
  <2> QED BY <2>1 DEF Change
<1>4. CASE graph' = h /\ Valid(h)
  <2>1. Change(graph, h) BY <1>4 DEF Change
  <2> QED BY <1>4, <2>1
<1> QED BY <1>2, <1>3, <1>4

LEMMA PlacingChange ==
  ASSUME TypeOK,
         \/ CreateItem \/ CreateUnplacedWork \/ CreateOccurrence \/ UpdateText
         \/ ResolveStub \/ MoveItem \/ SetOccurrenceRevision \/ DeleteItem
  PROVE  Change(graph, graph')
<1>0. graph \in Graphs BY DEF TypeOK
<1>1. CASE CreateItem
  <2>1. PICK w \in NewWorkId, b \in NewBranch, o \in NewOcc, p \in Parents, blank \in BOOLEAN :
          Run("createItem", createWorkBundle(graph, w, b, o, p, blank))
    BY ONLY <1>1 DEF CreateItem
  <2>2. WorkChange(graph, createWorkBundle(graph, w, b, o, p, blank))
    BY DEF WorkChange, NewWorkId, NewBranch, NewOcc, Parents
  <2> QED BY <2>1, <2>2, CommitChange DEF Run
<1>2. CASE CreateUnplacedWork
  <2>1. PICK w \in NewWorkId, b \in NewBranch, stub \in BOOLEAN :
          Run("createUnplacedWork", createUnplacedWork(graph, w, b, stub, stub))
    BY ONLY <1>2 DEF CreateUnplacedWork
  <2>2. WorkChange(graph, createUnplacedWork(graph, w, b, stub, stub))
    BY DEF WorkChange, NewWorkId, NewBranch
  <2> QED BY <2>1, <2>2, CommitChange DEF Run
<1>3. CASE CreateOccurrence
  <2>1. PICK o \in NewOcc, w \in Active(graph), p \in Items(graph) \cup {None} :
          \E sel : Run("createOccurrence", createOccurrence(graph, o, w, p, sel))
    BY ONLY <1>3 DEF CreateOccurrence
  <2>2. \A sel : OutlineChange(graph, createOccurrence(graph, o, w, p, sel))
    BY DEF OutlineChange, NewOcc, Parents
  <2> QED BY <2>1, <2>2, CommitChange DEF Run
<1>4. CASE UpdateText
  <2>1. PICK b \in DOMAIN graph.copy, blank \in BOOLEAN :
          Run("updateText", updateBranchWorkingCopy(graph, b, blank))
    BY ONLY <1>4 DEF UpdateText
  <2>2. Still(graph, updateBranchWorkingCopy(graph, b, blank))
    <3> DEFINE h == updateBranchWorkingCopy(graph, b, blank)
    <3>1. /\ h.copy = [graph.copy EXCEPT ![b].blank = blank]
          /\ h.work = graph.work /\ h.branch = graph.branch /\ h.rev = graph.rev
          /\ h.snap = graph.snap /\ h.occ = graph.occ /\ h.link = graph.link
          /\ h.purgedWorks = graph.purgedWorks
      BY <1>0 DEF updateBranchWorkingCopy, Graphs
    <3> HIDE DEF h
    <3>2. \A x \in DOMAIN graph.copy :
            [graph.copy[x] EXCEPT !.blank = blank].work = graph.copy[x].work
      BY <1>0, GraphRecords DEF CopyRecs
    <3>3. DOMAIN h.copy = DOMAIN graph.copy
          /\ \A x \in DOMAIN h.copy : h.copy[x].work = graph.copy[x].work
      BY <1>0, <3>1, <3>2, GraphTables
    <3>4. Still(graph, h) BY <3>1, <3>3 DEF Still
    <3> QED BY <3>4 DEF h
  <2> QED BY <2>1, <2>2, CommitChange DEF Run
<1>5. CASE ResolveStub
  <2>1. PICK w \in Active(graph) : Run("resolveStub", resolveWorkStub(graph, w))
    BY ONLY <1>5 DEF ResolveStub
  <2>2. OutlineChange(graph, resolveWorkStub(graph, w)) BY DEF OutlineChange
  <2> QED BY <2>1, <2>2, CommitChange DEF Run
<1>6. CASE MoveItem
  <2>1. PICK o \in Items(graph), p \in Parents :
          Run("moveItem", [graph EXCEPT !.occ[o].parent = p])
    BY ONLY <1>6 DEF MoveItem
  <2>2. OutlineChange(graph, [graph EXCEPT !.occ[o].parent = p])
    BY DEF OutlineChange, Parents
  <2> QED BY <2>1, <2>2, CommitChange DEF Run
<1>7. CASE SetOccurrenceRevision
  <2>1. PICK o \in Items(graph) : \E sel :
          Run("setOccurrenceRevision", [graph EXCEPT !.occ[o].sel = sel])
    BY ONLY <1>7 DEF SetOccurrenceRevision
  <2>2. \A sel : OutlineChange(graph, [graph EXCEPT !.occ[o].sel = sel]) BY DEF OutlineChange
  <2> QED BY <2>1, <2>2, CommitChange DEF Run
<1>8. CASE DeleteItem
  <2>1. PICK o \in Items(graph) : Run("deleteItem", deleteItem(graph, o))
    BY ONLY <1>8 DEF DeleteItem
  <2>2. OutlineChange(graph, deleteItem(graph, o)) BY DEF OutlineChange
  <2> QED BY <2>1, <2>2, CommitChange DEF Run
<1> QED BY <1>1, <1>2, <1>3, <1>4, <1>5, <1>6, <1>7, <1>8

LEMMA TrashAndMergeChange ==
  ASSUME TypeOK,
         \/ DiscardEmptyItems
         \/ TrashWork \/ ListUnplaced \/ RestoreWork \/ PurgeWork \/ MergeWorks
  PROVE  Change(graph, graph')
<1>0. CASE DiscardEmptyItems
  <2>1. PICK O \in SUBSET EmptyItems(graph) :
          Run("discardEmptyItems", discardEmptyItems(graph, O))
    BY ONLY <1>0 DEF DiscardEmptyItems
  <2>2. OutlineChange(graph, discardEmptyItems(graph, O)) BY DEF OutlineChange
  <2> QED BY <2>1, <2>2, CommitChange DEF Run
<1>1. CASE TrashWork
  <2>1. PICK o \in Items(graph) : Run("trashWork", applyWorkTrash(graph, {graph.occ[o].work}))
    BY ONLY <1>1 DEF TrashWork
  <2>2. OutlineChange(graph, applyWorkTrash(graph, {graph.occ[o].work})) BY DEF OutlineChange
  <2> QED BY <2>1, <2>2, CommitChange DEF Run
<1>2. CASE ListUnplaced
  <2>1. Run("listUnplaced", applyWorkTrash(graph, StaleBlankWorks(graph)))
    BY ONLY <1>2 DEF ListUnplaced
  <2>2. OutlineChange(graph, applyWorkTrash(graph, StaleBlankWorks(graph))) BY DEF OutlineChange
  <2> QED BY <2>1, <2>2, CommitChange DEF Run
<1>3. CASE RestoreWork
  <2>1. PICK w \in InTrash : Run("restoreWork", applyWorkRestore(graph, w))
    BY ONLY <1>3 DEF RestoreWork
  <2>2. OutlineChange(graph, applyWorkRestore(graph, w)) BY DEF OutlineChange, InTrash
  <2> QED BY <2>1, <2>2, CommitChange DEF Run
<1>4. CASE PurgeWork
  <2>1. PICK w \in InTrash : Run("purgeWork", applyWorkPurge(graph, w))
    BY ONLY <1>4 DEF PurgeWork
  <2>2. WorkChange(graph, applyWorkPurge(graph, w)) BY DEF WorkChange, InTrash
  <2> QED BY <2>1, <2>2, CommitChange DEF Run
<1>5. CASE MergeWorks
  <2>1. PICK s \in Active(graph), t \in Active(graph),
             first \in [DOMAIN graph.link -> DOMAIN graph.link] :
          /\ s # t /\ IsFirst(rewireMergedLinks(graph.link, s, t), first)
          /\ Run("mergeWorks", applyMergeWorks(graph, s, t, first))
    BY ONLY <1>5 DEF MergeWorks
  <2>2. WorkChange(graph, applyMergeWorks(graph, s, t, first)) BY <2>1 DEF WorkChange
  <2> QED BY <2>1, <2>2, CommitChange DEF Run
<1> QED BY <1>0, <1>1, <1>2, <1>3, <1>4, <1>5

LEMMA CitingChange ==
  ASSUME TypeOK,
         \/ CreateBookmark \/ DeleteBookmark \/ SaveResumePosition \/ ClearResumePosition
         \/ CreateLink \/ DeleteLink \/ MaterializeSuggestion \/ ResolveSuggestion
  PROVE  Change(graph, graph')
<1>0. graph \in Graphs BY DEF TypeOK
<1>1. /\ \A f : Still(graph, [graph EXCEPT !.mark = f])
      /\ \A r : Still(graph, [graph EXCEPT !.resume = r])
      /\ \A f : Still(graph, [graph EXCEPT !.sugg = f])
  BY <1>0 DEF Still, Graphs
<1>2. CASE CreateBookmark
  <2>1. PICK f : Run("createBookmark", [graph EXCEPT !.mark = f])
    BY ONLY <1>2 DEF CreateBookmark
  <2> QED BY <1>1, <2>1, CommitChange DEF Run
<1>3. CASE DeleteBookmark
  <2>1. PICK f : Run("deleteBookmark", [graph EXCEPT !.mark = f])
    BY ONLY <1>3 DEF DeleteBookmark
  <2> QED BY <1>1, <2>1, CommitChange DEF Run
<1>4. CASE SaveResumePosition
  <2>1. PICK r : Run("saveResumePosition", [graph EXCEPT !.resume = r])
    BY ONLY <1>4 DEF SaveResumePosition
  <2> QED BY <1>1, <2>1, CommitChange DEF Run
<1>5. CASE ClearResumePosition
  BY <1>1, <1>5, CommitChange DEF ClearResumePosition, Run
<1>6. CASE CreateLink
  <2>1. PICK l \in NewLink, e \in LinkEnds(graph), f \in LinkEnds(graph) :
          /\ \A k \in DOMAIN graph.link : graph.link[k].active => graph.link[k].ends # {e, f}
          /\ Run("createLink", createLink(graph, l, {e, f}, "human"))
    BY ONLY <1>6 DEF CreateLink
  <2>2. LinkChange(graph, createLink(graph, l, {e, f}, "human"))
    BY <2>1 DEF LinkChange, NewLink
  <2> QED BY <2>1, <2>2, CommitChange DEF Run
<1>7. CASE DeleteLink
  <2>1. PICK v, w : Run("deleteLink", deleteLink(graph, v, w)) BY ONLY <1>7 DEF DeleteLink
  <2>2. LinkChange(graph, deleteLink(graph, v, w)) BY DEF LinkChange
  <2> QED BY <2>1, <2>2, CommitChange DEF Run
<1>8. CASE MaterializeSuggestion
  <2>1. PICK p, from, to : Run("materialize", upsertEmergenceSuggestion(graph, p, from, to))
    BY ONLY <1>8 DEF MaterializeSuggestion
  <2>2. Still(graph, upsertEmergenceSuggestion(graph, p, from, to))
    BY <1>1 DEF upsertEmergenceSuggestion
  <2> QED BY <2>1, <2>2, CommitChange DEF Run
<1>9. CASE ResolveSuggestion
  <2>1. PICK p \in DOMAIN graph.sugg :
          \/ \E status :
               Run("resolveSuggestion", resolveEmergenceSuggestion(graph, p, status))
          \/ \E l \in NewLink :
               Run("acceptSuggestion", acceptEmergenceSuggestion(graph, p, l))
    BY ONLY <1>9 DEF ResolveSuggestion
  <2>2. \A status : Still(graph, resolveEmergenceSuggestion(graph, p, status))
    BY <1>1 DEF resolveEmergenceSuggestion
  <2>3. \A l \in NewLink : LinkChange(graph, acceptEmergenceSuggestion(graph, p, l))
    BY DEF LinkChange, NewLink
  <2> QED BY <2>1, <2>2, <2>3, CommitChange DEF Run
<1> QED BY <1>2, <1>3, <1>4, <1>5, <1>6, <1>7, <1>8, <1>9

LEMMA HistoryChanges ==
  ASSUME TypeOK,
         \/ CreateCheckpoint \/ CreateManualMerge \/ RewriteCheckpoint \/ RewriteBranch
         \/ CreateRecoverySnapshot \/ RestoreSnapshot \/ PromoteSnapshot
  PROVE  Change(graph, graph')
<1>0. graph \in Graphs BY DEF TypeOK
<1>1. ASSUME NEW b \in DOMAIN graph.branch, NEW r \in NewRev, NEW P,
             graph.branch[b].head \in P \cup {None},
             validateRevisionCreation(graph, r, b, graph.branch[b].work, P)
      PROVE  HistoryChange(graph, appendRevisionToBranch(graph, r, b, graph.branch[b].work, P))
  <2>1. P \in SUBSET DOMAIN graph.rev BY <1>1 DEF validateRevisionCreation
  <2> QED BY <1>1, <2>1 DEF HistoryChange, NewRev
<1>2. CASE CreateCheckpoint
  <2>1. PICK b \in DOMAIN graph.branch, r \in NewRev :
          /\ validateRevisionCreation(graph, r, b, graph.branch[b].work,
                                      {graph.branch[b].head} \ {None})
          /\ Run("createRevision", appendRevisionToBranch(
               graph, r, b, graph.branch[b].work, {graph.branch[b].head} \ {None}))
    BY ONLY <1>2 DEF CreateCheckpoint
  <2>2. graph.branch[b].head \in ({graph.branch[b].head} \ {None}) \cup {None} OBVIOUS
  <2> QED BY <1>1, <2>1, <2>2, CommitChange DEF Run
<1>3. CASE CreateManualMerge
  <2>1. PICK b \in DOMAIN graph.branch, r \in NewRev, p \in DOMAIN graph.rev :
          /\ validateRevisionCreation(graph, r, b, graph.branch[b].work,
                                      {graph.branch[b].head, p})
          /\ Run("createRevision", appendRevisionToBranch(
               graph, r, b, graph.branch[b].work, {graph.branch[b].head, p}))
    BY ONLY <1>3 DEF CreateManualMerge
  <2>2. graph.branch[b].head \in {graph.branch[b].head, p} \cup {None} OBVIOUS
  <2> QED BY <1>1, <2>1, <2>2, CommitChange DEF Run
<1>4. CASE RewriteCheckpoint
  <2>1. PICK b \in DOMAIN graph.branch :
          \/ UNCHANGED graph
          \/ \E r \in NewRev :
               /\ validateRevisionCreation(graph, r, b, graph.branch[b].work,
                                           {graph.branch[b].head} \ {None})
               /\ Commit("createRevision", appendRevisionToBranch(
                    graph, r, b, graph.branch[b].work, {graph.branch[b].head} \ {None}))
    BY ONLY <1>4 DEF RewriteCheckpoint
  <2>2. graph.branch[b].head \in ({graph.branch[b].head} \ {None}) \cup {None} OBVIOUS
  <2>3. CASE UNCHANGED graph
    <3>1. Still(graph, graph') BY <2>3 DEF Still
    <3> QED BY <3>1 DEF Change
  <2> QED BY <1>1, <2>1, <2>2, <2>3, CommitChange
<1>5. CASE RewriteBranch
  <2>1. PICK b \in NewBranch :
          /\ rewriting # None
          /\ Commit("createBranch", createBranch(graph, b, rewriting.work, rewriting.name,
                                                 rewriting.head, rewriting.blank))
    BY ONLY <1>5 DEF RewriteBranch
  <2>2. rewriting \in Rewrites BY <2>1 DEF TypeOK
  <2>3. HistoryChange(graph, createBranch(graph, b, rewriting.work, rewriting.name,
                                          rewriting.head, rewriting.blank))
    BY <2>2 DEF HistoryChange, NewBranch
  <2> QED BY <2>1, <2>3, CommitChange
<1>6. CASE CreateRecoverySnapshot
  <2>1. PICK b \in DOMAIN graph.branch, n \in NewSnap :
          CopyOf(graph, b) /\ Run("createSnapshot", createRecoverySnapshot(graph, n, b))
    BY ONLY <1>6 DEF CreateRecoverySnapshot
  <2>2. HistoryChange(graph, createRecoverySnapshot(graph, n, b))
    BY <2>1 DEF HistoryChange, NewSnap, CopyOf
  <2> QED BY <2>1, <2>2, CommitChange DEF Run
<1>7. CASE RestoreSnapshot
  <2>1. PICK n \in DOMAIN graph.snap, before \in NewSnap, blank \in BOOLEAN :
          /\ InScope(graph, n)
          /\ Run("restoreSnapshot", applyRecoverySnapshotRestore(graph, n, before, blank))
    BY ONLY <1>7 DEF RestoreSnapshot
  <2>2. HistoryChange(graph, applyRecoverySnapshotRestore(graph, n, before, blank))
    BY <2>1 DEF HistoryChange, NewSnap, InScope, CopyOf
  <2> QED BY <2>1, <2>2, CommitChange DEF Run
<1>8. CASE PromoteSnapshot
  <2>1. PICK n \in DOMAIN graph.snap, r \in NewRev :
          Run("promoteSnapshot", appendRevisionToBranch(
            graph, r, graph.snap[n].branch, graph.snap[n].work, PromotionParents(graph, n)))
    BY ONLY <1>8 DEF PromoteSnapshot
  <2>2. HistoryChange(graph, appendRevisionToBranch(
          graph, r, graph.snap[n].branch, graph.snap[n].work, PromotionParents(graph, n)))
    BY DEF HistoryChange, NewRev
  <2> QED BY <2>1, <2>2, CommitChange DEF Run
<1> QED BY <1>2, <1>3, <1>4, <1>5, <1>6, <1>7, <1>8

LEMMA StepChange ==
  ASSUME TypeOK, [Next]_vars
  PROVE  Change(graph, graph')
<1>1. CASE UNCHANGED vars
  <2>1. graph' = graph BY <1>1 DEF vars
  <2>2. Still(graph, graph') BY <2>1 DEF Still
  <2> QED BY <2>2 DEF Change
<1> QED BY <1>1, PlacingChange, TrashAndMergeChange, CitingChange, HistoryChanges DEF Next

-----------------------------------------------------------------------------
\* What each kind of change leaves alone.

LEMMA applyWorkTrashKeeps ==
  ASSUME NEW g \in Graphs, NEW W, NEW h, h = applyWorkTrash(g, W)
  PROVE  /\ h.branch = g.branch /\ h.copy = g.copy /\ h.rev = g.rev
         /\ h.snap = g.snap /\ h.link = g.link /\ h.occ = g.occ
         /\ DOMAIN h.work = DOMAIN g.work
         /\ \A w \in DOMAIN h.work :
              /\ h.work[w].merged = g.work[w].merged /\ h.work[w].stub = g.work[w].stub
              /\ g.work[w].deleted => h.work[w].deleted
<1>1. /\ h.work = [w \in DOMAIN g.work |->
                     IF w \in W THEN [g.work[w] EXCEPT !.deleted = TRUE] ELSE g.work[w]]
      /\ h.branch = g.branch /\ h.copy = g.copy /\ h.rev = g.rev
      /\ h.snap = g.snap /\ h.link = g.link /\ h.occ = g.occ
  BY DEF applyWorkTrash, Graphs
<1>2. \A w \in DOMAIN g.work :
        /\ [g.work[w] EXCEPT !.deleted = TRUE].deleted
        /\ [g.work[w] EXCEPT !.deleted = TRUE].merged = g.work[w].merged
        /\ [g.work[w] EXCEPT !.deleted = TRUE].stub = g.work[w].stub
  BY GraphRecords DEF WorkRecs
<1> QED BY <1>1, <1>2

\* Both deletions: some placements go, and then some works are trashed.
LEMMA deleteItemKeeps ==
  ASSUME NEW g \in Graphs, NEW h,
         \/ \E o \in DOMAIN g.occ : h = deleteItem(g, o)
         \/ \E O : h = discardEmptyItems(g, O)
  PROVE  /\ h.branch = g.branch /\ h.copy = g.copy /\ h.rev = g.rev
         /\ h.snap = g.snap /\ h.link = g.link
         /\ \A o \in DOMAIN g.occ :
              h = deleteItem(g, o) => h.occ = deleteOccurrenceWithPromotion(g, o).occ
         /\ \A O : h = discardEmptyItems(g, O) => h.occ = Without(g.occ, O)
         /\ DOMAIN h.work = DOMAIN g.work
         /\ \A w \in DOMAIN h.work :
              /\ h.work[w].merged = g.work[w].merged /\ h.work[w].stub = g.work[w].stub
              /\ g.work[w].deleted => h.work[w].deleted
<1> DEFINE Same(k) == /\ k \in Graphs /\ k.work = g.work /\ k.branch = g.branch
                      /\ k.copy = g.copy /\ k.rev = g.rev
                      /\ k.snap = g.snap /\ k.link = g.link
           Kept(k) == /\ h.branch = g.branch /\ h.copy = g.copy /\ h.rev = g.rev
                      /\ h.snap = g.snap /\ h.link = g.link /\ h.occ = k.occ
                      /\ DOMAIN h.work = DOMAIN g.work
                      /\ \A w \in DOMAIN h.work :
                           /\ h.work[w].merged = g.work[w].merged
                           /\ h.work[w].stub = g.work[w].stub
                           /\ g.work[w].deleted => h.work[w].deleted
<1>1. ASSUME NEW k, NEW W, Same(k), h = trashBlankUnplacedWorks(k, W)
      PROVE  Kept(k)
  BY <1>1, applyWorkTrashKeeps DEF trashBlankUnplacedWorks
<1>2. ASSUME NEW o \in DOMAIN g.occ, h = deleteItem(g, o)
      PROVE  Kept(deleteOccurrenceWithPromotion(g, o))
  <2> DEFINE k == deleteOccurrenceWithPromotion(g, o)
  <2>1. Same(k) BY deleteItemType DEF deleteOccurrenceWithPromotion, Graphs
  <2>2. h = trashBlankUnplacedWorks(k, {g.occ[o].work}) BY <1>2 DEF deleteItem
  <2> HIDE DEF k, Same, Kept
  <2>3. Kept(k) BY <1>1, <2>1, <2>2
  <2> QED BY <2>3 DEF k
<1>3. ASSUME NEW O, h = discardEmptyItems(g, O)
      PROVE  Kept([g EXCEPT !.occ = Without(@, O)]) /\ h.occ = Without(g.occ, O)
  <2> DEFINE k == [g EXCEPT !.occ = Without(@, O)]
  <2>1. Same(k) /\ k.occ = Without(g.occ, O) BY discardEmptyItemsType DEF Graphs
  <2>2. h = trashBlankUnplacedWorks(k, {g.occ[o].work : o \in O})
    BY <1>3 DEF discardEmptyItems
  <2> HIDE DEF k, Same, Kept
  <2>3. Kept(k) BY <1>1, <2>1, <2>2
  <2>4. h.occ = k.occ BY <2>3 DEF Kept
  <2> QED BY <2>1, <2>3, <2>4 DEF k
<1> QED BY <1>2, <1>3

LEMMA OutlineKeeps ==
  ASSUME NEW g \in Graphs, NEW h, OutlineChange(g, h)
  PROVE  /\ h.branch = g.branch /\ h.copy = g.copy /\ h.rev = g.rev
         /\ h.snap = g.snap /\ h.link = g.link
         /\ DOMAIN h.work = DOMAIN g.work
         /\ \A w \in DOMAIN h.work : h.work[w].merged = g.work[w].merged
<1>0. \A w \in DOMAIN g.work :
        /\ \A d : [g.work[w] EXCEPT !.deleted = d].merged = g.work[w].merged
        /\ [g.work[w] EXCEPT !.stub = FALSE].merged = g.work[w].merged
  BY GraphRecords DEF WorkRecs
<1>1. CASE \E o, w, p, sel : h = createOccurrence(g, o, w, p, sel)
  BY <1>1 DEF createOccurrence, Graphs
<1>2. CASE \E w \in DOMAIN g.work : h = resolveWorkStub(g, w)
  <2>1. PICK w \in DOMAIN g.work : h = resolveWorkStub(g, w) BY <1>2
  <2>2. /\ h.work = [g.work EXCEPT ![w].stub = FALSE]
        /\ h.branch = g.branch /\ h.copy = g.copy /\ h.rev = g.rev
        /\ h.snap = g.snap /\ h.link = g.link
    BY <2>1 DEF resolveWorkStub, Graphs
  <2> QED BY <1>0, <2>2, GraphTables
<1>3. CASE \/ \E o, p : h = [g EXCEPT !.occ[o].parent = p]
           \/ \E o, sel : h = [g EXCEPT !.occ[o].sel = sel]
  BY <1>3 DEF Graphs
<1>4. CASE \/ \E o \in DOMAIN g.occ : h = deleteItem(g, o)
           \/ \E O : h = discardEmptyItems(g, O)
  BY <1>4, deleteItemKeeps
<1>5. CASE \E W : h = applyWorkTrash(g, W)
  <2>1. PICK W : h = applyWorkTrash(g, W) BY <1>5
  <2>2. /\ h.work = [w \in DOMAIN g.work |->
                       IF w \in W THEN [g.work[w] EXCEPT !.deleted = TRUE] ELSE g.work[w]]
        /\ h.branch = g.branch /\ h.copy = g.copy /\ h.rev = g.rev
        /\ h.snap = g.snap /\ h.link = g.link
    BY <2>1 DEF applyWorkTrash, Graphs
  <2> QED BY <1>0, <2>2
<1>6. CASE \E w \in DOMAIN g.work : h = applyWorkRestore(g, w)
  <2>1. PICK w \in DOMAIN g.work : h = applyWorkRestore(g, w) BY <1>6
  <2> DEFINE k == [g EXCEPT !.work[w].deleted = FALSE]
  <2>2. /\ k \in Graphs
        /\ k.work = [g.work EXCEPT ![w].deleted = FALSE]
        /\ k.branch = g.branch /\ k.copy = g.copy /\ k.rev = g.rev
        /\ k.snap = g.snap /\ k.link = g.link
    BY RestoredType DEF Graphs
  <2>3. h = cleanupOrphanOccurrences(k, Owned(k.occ, w)) BY <2>1 DEF applyWorkRestore
  <2> HIDE DEF k
  <2>4. /\ h.work = k.work /\ h.branch = k.branch /\ h.copy = k.copy /\ h.rev = k.rev
        /\ h.snap = k.snap /\ h.link = k.link
    BY <2>2, <2>3 DEF cleanupOrphanOccurrences, Graphs
  <2> QED BY <1>0, <2>2, <2>4, GraphTables
<1>7. \/ \E o, w, p, sel : h = createOccurrence(g, o, w, p, sel)
      \/ \E w \in DOMAIN g.work : h = resolveWorkStub(g, w)
      \/ \E o, p : h = [g EXCEPT !.occ[o].parent = p]
      \/ \E o, sel : h = [g EXCEPT !.occ[o].sel = sel]
      \/ \E o \in DOMAIN g.occ : h = deleteItem(g, o)
      \/ \E O : h = discardEmptyItems(g, O)
      \/ \E W : h = applyWorkTrash(g, W)
      \/ \E w \in DOMAIN g.work : h = applyWorkRestore(g, w)
  <2>1. Items(g) \subseteq DOMAIN g.occ /\ Active(g) \subseteq DOMAIN g.work
    BY DEF Items, Active
  <2> QED BY <2>1 DEF OutlineChange
<1> QED BY <1>1, <1>2, <1>3, <1>4, <1>5, <1>6, <1>7

LEMMA LinksKeep ==
  ASSUME NEW g \in Graphs, NEW h, LinkChange(g, h)
  PROVE  /\ h.work = g.work /\ h.branch = g.branch /\ h.copy = g.copy /\ h.rev = g.rev
         /\ h.snap = g.snap /\ h.occ = g.occ
<1>1. ASSUME NEW k \in Graphs, NEW l, NEW E, NEW origin
      PROVE  LET c == createLink(k, l, E, origin) IN
               /\ c.work = k.work /\ c.branch = k.branch /\ c.copy = k.copy
               /\ c.rev = k.rev /\ c.snap = k.snap /\ c.occ = k.occ
  BY DEF createLink, Graphs
<1>2. CASE \E l, E : h = createLink(g, l, E, "human") BY <1>1, <1>2
<1>3. CASE \E v, w : h = deleteLink(g, v, w) BY <1>3 DEF deleteLink, Graphs
<1>4. CASE \E p, l : h = acceptEmergenceSuggestion(g, p, l)
  <2>1. PICK p, l : h = acceptEmergenceSuggestion(g, p, l) BY <1>4
  <2> DEFINE k == resolveEmergenceSuggestion(g, p, "resolved")
  <2>2. /\ k \in Graphs
        /\ k.work = g.work /\ k.branch = g.branch /\ k.copy = g.copy
        /\ k.rev = g.rev /\ k.snap = g.snap /\ k.occ = g.occ
    BY resolveEmergenceSuggestionType DEF resolveEmergenceSuggestion, Graphs
  <2>3. h = k \/ \E E : h = createLink(k, l, E, "suggestion")
    BY <2>1 DEF acceptEmergenceSuggestion
  <2> HIDE DEF k
  <2> QED BY <1>1, <2>2, <2>3
<1> QED BY <1>2, <1>3, <1>4 DEF LinkChange

LEMMA HistoryKeeps ==
  ASSUME NEW g \in Graphs, NEW h, HistoryChange(g, h)
  PROVE  h.work = g.work /\ h.occ = g.occ /\ h.link = g.link
<1>1. CASE \E r, b, w, P : h = appendRevisionToBranch(g, r, b, w, P)
  BY <1>1 DEF appendRevisionToBranch, Graphs
<1>2. CASE \E b, w, name, head, blank : h = createBranch(g, b, w, name, head, blank)
  BY <1>2 DEF createBranch, Graphs
<1>3. CASE \E n, b : h = createRecoverySnapshot(g, n, b)
  BY <1>3 DEF createRecoverySnapshot, Graphs
<1>4. CASE \E n, before, blank : h = applyRecoverySnapshotRestore(g, n, before, blank)
  BY <1>4 DEF applyRecoverySnapshotRestore, createRecoverySnapshot,
              updateBranchWorkingCopy, Graphs
<1> QED BY <1>1, <1>2, <1>3, <1>4 DEF HistoryChange

\* A new work comes with its main branch and the draft of it.
AddsWork(g, h, w, b) ==
  /\ DOMAIN h.work = DOMAIN g.work \cup {w}
  /\ h.work[w].merged = None /\ ~h.work[w].deleted
  /\ \A x \in DOMAIN g.work \ {w} : h.work[x] = g.work[x]
  /\ DOMAIN h.branch = DOMAIN g.branch \cup {b}
  /\ h.branch[b].work = w /\ h.branch[b].name = "main" /\ h.branch[b].head = None
  /\ \A x \in DOMAIN g.branch \ {b} : h.branch[x] = g.branch[x]
  /\ DOMAIN h.copy = DOMAIN g.copy \cup {b} /\ h.copy[b].work = w
  /\ \A x \in DOMAIN g.copy \ {b} : h.copy[x] = g.copy[x]
  /\ h.rev = g.rev /\ h.snap = g.snap /\ h.link = g.link

LEMMA createUnplacedWorkAdds ==
  ASSUME NEW g \in Graphs, NEW w \in WorkIds, NEW b \in BranchIds, NEW stub \in BOOLEAN,
         NEW blank \in BOOLEAN, NEW h, h = createUnplacedWork(g, w, b, stub, blank)
  PROVE  AddsWork(g, h, w, b) /\ h.occ = g.occ
<1>1. /\ h.work = Put(g.work, w, NewWork(stub))
      /\ h.branch = Put(g.branch, b, [work |-> w, name |-> "main", head |-> None])
      /\ h.copy = Put(g.copy, b, [work |-> w, blank |-> blank])
      /\ h.rev = g.rev /\ h.snap = g.snap /\ h.link = g.link /\ h.occ = g.occ
  BY DEF createUnplacedWork, Graphs
<1> QED BY <1>1 DEF AddsWork, Put, NewWork

LEMMA createWorkBundleAdds ==
  ASSUME NEW g \in Graphs, NEW w \in WorkIds, NEW b \in BranchIds, NEW o, NEW p,
         NEW blank \in BOOLEAN, NEW h, h = createWorkBundle(g, w, b, o, p, blank)
  PROVE  /\ AddsWork(g, h, w, b)
         /\ DOMAIN h.occ = DOMAIN g.occ \cup {o}
         /\ h.occ[o].work = w /\ h.occ[o].parent = p
         /\ \A x \in DOMAIN g.occ \ {o} : h.occ[x] = g.occ[x]
<1> DEFINE v == [work |-> w, parent |-> p, sel |-> b]
<1>0. PICK stub \in BOOLEAN : stub = FALSE OBVIOUS
<1>1. PICK k : stub = FALSE /\ k = createUnplacedWork(g, w, b, stub, blank)
  BY <1>0
<1>2. k \in Graphs /\ AddsWork(g, k, w, b) /\ k.occ = g.occ
  BY <1>1, createUnplacedWorkType, createUnplacedWorkAdds
<1>3. h = createOccurrence(k, o, w, p, b) BY <1>1 DEF createWorkBundle
<1>4. /\ h.work = k.work /\ h.branch = k.branch /\ h.copy = k.copy /\ h.rev = k.rev
      /\ h.snap = k.snap /\ h.link = k.link
      /\ h.occ = Put(k.occ, o, v)
  BY <1>2, <1>3 DEF createOccurrence, Graphs
<1>5. AddsWork(g, h, w, b) BY <1>2, <1>4 DEF AddsWork
<1>6. v.work = w /\ v.parent = p OBVIOUS
<1> HIDE DEF v
<1> QED BY <1>2, <1>4, <1>5, <1>6 DEF Put

LEMMA applyWorkPurgeEffect ==
  ASSUME NEW g \in Graphs, NEW w \in WorkIds, NEW h, h = applyWorkPurge(g, w)
  PROVE  /\ h.work = Without(g.work, {w})
         /\ h.branch = Without(g.branch, Owned(g.branch, w))
         /\ h.copy = Without(g.copy, Owned(g.copy, w) \cup Owned(g.branch, w))
         /\ h.rev = Without(g.rev, Owned(g.rev, w))
         /\ h.snap = Without(g.snap, Owned(g.snap, w))
         /\ h.link = Without(g.link, {l \in DOMAIN g.link : w \in WorksOf(g.link[l].ends)})
         /\ DOMAIN h.occ = DOMAIN g.occ \ Owned(g.occ, w)
         /\ \A o \in DOMAIN h.occ :
              /\ h.occ[o].work = g.occ[o].work
              /\ h.occ[o].parent \in DOMAIN h.occ \cup {None}
<1> DEFINE k == [g EXCEPT !.purgedWorks = @ \cup {w},
                          !.purgedOccs = @ \cup Owned(g.occ, w)]
           c == purgeAssociatedEntities(k, w)
<1>1. c \in Graphs BY PurgedType
<1>2. /\ c.work = Without(g.work, {w})
      /\ c.branch = Without(g.branch, Owned(g.branch, w))
      /\ c.copy = Without(g.copy, Owned(g.copy, w) \cup Owned(g.branch, w))
      /\ c.rev = Without(g.rev, Owned(g.rev, w))
      /\ c.snap = Without(g.snap, Owned(g.snap, w))
      /\ c.occ = Without(g.occ, Owned(g.occ, w))
      /\ c.link = Without(g.link, {l \in DOMAIN g.link : w \in WorksOf(g.link[l].ends)})
  BY DEF purgeAssociatedEntities, Graphs
<1>3. h = cleanupOrphanOccurrences(c, DOMAIN c.occ) BY DEF applyWorkPurge
<1> HIDE DEF c
<1> DEFINE f == [o \in DOMAIN c.occ |->
                   IF o \in DOMAIN c.occ /\ c.occ[o].parent # None /\ c.occ[o].parent \notin DOMAIN c.occ
                     THEN [c.occ[o] EXCEPT !.parent = None] ELSE c.occ[o]]
<1>4. /\ h.work = c.work /\ h.branch = c.branch /\ h.copy = c.copy /\ h.rev = c.rev
      /\ h.snap = c.snap /\ h.link = c.link /\ h.occ = f
  BY <1>1, <1>3 DEF cleanupOrphanOccurrences, Graphs
<1>5. \A o \in DOMAIN c.occ :
        /\ [c.occ[o] EXCEPT !.parent = None].work = c.occ[o].work
        /\ [c.occ[o] EXCEPT !.parent = None].parent = None
  BY <1>1, GraphRecords DEF OccRecs
<1>6. \A o \in DOMAIN f : f[o].work = c.occ[o].work /\ f[o].parent \in DOMAIN f \cup {None}
  BY <1>5
<1> HIDE DEF f
<1>7. DOMAIN f = DOMAIN c.occ BY DEF f
<1>8. /\ DOMAIN c.occ = DOMAIN g.occ \ Owned(g.occ, w)
      /\ \A o \in DOMAIN c.occ : c.occ[o] = g.occ[o]
  BY <1>2 DEF Without
<1> QED BY <1>2, <1>4, <1>6, <1>7, <1>8

LEMMA applyMergeWorksEffect ==
  ASSUME NEW g \in Graphs, NEW s \in WorkIds, NEW t \in WorkIds,
         NEW first \in [DOMAIN g.link -> DOMAIN g.link],
         NEW h, h = applyMergeWorks(g, s, t, first)
  PROVE  /\ DOMAIN h.work = DOMAIN g.work
         /\ \A x \in DOMAIN h.work :
              /\ h.work[x].deleted = g.work[x].deleted
              /\ h.work[x].merged = IF x = s THEN t ELSE g.work[x].merged
         /\ h.branch = rewireMergedBranches(g.branch, s, t)
         /\ h.copy = reassignWorkId(g.copy, s, t)
         /\ h.rev = reassignWorkId(g.rev, s, t)
         /\ h.snap = reassignWorkId(g.snap, s, t)
         /\ h.occ = reassignWorkId(g.occ, s, t)
         /\ h.link = retractDuplicateActiveLinks(rewireMergedLinks(g.link, s, t), first)
<1>1. /\ h.work = [g.work EXCEPT ![s].merged = t]
      /\ h.branch = rewireMergedBranches(g.branch, s, t)
      /\ h.copy = reassignWorkId(g.copy, s, t)
      /\ h.rev = reassignWorkId(g.rev, s, t)
      /\ h.snap = reassignWorkId(g.snap, s, t)
      /\ h.occ = reassignWorkId(g.occ, s, t)
      /\ h.link = retractDuplicateActiveLinks(rewireMergedLinks(g.link, s, t), first)
  BY DEF applyMergeWorks, Graphs
<1>2. \A x \in DOMAIN g.work :
        /\ [g.work[x] EXCEPT !.merged = t].merged = t
        /\ [g.work[x] EXCEPT !.merged = t].deleted = g.work[x].deleted
  BY GraphRecords DEF WorkRecs
<1> QED BY <1>1, <1>2, GraphTables

-----------------------------------------------------------------------------
\* Active links with the same ends.

Distinct(f) ==
  \A l, k \in DOMAIN f :
    f[l].active /\ f[k].active /\ f[l].ends = f[k].ends => l = k \/ f[l].origin # f[k].origin

LEMMA PutDistinct ==
  ASSUME NEW f, Distinct(f), NEW l, l \notin DOMAIN f, NEW E, NEW origin,
         \A k \in DOMAIN f : f[k].active /\ f[k].origin = origin => f[k].ends # E
  PROVE  Distinct(Put(f, l, [ends |-> E, active |-> TRUE, origin |-> origin]))
<1> DEFINE v == [ends |-> E, active |-> TRUE, origin |-> origin]
<1>1. v.ends = E /\ v.active /\ v.origin = origin OBVIOUS
<1> HIDE DEF v
<1>2. Distinct(Put(f, l, v)) BY <1>1 DEF Distinct, Put
<1> QED BY <1>2 DEF v

\* Links that go, or are only retracted, leave the others distinct.
LEMMA FewerDistinct ==
  ASSUME NEW f, Distinct(f), NEW e, DOMAIN e \subseteq DOMAIN f,
         \A l \in DOMAIN e : /\ e[l].active => f[l].active
                             /\ e[l].ends = f[l].ends /\ e[l].origin = f[l].origin
  PROVE  Distinct(e)
BY DEF Distinct

\* Of the links whose ends a merge folds together only the first stays active.
LEMMA MergedDistinct ==
  ASSUME NEW f \in Tables(LinkIds, LinkRecs), NEW first, IsFirst(f, first)
  PROVE  Distinct(retractDuplicateActiveLinks(f, first))
<1> DEFINE e == retractDuplicateActiveLinks(f, first)
<1>1. \A l \in DOMAIN f : /\ [f[l] EXCEPT !.active = FALSE].active = FALSE
                          /\ [f[l] EXCEPT !.active = FALSE].ends = f[l].ends
  BY TableElim DEF LinkRecs
<1>2. /\ DOMAIN e = DOMAIN f
      /\ \A l \in DOMAIN f : /\ e[l].ends = f[l].ends
                             /\ e[l].active => f[l].active /\ first[l] = l
  BY <1>1 DEF retractDuplicateActiveLinks
<1> HIDE DEF e
<1>3. Distinct(e) BY <1>2 DEF Distinct, IsFirst
<1> QED BY <1>3 DEF e

LEMMA LinkChangeDistinct ==
  ASSUME NEW g \in Graphs, NEW h, LinkChange(g, h), Distinct(g.link)
  PROVE  Distinct(h.link)
<1>1. CASE \E l \in LinkIds \ DOMAIN g.link : \E E :
             /\ \A k \in DOMAIN g.link : g.link[k].active => g.link[k].ends # E
             /\ h = createLink(g, l, E, "human")
  <2>0. PICK l \in LinkIds \ DOMAIN g.link : \E E :
          /\ \A k \in DOMAIN g.link : g.link[k].active => g.link[k].ends # E
          /\ h = createLink(g, l, E, "human")
    BY <1>1
  <2>1. PICK E :
          /\ \A k \in DOMAIN g.link : g.link[k].active => g.link[k].ends # E
          /\ h = createLink(g, l, E, "human")
    BY <2>0
  <2>2. h.link = Put(g.link, l, [ends |-> E, active |-> TRUE, origin |-> "human"])
    BY <2>1 DEF createLink, Graphs
  <2> QED BY <2>1, <2>2, PutDistinct
<1>2. CASE \E v, w : h = deleteLink(g, v, w)
  <2>1. PICK v, w : h = deleteLink(g, v, w) BY <1>2
  <2>2. h.link = [l \in DOMAIN g.link |->
          IF WorksOf(g.link[l].ends) = {v, w} THEN [g.link[l] EXCEPT !.active = FALSE] ELSE g.link[l]]
    BY <2>1 DEF deleteLink, Graphs
  <2>3. \A l \in DOMAIN g.link :
          /\ [g.link[l] EXCEPT !.active = FALSE].active = FALSE
          /\ [g.link[l] EXCEPT !.active = FALSE].ends = g.link[l].ends
          /\ [g.link[l] EXCEPT !.active = FALSE].origin = g.link[l].origin
    BY GraphRecords DEF LinkRecs
  <2>4. /\ DOMAIN h.link = DOMAIN g.link
        /\ \A l \in DOMAIN h.link : /\ h.link[l].active => g.link[l].active
                                    /\ h.link[l].ends = g.link[l].ends
                                    /\ h.link[l].origin = g.link[l].origin
    BY <2>2, <2>3
  <2> QED BY <2>4, FewerDistinct
<1>3. CASE \E p \in DOMAIN g.sugg, l \in LinkIds \ DOMAIN g.link :
             h = acceptEmergenceSuggestion(g, p, l)
  <2>1. PICK p \in DOMAIN g.sugg, l \in LinkIds \ DOMAIN g.link :
          h = acceptEmergenceSuggestion(g, p, l)
    BY <1>3
  <2> DEFINE E == {WorkEnd(p[1]), WorkEnd(p[2])}
             k == resolveEmergenceSuggestion(g, p, "resolved")
  <2>2. k \in Graphs /\ k.link = g.link
    BY resolveEmergenceSuggestionType DEF resolveEmergenceSuggestion, Graphs
  <2>3. \/ h = k
        \/ /\ \A x \in DOMAIN g.link :
                g.link[x].active /\ g.link[x].origin = "suggestion" => g.link[x].ends # E
           /\ h = createLink(k, l, E, "suggestion")
    BY <2>1 DEF acceptEmergenceSuggestion
  <2> HIDE DEF k, E
  <2>4. CASE h = k BY <2>2, <2>4
  <2>5. CASE h = createLink(k, l, E, "suggestion")
             /\ \A x \in DOMAIN g.link :
                  g.link[x].active /\ g.link[x].origin = "suggestion" => g.link[x].ends # E
    <3>1. h.link = Put(g.link, l, [ends |-> E, active |-> TRUE, origin |-> "suggestion"])
      BY <2>2, <2>5 DEF createLink, Graphs
    <3> QED BY <2>1, <2>5, <3>1, PutDistinct
  <2> QED BY <2>3, <2>4, <2>5
<1> QED BY <1>1, <1>2, <1>3 DEF LinkChange

LEMMA WorkChangeDistinct ==
  ASSUME NEW g \in Graphs, NEW h, WorkChange(g, h), Distinct(g.link)
  PROVE  Distinct(h.link)
<1>1. CASE \E w \in WorkIds, b \in BranchIds : AddsWork(g, h, w, b)
  BY <1>1 DEF AddsWork
<1>2. CASE \E w \in DOMAIN g.work : h = applyWorkPurge(g, w)
  <2>1. PICK w \in WorkIds : h = applyWorkPurge(g, w) BY <1>2, GraphTables
  <2>2. h.link = Without(g.link, {l \in DOMAIN g.link : w \in WorksOf(g.link[l].ends)})
    BY <2>1, applyWorkPurgeEffect
  <2>3. DOMAIN h.link \subseteq DOMAIN g.link /\ \A l \in DOMAIN h.link : h.link[l] = g.link[l]
    BY <2>2 DEF Without
  <2> QED BY <2>3, FewerDistinct
<1>3. CASE \E s, t \in Active(g), first \in [DOMAIN g.link -> DOMAIN g.link] :
             /\ IsFirst(rewireMergedLinks(g.link, s, t), first)
             /\ h = applyMergeWorks(g, s, t, first)
  <2>1. PICK s \in Active(g), t \in Active(g), first \in [DOMAIN g.link -> DOMAIN g.link] :
          /\ IsFirst(rewireMergedLinks(g.link, s, t), first)
          /\ h = applyMergeWorks(g, s, t, first)
    BY <1>3
  <2>2. s \in WorkIds /\ t \in WorkIds BY GraphTables DEF Active
  <2>3. rewireMergedLinks(g.link, s, t) \in Tables(LinkIds, LinkRecs)
    BY <2>2, GraphFields, rewireMergedLinksType
  <2>4. h.link = retractDuplicateActiveLinks(rewireMergedLinks(g.link, s, t), first)
    <3>1. h = applyMergeWorks(g, s, t, first) BY <2>1
    <3> QED BY <2>2, <3>1, applyMergeWorksEffect
  <2> QED BY <2>1, <2>3, <2>4, MergedDistinct
<1>4. \/ \E w \in WorkIds, b \in BranchIds : AddsWork(g, h, w, b)
      \/ \E w \in DOMAIN g.work : h = applyWorkPurge(g, w)
      \/ \E s, t \in Active(g), first \in [DOMAIN g.link -> DOMAIN g.link] :
           /\ IsFirst(rewireMergedLinks(g.link, s, t), first)
           /\ h = applyMergeWorks(g, s, t, first)
  BY createUnplacedWorkAdds, createWorkBundleAdds DEF WorkChange
<1> QED BY <1>1, <1>2, <1>3, <1>4

LEMMA StepDistinct ==
  ASSUME TypeOK, Distinct(graph.link), [Next]_vars
  PROVE  Distinct(graph'.link)
<1>0. graph \in Graphs /\ Change(graph, graph') BY StepChange DEF TypeOK
<1>1. CASE Still(graph, graph') BY <1>1 DEF Still
<1>2. CASE OutlineChange(graph, graph') BY <1>0, <1>2, OutlineKeeps
<1>3. CASE WorkChange(graph, graph') BY <1>0, <1>3, WorkChangeDistinct
<1>4. CASE LinkChange(graph, graph') BY <1>0, <1>4, LinkChangeDistinct
<1>5. CASE HistoryChange(graph, graph') BY <1>0, <1>5, HistoryKeeps
<1> QED BY <1>0, <1>1, <1>2, <1>3, <1>4, <1>5 DEF Change

\* Between the same two ends, the user and the accepted suggestions have at most
\* one active link each, although a merge can fold any number of links onto the
\* same ends (work_merge_service.ts, retractDuplicateActiveLinks).
THEOREM LinksStayDistinct == Spec => []ActiveLinksAreDistinct
<1>1. Init => Distinct(graph.link) BY InitParts DEF Distinct
<1>2. TypeOK /\ Distinct(graph.link) /\ [Next]_vars => Distinct(graph.link)'
  BY StepDistinct
<1>3. Distinct(graph.link) => ActiveLinksAreDistinct BY DEF Distinct, ActiveLinksAreDistinct
<1> QED BY <1>1, <1>2, <1>3, TypeCorrect, PTL DEF Spec

-----------------------------------------------------------------------------
\* What the operations on works change.

LEMMA applyWorkTrashEffect ==
  ASSUME NEW g \in Graphs, NEW W \in SUBSET WorkIds, NEW h, h = applyWorkTrash(g, W)
  PROVE  /\ h.occ = g.occ /\ h.branch = g.branch /\ h.copy = g.copy
         /\ DOMAIN h.work = DOMAIN g.work
         /\ \A w \in DOMAIN h.work :
              /\ h.work[w].deleted <=> w \in W \/ g.work[w].deleted
              /\ h.work[w].stub = g.work[w].stub
<1>1. /\ h.work = [w \in DOMAIN g.work |->
                     IF w \in W THEN [g.work[w] EXCEPT !.deleted = TRUE] ELSE g.work[w]]
      /\ h.occ = g.occ /\ h.branch = g.branch /\ h.copy = g.copy
  BY DEF applyWorkTrash, Graphs
<1>2. \A w \in DOMAIN g.work :
        /\ [g.work[w] EXCEPT !.deleted = TRUE].deleted = TRUE
        /\ [g.work[w] EXCEPT !.deleted = TRUE].stub = g.work[w].stub
        /\ g.work[w].deleted \in BOOLEAN
  BY GraphRecords DEF WorkRecs
<1> QED BY <1>1, <1>2

LEMMA resolveWorkStubEffect ==
  ASSUME NEW g \in Graphs, NEW w \in WorkIds, NEW h, h = resolveWorkStub(g, w)
  PROVE  /\ h.occ = g.occ /\ DOMAIN h.work = DOMAIN g.work
         /\ \A x \in DOMAIN h.work : h.work[x].deleted = g.work[x].deleted
<1>1. h.work = [g.work EXCEPT ![w].stub = FALSE] /\ h.occ = g.occ
  BY DEF resolveWorkStub, Graphs
<1>2. \A x \in DOMAIN g.work : [g.work[x] EXCEPT !.stub = FALSE].deleted = g.work[x].deleted
  BY GraphRecords DEF WorkRecs
<1> QED BY <1>1, <1>2, GraphTables

LEMMA applyWorkRestoreEffect ==
  ASSUME NEW g \in Graphs, NEW w \in WorkIds, NEW h, h = applyWorkRestore(g, w)
  PROVE  /\ DOMAIN h.work = DOMAIN g.work
         /\ \A x \in DOMAIN h.work :
              h.work[x].deleted <=> x # w /\ g.work[x].deleted
         /\ DOMAIN h.occ = DOMAIN g.occ
         /\ \A o \in DOMAIN h.occ :
              /\ h.occ[o].work = g.occ[o].work
              /\ IF g.occ[o].work = w
                   THEN h.occ[o].parent \in DOMAIN h.occ \cup {None}
                   ELSE h.occ[o].parent = g.occ[o].parent
<1> DEFINE k == [g EXCEPT !.work[w].deleted = FALSE]
<1>1. k \in Graphs BY RestoredType
<1>2. k.work = [g.work EXCEPT ![w].deleted = FALSE] /\ k.occ = g.occ BY DEF Graphs
<1>3. \A x \in DOMAIN g.work :
        /\ [g.work[x] EXCEPT !.deleted = FALSE].deleted = FALSE
        /\ g.work[x].deleted \in BOOLEAN
  BY GraphRecords DEF WorkRecs
<1>4. /\ DOMAIN k.work = DOMAIN g.work
      /\ \A x \in DOMAIN k.work : (k.work[x].deleted <=> x # w /\ g.work[x].deleted)
  BY <1>2, <1>3, GraphTables
<1>5. h = cleanupOrphanOccurrences(k, Owned(g.occ, w)) BY <1>2 DEF applyWorkRestore
<1> HIDE DEF k
<1> DEFINE f == [o \in DOMAIN g.occ |->
                   IF o \in Owned(g.occ, w) /\ g.occ[o].parent # None /\ g.occ[o].parent \notin DOMAIN g.occ
                     THEN [g.occ[o] EXCEPT !.parent = None] ELSE g.occ[o]]
<1>6. h.work = k.work /\ h.occ = f
  BY <1>1, <1>2, <1>5 DEF cleanupOrphanOccurrences, Graphs
<1>7. \A o \in DOMAIN g.occ :
        /\ [g.occ[o] EXCEPT !.parent = None].work = g.occ[o].work
        /\ [g.occ[o] EXCEPT !.parent = None].parent = None
  BY GraphRecords DEF OccRecs
<1>8. DOMAIN f = DOMAIN g.occ OBVIOUS
<1>9. \A o \in DOMAIN f :
        /\ f[o].work = g.occ[o].work
        /\ IF g.occ[o].work = w
             THEN f[o].parent \in DOMAIN g.occ \cup {None}
             ELSE f[o].parent = g.occ[o].parent
  BY <1>7 DEF Owned
<1> HIDE DEF f
<1> QED BY <1>4, <1>6, <1>8, <1>9

\* The three ways in which the set of works changes.
LEMMA WorkChangeKinds ==
  ASSUME NEW g \in Graphs, NEW h, WorkChange(g, h)
  PROVE  \/ \E w \in WorkIds \ DOMAIN g.work, b \in BranchIds \ DOMAIN g.branch :
              AddsWork(g, h, w, b)
         \/ \E w \in WorkIds : g.work[w].deleted /\ w \in DOMAIN g.work /\ h = applyWorkPurge(g, w)
         \/ \E s, t \in WorkIds, first \in [DOMAIN g.link -> DOMAIN g.link] :
              /\ s \in Active(g) /\ t \in Active(g) /\ s # t
              /\ h = applyMergeWorks(g, s, t, first)
<1>1. DOMAIN g.work \subseteq WorkIds /\ Active(g) \subseteq WorkIds
  BY GraphTables DEF Active
<1> QED BY <1>1, createUnplacedWorkAdds, createWorkBundleAdds DEF WorkChange

=============================================================================
