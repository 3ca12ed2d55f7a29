---------------------------- MODULE MCGraphStore ----------------------------
(***************************************************************************)
(* Small instances of GraphStore for TLC.  The runs differ in which id     *)
(* pools are not empty; an empty pool switches a part of the graph off.    *)
(***************************************************************************)
EXTENDS GraphStore, Naturals, TLC

Symmetry ==
  Permutations(WorkIds) \cup Permutations(BranchIds) \cup Permutations(OccIds)
    \cup Permutations(RevIds) \cup Permutations(LinkIds)
    \cup Permutations(SnapIds)

\* Nothing cites an occurrence: neither a bookmark, nor the resume position,
\* nor a suggestion.
Uncited == graph.mark = <<>> /\ graph.resume = None /\ graph.sugg = <<>>

\* No work is a stub.
NoStubs == \A w \in DOMAIN graph.work : ~graph.work[w].stub

\* No draft is blank, so that no cleanup trashes a work.
NoBlanks == \A b \in DOMAIN graph.copy : ~graph.copy[b].blank

\* At most four revisions and snapshots of one work, or three of two.
ShortHistory ==
  Cardinality(DOMAIN graph.rev) + Cardinality(DOMAIN graph.snap)
    + Cardinality(DOMAIN graph.work) <= 5

\* Either three placements of works with text, which nothing cites; or two of works
\* that may be blank; and either stubs or what a bookmark, the resume position, a
\* link and a suggestion may cite.
OutlineOrCited ==
  \/ Uncited /\ graph.link = <<>> /\ NoStubs /\ NoBlanks
  \/ Cardinality(graph.issued) <= 2 /\ Uncited /\ graph.link = <<>>
  \/ Cardinality(graph.issued) <= 2 /\ NoStubs /\ Cardinality(DOMAIN graph.sugg) <= 1
=============================================================================
