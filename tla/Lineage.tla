------------------------------- MODULE Lineage -------------------------------
(***************************************************************************)
(* The generations of the family tree: LineageCycles finds the works that  *)
(* lie on a cycle of links (Tarjan's algorithm, with a stack of frames in  *)
(* place of recursion), and acyclicGenerations numbers the others along    *)
(* the links.  One step is one turn of a loop.  Only links of the types    *)
(* that advance a generation, between works that are shown, are in         *)
(* children; works are numbers, in the order of their ids.                 *)
(***************************************************************************)
EXTENDS Naturals, Sequences, SequencesExt, FiniteSets, FiniteSetsExt

CONSTANTS
  WorkIds,       \* a set of numbers
  MaxLinks       \* a bound on the links

VARIABLES
  children,
  frames,        \* the works being visited, with the children still to look at
  index,         \* indexById
  lowLink,       \* lowLinkById
  waiting,       \* stack: the works whose component is not complete
  cyclic,
  indegree, ready, generations,
  pc

search == <<frames, index, lowLink, waiting, cyclic>>
numbering == <<indegree, ready, generations>>
vars == <<children, search, numbering, pc>>

LinkSets == UNION {kSubset(k, WorkIds \X WorkIds) : k \in 0..MaxLinks}

\* generationGraph
Init ==
  /\ \E links \in LinkSets :
       children = [w \in WorkIds |-> {x \in WorkIds : <<w, x>> \in links}]
  /\ frames = <<>> /\ index = <<>> /\ lowLink = <<>> /\ waiting = <<>> /\ cyclic = {}
  /\ indegree = <<>> /\ ready = {} /\ generations = <<>>
  /\ pc = "cycles"

-----------------------------------------------------------------------------
(* The works on a cycle.                                                   *)

With(f, w, x) == [y \in DOMAIN f \cup {w} |-> IF y = w THEN x ELSE f[y]]

\* enter: w is numbered, and F are the frames below its own.
Enter(w, F) ==
  LET number == Cardinality(DOMAIN index) IN
  /\ index' = With(index, w, number) /\ lowLink' = With(lowLink, w, number)
  /\ waiting' = Append(waiting, w)
  /\ frames' = Append(F, [id |-> w, children |-> children[w]])
  /\ UNCHANGED cyclic

\* The next work that no search has reached.
Visit ==
  /\ pc = "cycles" /\ frames = <<>> /\ WorkIds # DOMAIN index
  /\ Enter(Min(WorkIds \ DOMAIN index), <<>>)
  /\ UNCHANGED <<children, numbering, pc>>

\* Faulty: components that are complete count as well.
everIndexed(w) == w \in DOMAIN index

onStack(w) == w \in ToSet(waiting)

\* One child of the work on top.
Look ==
  LET frame == Last(frames)
      next == Min(frame.children)
      rest == Append(Front(frames), [frame EXCEPT !.children = @ \ {next}])
  IN  /\ frames # <<>> /\ frame.children # {}
      /\ IF next \notin DOMAIN index THEN Enter(next, rest)
         ELSE /\ frames' = rest
              /\ lowLink' = IF onStack(next)
                              THEN [lowLink EXCEPT ![frame.id] = Min({@, index[next]})]
                              ELSE lowLink
              /\ UNCHANGED <<index, waiting, cyclic>>
      /\ UNCHANGED <<children, numbering, pc>>

\* Faulty: a link from a work to itself is overlooked.
severalWorks(w, component) == IF Len(component) > 1 THEN ToSet(component) ELSE {}

\* The works of a complete component that are cyclic.
cyclesOf(w, component) ==
  IF Len(component) > 1 \/ w \in children[w] THEN ToSet(component) ELSE {}

\* leave, and finishComponent.
Leave ==
  LET w == Last(frames).id
      from == CHOOSE i \in DOMAIN waiting : waiting[i] = w
      complete == lowLink[w] = index[w]
      above == Front(frames)
  IN  /\ frames # <<>> /\ Last(frames).children = {}
      /\ frames' = above
      /\ IF complete
           THEN /\ waiting' = SubSeq(waiting, 1, from - 1)
                /\ cyclic' = cyclic \cup cyclesOf(w, SubSeq(waiting, from, Len(waiting)))
           ELSE UNCHANGED <<waiting, cyclic>>
      /\ lowLink' = IF above = <<>> THEN lowLink
                    ELSE [lowLink EXCEPT ![Last(above).id] = Min({@, lowLink[w]})]
      /\ UNCHANGED <<children, index, numbering, pc>>

-----------------------------------------------------------------------------
(* The generations of the others.                                          *)

parents(w) == {x \in WorkIds : w \in children[x]}

\* Faulty: parents on a cycle are waited for.
allParents(w) == Cardinality(parents(w))

\* The parents that will be numbered.
degree(w) == Cardinality(parents(w) \ cyclic)

\* The beginning of acyclicGenerations.
Number ==
  /\ pc = "cycles" /\ frames = <<>> /\ WorkIds = DOMAIN index
  /\ indegree' = [w \in WorkIds \ cyclic |-> degree(w)]
  /\ generations' = [w \in WorkIds \ cyclic |-> 0]
  /\ ready' = {w \in WorkIds \ cyclic : indegree'[w] = 0}
  /\ pc' = "generations"
  /\ UNCHANGED <<children, search>>

\* Faulty: the last parent decides.
afterLast(w, parent) == generations[parent] + 1

afterLatest(w, parent) == Max({generations[w], generations[parent] + 1})

\* advanceChildren, of any work that is ready: the order of the links decides which.
Advance == \E parent \in ready :
  LET next == children[parent] \ cyclic IN
  /\ generations' = [w \in DOMAIN generations |->
                       IF w \in next THEN afterLatest(w, parent) ELSE generations[w]]
  /\ indegree' = [w \in DOMAIN indegree |-> IF w \in next THEN indegree[w] - 1 ELSE indegree[w]]
  /\ ready' = (ready \ {parent}) \cup {w \in next : indegree'[w] = 0}
  /\ UNCHANGED <<children, search, pc>>

Finish ==
  /\ pc = "generations" /\ ready = {} /\ pc' = "projected"
  /\ UNCHANGED <<children, search, numbering>>

maxGeneration == Max({0} \cup {generations[w] : w \in DOMAIN generations})

\* Where a work is drawn: those on a cycle behind all others.
generationOf(w) == IF w \in cyclic THEN maxGeneration + 1 ELSE generations[w]

Next == Visit \/ Look \/ Leave \/ Number \/ Advance \/ Finish

Spec == Init /\ [][Next]_vars

-----------------------------------------------------------------------------
\* The works at the end of a path of n links that starts in W and stays in S.
After(W, S, n) ==
  LET reached[k \in 0..n] == IF k = 0 THEN W ELSE S \cap UNION {children[w] : w \in reached[k - 1]}
  IN  reached[n]

Size == Cardinality(WorkIds)

\* A work is drawn in the knot exactly if links lead from it back to itself, and
\* not if it only hangs below a cycle; every other work is as many generations
\* down as the longest path of works outside the knot that ends in it has links.
LineageIsRight ==
  pc = "projected" =>
    /\ cyclic = {w \in WorkIds : \E n \in 1..Size : w \in After({w}, WorkIds, n)}
    /\ \A w \in WorkIds \ cyclic :
         generationOf(w) =
           Max({n \in 0..Size : w \in After(WorkIds \ cyclic, WorkIds \ cyclic, n)})
    /\ \A w \in cyclic, x \in WorkIds \ cyclic : generationOf(w) > generationOf(x)
=============================================================================
