--------------------------------- MODULE Tags ---------------------------------
(***************************************************************************)
(* TagService: canonical names of tags through aliases that only ever      *)
(* accumulate.  A call reads the aliases, awaits the tags that are in use, *)
(* checks its sources against them and then stores one alias for all.      *)
(* Calls may overlap; the service does nothing about it.                   *)
(***************************************************************************)
EXTENDS Naturals, FiniteSets

CONSTANTS
  Tags,      \* normalized names
  Callers, None,
  MaxTime,   \* bound on the clock, which may stand still or be set back
  MaxCalls   \* bound on the calls

VARIABLES
  aliases,  \* the tag aliases of the store
  used,     \* the tags that the texts in view contain, as they are written
  call,     \* by caller: the rename or merge under way
  calls,    \* how many calls there have been
  misled    \* two calls have overlapped, or the clock has misled the order of two aliases

vars == <<aliases, used, call, calls, misled>>

Alias == [canonical : Tags, variants : SUBSET Tags, at : Nat]

Init ==
  /\ aliases = {} /\ used \in SUBSET Tags /\ calls = 0 /\ misled = FALSE
  /\ call = [c \in Callers |-> None]

-----------------------------------------------------------------------------
Names(a) == a.variants \cup {a.canonical}

\* matchingAliases
Matching(t, A) == {a \in A : t \in Names(a)}

\* The order of resolveCanonical: a goes before b, by their sizes, then by their times.
Before(a, b) ==
  LET m == Cardinality(a.variants)
      n == Cardinality(b.variants)
  IN  m > n \/ (m = n /\ a.at > b.at)

\* Where these are equal the random ids decide, which here is any choice.
First(t, A) == CHOOSE a \in Matching(t, A) : \A b \in Matching(t, A) : ~Before(b, a)

resolveCanonical(t, A) == IF Matching(t, A) = {} THEN t ELSE First(t, A).canonical

\* listTags: the names of the tags that are in use.
listTags == {resolveCanonical(t, aliases) : t \in used}

\* Faulty: the target's own aliases are forgotten.
CollectedFromSources(sources, target, A) ==
  sources \cup UNION {Names(a) : a \in UNION {Matching(t, A) : t \in sources}}

\* The names that come along: those of every alias that a source or the target is in.
Collected(sources, target, A) ==
  sources \cup UNION {Names(a) : a \in UNION {Matching(t, A) : t \in sources \cup {target}}}

-----------------------------------------------------------------------------
\* The user edits, archives or trashes: other tags are in use.
Write(t) ==
  /\ used' = IF t \in used THEN used \ {t} ELSE used \cup {t}
  /\ UNCHANGED <<aliases, call, calls, misled>>

\* canonicalize, to its first await
Begin(c, sources, target) ==
  /\ call[c] = None /\ calls < MaxCalls /\ calls' = calls + 1
  /\ sources \ {target} # {}
  /\ call' = [call EXCEPT ![c] = [sources |-> sources \ {target}, target |-> target,
                                  aliases |-> aliases, checked |-> FALSE]]
  /\ misled' = (misled \/ \E d \in Callers : call[d] # None)
  /\ UNCHANGED <<aliases, used>>

Ends(c) == call' = [call EXCEPT ![c] = None]

\* A source that no text has under the name it resolves to is refused.
Check(c) ==
  /\ call[c] # None /\ ~call[c].checked
  /\ IF \A s \in call[c].sources : resolveCanonical(s, call[c].aliases) \in listTags
     THEN call' = [call EXCEPT ![c].checked = TRUE]
     ELSE Ends(c)
  /\ UNCHANGED <<aliases, used, calls, misled>>

NewAlias(k, at) ==
  [canonical |-> k.target, at |-> at,
   variants |-> Collected(k.sources, k.target, k.aliases) \ {k.target}]

\* The clock, not the size, decides between the new alias and one that it takes in, and
\* decides wrongly.
Misordered(new) ==
  \E a \in aliases :
    /\ Names(a) \subseteq Names(new) /\ Cardinality(a.variants) = Cardinality(new.variants)
    /\ a.at >= new.at

\* upsertAlias under a fresh id
Store(c, at) ==
  LET new == NewAlias(call[c], at) IN
  /\ call[c] # None /\ call[c].checked
  /\ aliases' = aliases \cup {new}
  /\ misled' = (misled \/ Misordered(new))
  /\ Ends(c) /\ UNCHANGED <<used, calls>>

\* A read or the write fails.
Fail(c) == call[c] # None /\ Ends(c) /\ UNCHANGED <<aliases, used, calls, misled>>

Next ==
  \/ \E t \in Tags : Write(t)
  \/ \E c \in Callers :
       \/ \E sources \in SUBSET Tags, target \in Tags : Begin(c, sources, target)
       \/ Check(c) \/ Fail(c)
       \/ \E at \in 0..MaxTime : Store(c, at)

Spec == Init /\ [][Next]_vars

-----------------------------------------------------------------------------
Promise ==
  INSTANCE TagNames WITH canonical <- [t \in Tags |-> resolveCanonical(t, aliases)]

\* While no two calls overlap and the clock does not mislead, storing an alias gives every
\* tag the canonical name that the rename or the merge has promised it, after all those
\* before: what was joined stays joined, and nothing else moves.
PromiseKept ==
  \/ aliases' = aliases \/ misled'
  \/ \E c \in Callers :
       call[c] # None /\ Promise!Canonicalize(call[c].sources, call[c].target)

KeepsPromise == [][PromiseKept]_vars
=============================================================================
