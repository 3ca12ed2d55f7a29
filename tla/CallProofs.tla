------------------------------ MODULE CallProofs ------------------------------
(***************************************************************************)
(* Two services whose calls read, wait and write what they computed from   *)
(* what they had read, proved for all constants:                           *)
(*                                                                         *)
(* - TagService.  The aliases keep what renames and merges promise.  The   *)
(*   reason: the alias that a call stores takes in, whole, the first alias *)
(*   of every tag that it names, and comes before it.  So for every tag    *)
(*   one alias comes before all others that have the tag, and has their    *)
(*   names as well.                                                        *)
(* - OccurrenceOperations.  Placements are as they were asked to be, in    *)
(*   the order that was asked for.  What a call has read is still so, but  *)
(*   for the placements written since, which it knows as stale.  A batch   *)
(*   is alone while it writes.  The children of a deleted item take its    *)
(*   place one after the other: those that have moved are in order, and    *)
(*   between the last of them and what follows there is still a gap that   *)
(*   was halved once for each.                                             *)
(***************************************************************************)
EXTENDS MCServices, FiniteSetTheorems, TLAPS

-----------------------------------------------------------------------------
(* Tags.                                                                   *)

\* There are finitely many tags, and clocks give numbers.
Bounds == IsFiniteSet(Tags) /\ MaxTime \in Nat

Call == [sources : SUBSET Tags, target : Tags, aliases : SUBSET Alias, checked : BOOLEAN]

\* Aliases as calls store them.
Stored == {a \in Alias : a.canonical \notin a.variants}

Heads(a, t, A) ==
  \A b \in Matching(t, A) \ {a} : Before(a, b) /\ Names(b) \subseteq Names(a)

Headed(A) ==
  \A t \in Tags : Matching(t, A) # {} => \E a \in Matching(t, A) : Heads(a, t, A)

TagsTypeOK ==
  /\ aliases \subseteq Stored
  /\ call \in [Callers -> Call \cup {None}]
  /\ misled \in BOOLEAN

\* A call that nothing has overlapped still has the present aliases.
OneAtATime ==
  ~misled => \A c \in Callers : call[c] # None =>
    /\ call[c].aliases = aliases
    /\ \A d \in Callers : call[d] # None => d = c

EveryTagHasAHead == ~misled => Headed(aliases)

TagsInv == TagsTypeOK /\ OneAtATime /\ EveryTagHasAHead

-----------------------------------------------------------------------------
(* The order of aliases.                                                   *)

LEMMA Sizes ==
  ASSUME Bounds, NEW a \in Stored
  PROVE  /\ Names(a) \subseteq Tags /\ a.at \in Nat /\ a.canonical \in Names(a)
         /\ Cardinality(a.variants) \in Nat
         /\ IsFiniteSet(Names(a)) /\ Cardinality(Names(a)) = Cardinality(a.variants) + 1
<1>1. /\ a.variants \subseteq Tags /\ a.canonical \in Tags /\ a.at \in Nat
      /\ a.canonical \notin a.variants
  BY DEF Stored, Alias
<1>2. IsFiniteSet(a.variants) BY <1>1, FS_Subset DEF Bounds
<1>3. Cardinality(a.variants) \in Nat BY <1>2, FS_CardinalityType
<1>4. /\ IsFiniteSet(a.variants \cup {a.canonical})
      /\ Cardinality(a.variants \cup {a.canonical}) = Cardinality(a.variants) + 1
  BY <1>1, <1>2, FS_AddElement
<1> QED BY <1>1, <1>3, <1>4 DEF Names

LEMMA BeforeIsStrict ==
  ASSUME Bounds, NEW a \in Stored, NEW b \in Stored, Before(a, b)
  PROVE  ~Before(b, a) /\ a # b
<1>1. /\ Cardinality(a.variants) \in Nat /\ Cardinality(b.variants) \in Nat
      /\ a.at \in Nat /\ b.at \in Nat
  BY Sizes
<1> QED BY <1>1 DEF Before

\* An alias with all the names of another one comes before it unless both are of the
\* same size and the other is not older.
LEMMA LargerIsBefore ==
  ASSUME Bounds, NEW a \in Stored, NEW b \in Stored, Names(b) \subseteq Names(a),
         Cardinality(b.variants) = Cardinality(a.variants) => b.at < a.at
  PROVE  Before(a, b)
<1>1. Cardinality(Names(b)) <= Cardinality(Names(a)) BY Sizes, FS_Subset
<1>2. /\ Cardinality(a.variants) \in Nat /\ Cardinality(b.variants) \in Nat
      /\ Cardinality(Names(a)) = Cardinality(a.variants) + 1
      /\ Cardinality(Names(b)) = Cardinality(b.variants) + 1
      /\ a.at \in Nat /\ b.at \in Nat
  BY Sizes
<1> QED BY <1>1, <1>2 DEF Before

\* The head of a tag is what resolveCanonical finds.
LEMMA HeadIsFirst ==
  ASSUME Bounds, NEW A \in SUBSET Stored, NEW t, NEW a \in Matching(t, A), Heads(a, t, A)
  PROVE  First(t, A) = a
<1>1. Matching(t, A) \subseteq Stored BY DEF Matching
<1>2. \A b \in Matching(t, A) : ~Before(b, a)
  <2> SUFFICES ASSUME NEW b \in Matching(t, A), Before(b, a) PROVE FALSE OBVIOUS
  <2>1. b # a BY <1>1, BeforeIsStrict
  <2>2. Before(a, b) BY <2>1 DEF Heads
  <2> QED BY <2>2, <1>1, BeforeIsStrict
<1>3. ASSUME NEW x \in Matching(t, A), \A b \in Matching(t, A) : ~Before(b, x)
      PROVE  x = a
  BY <1>3 DEF Heads
<1> QED BY <1>2, <1>3 DEF First

\* Two tags with an alias in common have the same head, and it has the names of that
\* alias.
LEMMA CommonHead ==
  ASSUME Bounds, NEW A \in SUBSET Stored, Headed(A),
         NEW s \in Tags, NEW t \in Tags, NEW b \in A, s \in Names(b), t \in Names(b)
  PROVE  /\ First(s, A) \in A /\ First(s, A) = First(t, A)
         /\ Names(b) \subseteq Names(First(s, A)) /\ Heads(First(s, A), s, A)
<1>1. b \in Matching(s, A) /\ b \in Matching(t, A) BY DEF Matching
<1>2. PICK f \in Matching(s, A) : Heads(f, s, A) BY <1>1 DEF Headed
<1>3. PICK g \in Matching(t, A) : Heads(g, t, A) BY <1>1 DEF Headed
<1>4. Names(b) \subseteq Names(f) /\ Names(b) \subseteq Names(g)
  BY <1>1, <1>2, <1>3 DEF Heads
<1>5. f \in Matching(t, A) /\ g \in Matching(s, A)
  BY <1>2, <1>3, <1>4 DEF Matching
<1>6. f = g
  <2> SUFFICES ASSUME f # g PROVE FALSE OBVIOUS
  <2>1. Before(f, g) /\ Before(g, f) BY <1>2, <1>3, <1>5 DEF Heads
  <2>2. f \in Stored /\ g \in Stored BY <1>2, <1>3 DEF Matching
  <2> QED BY <2>1, <2>2, BeforeIsStrict
<1>7. First(s, A) = f /\ First(t, A) = g BY <1>2, <1>3, HeadIsFirst
<1> QED BY <1>2, <1>4, <1>6, <1>7 DEF Matching

\* Tags with the same canonical name have a common alias, unless they are the same tag.
LEMMA CommonName ==
  ASSUME Bounds, NEW A \in SUBSET Stored, Headed(A), NEW s \in Tags, NEW t \in Tags,
         resolveCanonical(s, A) = resolveCanonical(t, A), s # t
  PROVE  \E b \in A : s \in Names(b) /\ t \in Names(b)
<1> DEFINE Known(x) == Matching(x, A) # {}
<1>1. ASSUME NEW x \in Tags, Known(x)
      PROVE  /\ First(x, A) \in A /\ x \in Names(First(x, A))
             /\ resolveCanonical(x, A) = First(x, A).canonical
             /\ First(x, A).canonical \in Names(First(x, A))
             /\ First(x, A).canonical \in Tags
  <2>1. PICK a \in Matching(x, A) : Heads(a, x, A) BY <1>1 DEF Headed
  <2>2. First(x, A) = a BY <2>1, HeadIsFirst
  <2>3. a \in Stored BY <2>1 DEF Matching
  <2>4. a.canonical \in Names(a) /\ Names(a) \subseteq Tags BY <2>3, Sizes
  <2> QED BY <2>1, <2>2, <2>4, <1>1 DEF Matching, resolveCanonical
<1>2. CASE Known(s) /\ Known(t)
  <2> DEFINE k == resolveCanonical(s, A)
  <2>1. /\ First(s, A) \in A /\ s \in Names(First(s, A)) /\ k \in Names(First(s, A))
        /\ First(t, A) \in A /\ t \in Names(First(t, A)) /\ k \in Names(First(t, A))
        /\ k \in Tags
    BY <1>1, <1>2
  <2>2. First(s, A) = First(k, A) BY <2>1, CommonHead
  <2>3. First(t, A) = First(k, A) BY <2>1, CommonHead
  <2> QED BY <2>1, <2>2, <2>3
<1>3. CASE Known(s) /\ ~Known(t)
  <2>1. resolveCanonical(t, A) = t BY <1>3 DEF resolveCanonical
  <2> QED BY <1>1, <1>3, <2>1
<1>4. CASE ~Known(s) /\ Known(t)
  <2>1. resolveCanonical(s, A) = s BY <1>4 DEF resolveCanonical
  <2> QED BY <1>1, <1>4, <2>1
<1>5. CASE ~Known(s) /\ ~Known(t)
  BY <1>5 DEF resolveCanonical
<1> QED BY <1>2, <1>3, <1>4, <1>5

-----------------------------------------------------------------------------
(* Storing an alias.                                                       *)

\* What a call knows when it stores: nothing has come in between.
LEMMA StoredAlias ==
  ASSUME Bounds, NEW A \in SUBSET Stored, NEW k \in Call, k.aliases = A, NEW at \in 0..MaxTime
  PROVE  /\ NewAlias(k, at) \in Stored /\ NewAlias(k, at).canonical = k.target
         /\ NewAlias(k, at).at = at
         /\ Names(NewAlias(k, at)) =
              k.sources \cup {k.target} \cup
                UNION {Names(a) : a \in UNION {Matching(t, A) : t \in k.sources \cup {k.target}}}
<1> DEFINE new == NewAlias(k, at)
           C == Collected(k.sources, k.target, A)
<1>1. k.sources \subseteq Tags /\ k.target \in Tags BY DEF Call
<1>2. C \subseteq Tags
  <2>1. \A a \in A : Names(a) \subseteq Tags BY Sizes
  <2> QED BY <1>1, <2>1 DEF Collected, Matching
<1>3. /\ new.canonical = k.target /\ new.at = at /\ new.variants = C \ {k.target}
      /\ new = [canonical |-> k.target, at |-> at, variants |-> C \ {k.target}]
  BY DEF NewAlias
<1>4. new \in Stored BY <1>1, <1>2, <1>3 DEF Stored, Alias, Bounds
<1>5. Names(new) = C \cup {k.target} BY <1>3 DEF Names
<1> QED BY <1>3, <1>4, <1>5 DEF Collected

\* The new alias comes before every alias that has one of its names, and has the names
\* of that alias.
LEMMA NewIsHead ==
  ASSUME Bounds, NEW A \in SUBSET Stored, Headed(A),
         NEW k \in Call, k.aliases = A, NEW at \in 0..MaxTime,
         \A a \in A : /\ Names(a) \subseteq Names(NewAlias(k, at))
                      /\ Cardinality(a.variants) = Cardinality(NewAlias(k, at).variants)
                      => a.at < at,
         NEW t \in Names(NewAlias(k, at))
  PROVE  Heads(NewAlias(k, at), t, A \cup {NewAlias(k, at)})
<1> DEFINE new == NewAlias(k, at)
           Asked == k.sources \cup {k.target}
<1>1. /\ new \in Stored /\ new.at = at
      /\ Names(new) = Asked \cup UNION {Names(a) : a \in UNION {Matching(s, A) : s \in Asked}}
  BY StoredAlias
<1>2. Asked \subseteq Tags BY DEF Call
<1>3. ASSUME NEW b \in A, t \in Names(b)
      PROVE  Names(b) \subseteq Names(new)
  <2>1. CASE t \in Asked
    <3>1. b \in Matching(t, A) BY <1>3 DEF Matching
    <3> QED BY <1>1, <2>1, <3>1
  <2>2. CASE t \notin Asked
    <3>1. PICK s \in Asked : \E a \in Matching(s, A) : t \in Names(a) BY <1>1, <2>2
    <3>2. PICK a \in Matching(s, A) : t \in Names(a) BY <3>1
    <3>3. a \in A /\ s \in Names(a) /\ s \in Tags BY <1>2, <3>2 DEF Matching
    <3>4. t \in Tags BY <3>3, <3>2, Sizes
    <3>5. First(s, A) \in A /\ First(s, A) = First(t, A) /\ Names(a) \subseteq Names(First(s, A))
      BY <3>2, <3>3, <3>4, CommonHead
    <3>6. Names(b) \subseteq Names(First(t, A)) BY <1>3, <3>4, CommonHead
    <3>7. First(s, A) \in Matching(s, A) BY <3>3, <3>5 DEF Matching
    <3>8. Names(First(s, A)) \subseteq Names(new) BY <1>1, <3>7
    <3> QED BY <3>5, <3>6, <3>8
  <2> QED BY <2>1, <2>2
<1>4. ASSUME NEW b \in Matching(t, A \cup {new}) \ {new}
      PROVE  Before(new, b) /\ Names(b) \subseteq Names(new)
  <2>1. b \in A /\ t \in Names(b) /\ b \in Stored BY <1>4 DEF Matching
  <2>2. Names(b) \subseteq Names(new) BY <2>1, <1>3
  <2>3. Cardinality(b.variants) = Cardinality(new.variants) => b.at < new.at
    BY <1>1, <2>1, <2>2
  <2>4. Before(new, b) BY <1>1, <2>1, <2>2, <2>3, LargerIsBefore
  <2> QED BY <2>2, <2>4
<1> QED BY <1>4 DEF Heads

LEMMA StoreKeepsPromise ==
  ASSUME Bounds, NEW A \in SUBSET Stored, Headed(A),
         NEW k \in Call, k.aliases = A, NEW at \in 0..MaxTime,
         \A a \in A : /\ Names(a) \subseteq Names(NewAlias(k, at))
                      /\ Cardinality(a.variants) = Cardinality(NewAlias(k, at).variants)
                      => a.at < at
  PROVE  /\ Headed(A \cup {NewAlias(k, at)})
         /\ \A t \in Tags :
              resolveCanonical(t, A \cup {NewAlias(k, at)}) =
                IF \E s \in k.sources \cup {k.target} :
                     resolveCanonical(t, A) = resolveCanonical(s, A)
                THEN k.target ELSE resolveCanonical(t, A)
<1> DEFINE new == NewAlias(k, at)
           B == A \cup {new}
           Asked == k.sources \cup {k.target}
<1>1. /\ new \in Stored /\ new.canonical = k.target
      /\ Names(new) = Asked \cup UNION {Names(a) : a \in UNION {Matching(s, A) : s \in Asked}}
  BY StoredAlias
<1>2. Asked \subseteq Tags BY DEF Call
<1>3. B \in SUBSET Stored BY <1>1
<1>4. ASSUME NEW t \in Names(new)
      PROVE  /\ new \in Matching(t, B) /\ Heads(new, t, B)
             /\ resolveCanonical(t, B) = k.target
  <2>1. new \in Matching(t, B) BY <1>4 DEF Matching
  <2>2. Heads(new, t, B) BY NewIsHead
  <2>3. First(t, B) = new BY <1>3, <2>1, <2>2, HeadIsFirst
  <2> QED BY <1>1, <2>1, <2>2, <2>3 DEF resolveCanonical
<1>5. ASSUME NEW t, t \notin Names(new)
      PROVE  /\ Matching(t, B) = Matching(t, A)
             /\ resolveCanonical(t, B) = resolveCanonical(t, A)
  <2>1. Matching(t, B) = Matching(t, A) BY <1>5 DEF Matching
  <2>2. First(t, B) = First(t, A) BY <2>1 DEF First
  <2> QED BY <2>1, <2>2 DEF resolveCanonical
<1>6. Headed(B)
  <2> SUFFICES ASSUME NEW t \in Tags, Matching(t, B) # {}
               PROVE  \E a \in Matching(t, B) : Heads(a, t, B)
    BY DEF Headed
  <2>1. CASE t \in Names(new) BY <1>4, <2>1
  <2>2. CASE t \notin Names(new) BY <1>5, <2>2 DEF Headed, Heads
  <2> QED BY <2>1, <2>2
\* The names of the new alias are the tags that were asked for, and those that had
\* their canonical names.
<1>7. ASSUME NEW t \in Names(new), t \in Tags
      PROVE  \E s \in Asked : resolveCanonical(t, A) = resolveCanonical(s, A)
  <2>1. CASE t \in Asked BY <2>1
  <2>2. CASE t \notin Asked
    <3>1. PICK s \in Asked : \E a \in Matching(s, A) : t \in Names(a) BY <1>1, <2>2
    <3>2. PICK a \in Matching(s, A) : t \in Names(a) BY <3>1
    <3>3. a \in A /\ s \in Names(a) /\ s \in Tags BY <1>2, <3>2 DEF Matching
    <3>4. First(s, A) = First(t, A) BY <1>7, <3>2, <3>3, CommonHead
    <3>5. a \in Matching(t, A) BY <3>2, <3>3 DEF Matching
    <3> QED BY <3>2, <3>4, <3>5 DEF resolveCanonical
  <2> QED BY <2>1, <2>2
<1>8. ASSUME NEW t \in Tags, NEW s \in Asked, resolveCanonical(t, A) = resolveCanonical(s, A)
      PROVE  t \in Names(new)
  <2>1. CASE t = s BY <1>1, <2>1
  <2>2. CASE t # s
    <3>1. PICK b \in A : t \in Names(b) /\ s \in Names(b) BY <1>2, <1>8, <2>2, CommonName
    <3>2. b \in Matching(s, A) BY <3>1 DEF Matching
    <3> QED BY <1>1, <3>1, <3>2
  <2> QED BY <2>1, <2>2
<1> QED BY <1>4, <1>5, <1>6, <1>7, <1>8
-----------------------------------------------------------------------------
(* The inductive invariant.                                                *)

LEMMA InitTagsInv ==
  ASSUME Bounds, Init
  PROVE  TagsInv
<1>1. TagsTypeOK BY DEF Init, TagsTypeOK
<1>2. OneAtATime BY DEF Init, OneAtATime
<1>3. EveryTagHasAHead BY DEF Init, EveryTagHasAHead, Headed, Matching
<1> QED BY <1>1, <1>2, <1>3 DEF TagsInv

\* The store of a call that nothing has misled, as StoreKeepsPromise needs it.
LEMMA Unmisled ==
  ASSUME Bounds, TagsInv, NEW c \in Callers, NEW at \in 0..MaxTime, Store(c, at), ~misled'
  PROVE  /\ call[c] # None /\ call[c] \in Call /\ call[c].aliases = aliases
         /\ aliases' = aliases \cup {NewAlias(call[c], at)}
         /\ aliases \in SUBSET Stored /\ Headed(aliases)
         /\ \A a \in aliases :
              /\ Names(a) \subseteq Names(NewAlias(call[c], at))
              /\ Cardinality(a.variants) = Cardinality(NewAlias(call[c], at).variants)
              => a.at < at
<1> DEFINE new == NewAlias(call[c], at)
<1>1. /\ call[c] # None /\ ~misled /\ ~Misordered(new) /\ aliases' = aliases \cup {new}
  BY DEF Store
<1>2. call[c] \in Call /\ aliases \in SUBSET Stored /\ call[c].aliases = aliases
  BY <1>1 DEF TagsInv, TagsTypeOK, OneAtATime
<1>3. new.at = at BY <1>2, StoredAlias
<1>4. ASSUME NEW a \in aliases, Names(a) \subseteq Names(new),
             Cardinality(a.variants) = Cardinality(new.variants)
      PROVE  a.at < at
  <2>1. ~(a.at >= new.at) BY <1>1, <1>4 DEF Misordered
  <2>2. a.at \in Nat BY <1>2, Sizes
  <2>3. at \in Nat BY DEF Bounds
  <2> QED BY <1>3, <2>1, <2>2, <2>3
<1> QED BY <1>1, <1>2, <1>4 DEF TagsInv, EveryTagHasAHead

\* What such a store does to the aliases.
LEMMA UnmisledStore ==
  ASSUME Bounds, TagsInv, NEW c \in Callers, NEW at \in 0..MaxTime, Store(c, at), ~misled'
  PROVE  /\ Headed(aliases')
         /\ \A t \in Tags :
              resolveCanonical(t, aliases') =
                IF \E s \in call[c].sources \cup {call[c].target} :
                     resolveCanonical(t, aliases) = resolveCanonical(s, aliases)
                THEN call[c].target ELSE resolveCanonical(t, aliases)
<1> DEFINE k == call[c]
<1>1. /\ k \in Call /\ k.aliases = aliases
      /\ aliases' = aliases \cup {NewAlias(k, at)}
      /\ aliases \in SUBSET Stored /\ Headed(aliases)
      /\ \A a \in aliases :
           /\ Names(a) \subseteq Names(NewAlias(k, at))
           /\ Cardinality(a.variants) = Cardinality(NewAlias(k, at).variants)
           => a.at < at
  BY Unmisled
<1> HIDE DEF k
<1>2. /\ Headed(aliases \cup {NewAlias(k, at)})
      /\ \A t \in Tags :
           resolveCanonical(t, aliases \cup {NewAlias(k, at)}) =
             IF \E s \in k.sources \cup {k.target} :
                  resolveCanonical(t, aliases) = resolveCanonical(s, aliases)
             THEN k.target ELSE resolveCanonical(t, aliases)
  BY <1>1, StoreKeepsPromise
<1> QED BY <1>1, <1>2 DEF k

LEMMA TypeStep ==
  ASSUME Bounds, TagsInv, [Next]_vars
  PROVE  TagsTypeOK'
<1> USE DEF TagsInv, TagsTypeOK
<1>1. CASE \E t \in Tags : Write(t) BY <1>1 DEF Write
<1>2. ASSUME NEW c \in Callers, NEW sources \in SUBSET Tags, NEW target \in Tags,
             Begin(c, sources, target)
      PROVE  TagsTypeOK'
  <2>1. aliases \in SUBSET Alias BY DEF Stored
  <2>2. [sources |-> sources \ {target}, target |-> target, aliases |-> aliases,
         checked |-> FALSE] \in Call
    BY <2>1 DEF Call
  <2>3. misled' \in BOOLEAN BY <1>2 DEF Begin
  <2> QED BY <1>2, <2>2, <2>3 DEF Begin
<1>3. ASSUME NEW c \in Callers, Check(c)
      PROVE  TagsTypeOK'
  <2>1. CASE call' = [call EXCEPT ![c].checked = TRUE]
    <3>1. call[c] \in Call BY <1>3 DEF Check
    <3>2. [call[c] EXCEPT !.checked = TRUE] \in Call BY <3>1 DEF Call
    <3> QED BY <1>3, <2>1, <3>2 DEF Check
  <2>2. CASE Ends(c) BY <1>3, <2>2 DEF Check, Ends
  <2> QED BY <1>3, <2>1, <2>2 DEF Check
<1>4. ASSUME NEW c \in Callers, Fail(c)
      PROVE  TagsTypeOK'
  BY <1>4 DEF Fail, Ends
<1>5. ASSUME NEW c \in Callers, NEW at \in 0..MaxTime, Store(c, at)
      PROVE  TagsTypeOK'
  <2> DEFINE k == call[c]
  <2>1. k \in Call BY <1>5 DEF Store
  <2>2. Collected(k.sources, k.target, k.aliases) \subseteq Tags
    <3>1. \A a \in k.aliases : Names(a) \subseteq Tags BY <2>1 DEF Call, Alias, Names
    <3> QED BY <2>1, <3>1 DEF Collected, Matching, Call
  <2>3. NewAlias(k, at) \in Stored
    BY <2>1, <2>2 DEF NewAlias, Stored, Alias, Call, Bounds
  <2>4. misled' \in BOOLEAN BY <1>5 DEF Store, Misordered
  <2> QED BY <1>5, <2>3, <2>4 DEF Store, Ends
<1>6. CASE UNCHANGED vars BY <1>6 DEF vars
<1> QED BY <1>1, <1>2, <1>3, <1>4, <1>5, <1>6 DEF Next

LEMMA OrderStep ==
  ASSUME Bounds, TagsInv, [Next]_vars
  PROVE  OneAtATime' /\ EveryTagHasAHead'
<1> USE DEF OneAtATime, EveryTagHasAHead
<1>1. CASE \E t \in Tags : Write(t) BY <1>1 DEF Write, TagsInv
<1>2. ASSUME NEW c \in Callers, NEW sources \in SUBSET Tags, NEW target \in Tags,
             Begin(c, sources, target)
      PROVE  OneAtATime' /\ EveryTagHasAHead'
  BY <1>2 DEF Begin, TagsInv, TagsTypeOK
<1>3. ASSUME NEW c \in Callers, Check(c)
      PROVE  OneAtATime' /\ EveryTagHasAHead'
  <2>1. CASE call' = [call EXCEPT ![c].checked = TRUE]
    <3>1. call[c] \in Call BY <1>3 DEF Check, TagsInv, TagsTypeOK
    <3>2. call'[c].aliases = call[c].aliases BY <2>1, <3>1 DEF Call, TagsInv, TagsTypeOK
    <3> QED BY <1>3, <2>1, <3>2 DEF Check, TagsInv, TagsTypeOK
  <2>2. CASE Ends(c) BY <1>3, <2>2 DEF Check, Ends, TagsInv, TagsTypeOK
  <2> QED BY <1>3, <2>1, <2>2 DEF Check
<1>4. ASSUME NEW c \in Callers, Fail(c)
      PROVE  OneAtATime' /\ EveryTagHasAHead'
  BY <1>4 DEF Fail, Ends, TagsInv, TagsTypeOK
<1>5. ASSUME NEW c \in Callers, NEW at \in 0..MaxTime, Store(c, at)
      PROVE  OneAtATime' /\ EveryTagHasAHead'
  <2>1. ~misled' => \A d \in Callers : call'[d] = None
    BY <1>5 DEF Store, Ends, TagsInv, TagsTypeOK
  <2>2. ~misled' => Headed(aliases')
    BY <1>5, UnmisledStore
  <2> QED BY <2>1, <2>2 DEF Headed
<1>6. CASE UNCHANGED vars BY <1>6 DEF vars, TagsInv
<1> QED BY <1>1, <1>2, <1>3, <1>4, <1>5, <1>6 DEF Next

\* Every reachable state has the aliases that calls store, and, while nothing has
\* misled the service, one call at a time and a first alias for every tag.
THEOREM TagsInvariance ==
  ASSUME Bounds
  PROVE  Spec => []TagsInv
<1>1. Init => TagsInv BY InitTagsInv
<1>2. TagsInv /\ [Next]_vars => TagsInv' BY TypeStep, OrderStep DEF TagsInv
<1> QED BY <1>1, <1>2, PTL DEF Spec

\* Renaming and merging tags implement their abstract specification: whatever was joined
\* before stays joined under the newest name, however the aliases pile up.
THEOREM TagsKeepTheirPromise ==
  ASSUME Bounds
  PROVE  Spec => KeepsPromise
<1>1. ASSUME TagsInv, [Next]_vars
      PROVE  PromiseKept
  <2>1. ASSUME NEW c \in Callers, NEW at \in 0..MaxTime, Store(c, at), ~misled'
        PROVE  PromiseKept
    <3>1. call[c] # None BY <2>1, <1>1, Unmisled
    <3>2. \A t \in Tags :
            resolveCanonical(t, aliases') =
              IF \E s \in call[c].sources \cup {call[c].target} :
                   resolveCanonical(t, aliases) = resolveCanonical(s, aliases)
              THEN call[c].target ELSE resolveCanonical(t, aliases)
      BY <2>1, <1>1, UnmisledStore
    <3>3. call[c].sources \cup {call[c].target} \subseteq Tags
      BY <2>1, <1>1, Unmisled DEF Call
    <3>4. [t \in Tags |-> resolveCanonical(t, aliases)]' =
            [t \in Tags |-> resolveCanonical(t, aliases')]
      BY DEF resolveCanonical, First, Matching
    <3>5. [t \in Tags |-> resolveCanonical(t, aliases')] =
            [t \in Tags |->
               IF \E s \in call[c].sources \cup {call[c].target} :
                    resolveCanonical(t, aliases) = resolveCanonical(s, aliases)
               THEN call[c].target ELSE resolveCanonical(t, aliases)]
      BY <3>2
    <3>6. ASSUME NEW t \in Tags
          PROVE  (\E s \in call[c].sources \cup {call[c].target} :
                    resolveCanonical(t, aliases) = resolveCanonical(s, aliases))
                 <=> \E s \in call[c].sources \cup {call[c].target} :
                       [u \in Tags |-> resolveCanonical(u, aliases)][t] =
                         [u \in Tags |-> resolveCanonical(u, aliases)][s]
      BY <3>3, <3>6
    <3>7. Promise!Canonicalize(call[c].sources, call[c].target)
      BY <3>4, <3>5, <3>6 DEF Promise!Canonicalize
    <3> QED BY <3>1, <3>7 DEF PromiseKept
  <2>2. CASE aliases' = aliases \/ misled' BY <2>2 DEF PromiseKept
  <2>3. aliases' = aliases \/ \E c \in Callers, at \in 0..MaxTime : Store(c, at)
    BY <1>1 DEF Next, vars, Write, Begin, Check, Fail
  <2> QED BY <2>1, <2>2, <2>3
<1>2. TagsInv /\ [Next]_vars => [PromiseKept]_vars BY <1>1
<1> QED BY <1>2, TagsInvariance, PTL DEF Spec, KeepsPromise

-----------------------------------------------------------------------------
(* Placements: what the variables of OccurrenceEditing hold.               *)

Outlines == UNION {[D -> Placement] : D \in SUBSET Placing!Ids}

Wish == [parent : PlaceIds, collapsed : BOOLEAN, heading : BOOLEAN, pinned : BOOLEAN]

Wishes == UNION {[D -> Wish] : D \in SUBSET Placing!Ids}

ReadFirst == {"collapse", "heading", "pin", "move", "text", "create", "place"}

Batched == {"delete", "discard", "collapseAll"}

Arguments ==
  [op : {"collapse", "heading", "pin", "text"}, id : Placing!Ids, value : BOOLEAN]
  \cup [op : {"move"}, id : Placing!Ids, parent : PlaceIds, after : PlaceIds]
  \cup [op : {"create"}, parent : PlaceIds, after : PlaceIds, value : BOOLEAN]
  \cup [op : {"place"}, of : Placing!Ids, parent : PlaceIds, after : PlaceIds]
  \cup [op : {"delete"}, id : Placing!Ids]
  \cup [op : {"discard"}, ids : SUBSET Placing!Ids]
  \cup [op : {"collapseAll"}, ids : SUBSET Placing!Ids, value : BOOLEAN]

PlaceCall ==
  [op : ReadFirst \cup Batched, arg : Arguments, at : {"read", "batch"}, items : Outlines,
   stale : SUBSET Placing!Ids, left : SUBSET Placing!Ids]

PlaceTypeOK ==
  /\ occ \in Outlines /\ meant \in Wishes
  /\ batch \in Callers \cup {None}
  /\ call \in [Callers -> PlaceCall \cup {Placing!Idle}]

\* A call has the arguments of its operation, about what it has read.
Formed(k) ==
  /\ k.arg.op = k.op
  /\ k.at = IF k.op \in ReadFirst THEN "read" ELSE "batch"
  /\ k.op \in {"collapse", "heading", "pin", "move", "text", "delete"}
       => k.arg.id \in DOMAIN k.items
  /\ k.op = "place" => k.arg.of \in DOMAIN k.items

CallsAreFormed == \A c \in Callers : call[c] # Placing!Idle => Formed(call[c])

BatchIsOfItsCaller ==
  \A c \in Callers : batch = c <=> call[c] # Placing!Idle /\ call[c].at = "batch"

\* What a call has read is still so, but for what others have written since.
StillSo(c) ==
  \A x \in Placing!Ids \ call[c].stale :
    /\ x \in DOMAIN occ <=> x \in DOMAIN call[c].items
    /\ x \in DOMAIN occ => occ[x] = call[c].items[x]

ReadsAreStillSo ==
  \A c \in Callers : call[c] # Placing!Idle /\ call[c].at = "read" => StillSo(c)

AsMeant(list) == \A x \in DOMAIN list \ raced : Placing!Intent(list[x]) = meant[x]

\* In a batch that deletes, the children that are not left have the parent of the item.
Promoting(c) ==
  LET list == call[c].items
      x == call[c].arg.id
  IN  /\ AsMeant(list) /\ call[c].left \subseteq Placing!Children(list, x)
      /\ \A y \in DOMAIN list :
           IF y \in Placing!Children(list, x) \ call[c].left
             THEN Placing!Intent(occ[y])
                    = [Placing!Intent(list[y]) EXCEPT !.parent = list[x].parent]
             ELSE occ[y] = list[y]

Discarding(c) ==
  /\ occ = call[c].items /\ AsMeant(occ)
  /\ call[c].left = call[c].arg.ids \cap Placing!Discardable

ElseSame(o, i) == o.parent = i.parent /\ o.heading = i.heading /\ o.pinned = i.pinned

\* A batch that collapses has changed nothing else.
Collapsing(c) ==
  /\ AsMeant(occ)
  /\ \A x \in DOMAIN occ : ElseSame(occ[x], call[c].items[x])

BatchIsUnderWay ==
  \A c \in Callers : batch = c =>
    /\ DOMAIN occ = DOMAIN call[c].items /\ DOMAIN meant = DOMAIN occ
    /\ call[c].left \subseteq DOMAIN occ
    /\ call[c].op = "delete" => Promoting(c)
    /\ call[c].op = "discard" => Discarding(c)
    /\ call[c].op = "collapseAll" => Collapsing(c)

PlaceInv ==
  /\ PlaceTypeOK /\ CallsAreFormed /\ BatchIsOfItsCaller /\ ReadsAreStillSo
  /\ BatchIsUnderWay /\ Placing!PlacementsAreAsAsked

-----------------------------------------------------------------------------
(* The order of the promoted children.                                     *)

\* The children of x that are done stand in their order between the siblings S before
\* it and those behind it, r away from these, and come before the children that are left.
InPlace(list, o, x, S, done, left, r) ==
  /\ \A d \in done, y \in S :
       IF list[y].key < list[x].key THEN list[y].key < o[d].key
       ELSE list[y].key - o[d].key >= r
  /\ \A d, e \in done : Placing!Before(list, d, e) => o[d].key < o[e].key
  /\ \A d \in done, e \in left : Placing!Before(list, d, e)

\* The gap behind the item leaves room for the children that are left.
InOrder(c) ==
  LET list == call[c].items
      x == call[c].arg.id
      left == call[c].left
      S == Placing!siblings(list, list[x].parent) \ {x}
      C == Placing!Children(list, x)
      n == Cardinality(C)
  IN  Placing!Roomy(list, S \cup {x}, n) /\ 2^n <= 2 * ORDER_STEP /\ list[x].parent # x
        => InPlace(list, occ, x, S, C \ left, left, 2^Cardinality(left))

ChildrenAreInOrder ==
  \A c \in Callers : batch = c /\ call[c].op = "delete" => InOrder(c)

OrderInv == PlaceInv /\ ChildrenAreInOrder


-----------------------------------------------------------------------------
LEMMA OutlineIs ==
  ASSUME NEW f
  PROVE  f \in Outlines <=>
           /\ f = [x \in DOMAIN f |-> f[x]] /\ DOMAIN f \subseteq Placing!Ids
           /\ \A x \in DOMAIN f : f[x] \in Placement
<1>1. ASSUME f \in Outlines
      PROVE  /\ f = [x \in DOMAIN f |-> f[x]] /\ DOMAIN f \subseteq Placing!Ids
             /\ \A x \in DOMAIN f : f[x] \in Placement
  <2>1. PICK D \in SUBSET Placing!Ids : f \in [D -> Placement] BY <1>1 DEF Outlines
  <2> QED BY <2>1
<1>2. ASSUME f = [x \in DOMAIN f |-> f[x]], DOMAIN f \subseteq Placing!Ids,
             \A x \in DOMAIN f : f[x] \in Placement
      PROVE  f \in Outlines
  <2>1. f \in [DOMAIN f -> Placement] BY <1>2
  <2>2. [DOMAIN f -> Placement] \in {[D -> Placement] : D \in SUBSET Placing!Ids} BY <1>2
  <2> QED BY <2>1, <2>2 DEF Outlines
<1> QED BY <1>1, <1>2

LEMMA WishesAre ==
  ASSUME NEW f
  PROVE  f \in Wishes <=>
           /\ f = [x \in DOMAIN f |-> f[x]] /\ DOMAIN f \subseteq Placing!Ids
           /\ \A x \in DOMAIN f : f[x] \in Wish
<1>1. ASSUME f \in Wishes
      PROVE  /\ f = [x \in DOMAIN f |-> f[x]] /\ DOMAIN f \subseteq Placing!Ids
             /\ \A x \in DOMAIN f : f[x] \in Wish
  <2>1. PICK D \in SUBSET Placing!Ids : f \in [D -> Wish] BY <1>1 DEF Wishes
  <2> QED BY <2>1
<1>2. ASSUME f = [x \in DOMAIN f |-> f[x]], DOMAIN f \subseteq Placing!Ids,
             \A x \in DOMAIN f : f[x] \in Wish
      PROVE  f \in Wishes
  <2>1. f \in [DOMAIN f -> Wish] BY <1>2
  <2>2. [DOMAIN f -> Wish] \in {[D -> Wish] : D \in SUBSET Placing!Ids} BY <1>2
  <2> QED BY <2>1, <2>2 DEF Wishes
<1> QED BY <1>1, <1>2

LEMMA PlacementFields ==
  ASSUME NEW list \in Outlines, NEW x \in DOMAIN list
  PROVE  /\ x \in Placing!Ids /\ x \in Nat /\ list[x] \in Placement
         /\ list[x].work \in Nat /\ list[x].parent \in PlaceIds /\ list[x].key \in Int
         /\ list[x].collapsed \in BOOLEAN /\ list[x].heading \in BOOLEAN
         /\ list[x].pinned \in BOOLEAN
<1>1. list[x] \in Placement /\ x \in Placing!Ids BY OutlineIs
<1>2. x \in Nat BY <1>1, PlacesAssumption DEF Placing!Ids
<1> QED BY <1>1, <1>2 DEF Placement

LEMMA IntentIsWish ==
  ASSUME NEW o \in Placement
  PROVE  Placing!Intent(o) \in Wish
BY DEF Placing!Intent, Placement, Wish

-----------------------------------------------------------------------------
(* The first and the last of some siblings.                                *)

\* A finite set that is strictly ordered has a first element.
LEMMA FirstInOrder ==
  ASSUME NEW S, IsFiniteSet(S), S # {}, NEW R,
         \A x \in S : <<x, x>> \notin R,
         \A x, y, z \in S : <<x, y>> \in R /\ <<y, z>> \in R => <<x, z>> \in R,
         \A x, y \in S : x # y => <<x, y>> \in R \/ <<y, x>> \in R
  PROVE  \E x \in S : \A y \in S \ {x} : <<x, y>> \in R
<1> DEFINE Below(x) == {y \in S : <<y, x>> \in R}
           F == {Below(x) : x \in S}
<1>1. IsWellFoundedOn(StrictSubsetOrdering(S), FiniteSubsetsOf(S))
  BY FS_StrictSubsetOrderingWellFounded
<1>2. F \subseteq FiniteSubsetsOf(S) BY FS_Subset DEF FiniteSubsetsOf
<1>3. F # {}
  <2>1. PICK s \in S : TRUE OBVIOUS
  <2>2. Below(s) \in F OBVIOUS
  <2> QED BY <2>2
<1> HIDE DEF F
<1>4. PICK D \in F : \A E \in F : <<E, D>> \notin StrictSubsetOrdering(S)
  BY <1>1, <1>2, <1>3, WFMin
<1> USE DEF F
<1>5. PICK x \in S : D = Below(x) BY <1>4
<1>6. ASSUME NEW y \in S \ {x}, <<x, y>> \notin R PROVE FALSE
  <2>1. <<y, x>> \in R BY <1>6
  <2>2. Below(y) \subseteq Below(x) BY <2>1
  <2>3. y \in Below(x) /\ y \notin Below(y) BY <2>1
  <2>4. Below(x) \subseteq S /\ Below(y) \subseteq S OBVIOUS
  <2>5. <<Below(y), Below(x)>> \in StrictSubsetOrdering(S)
    BY <2>2, <2>3, <2>4 DEF StrictSubsetOrdering
  <2>6. Below(y) \in F OBVIOUS
  <2> QED BY <1>4, <1>5, <2>5, <2>6
<1> QED BY <1>6

LEMMA SomeIds ==
  ASSUME NEW S \in SUBSET Placing!Ids
  PROVE  IsFiniteSet(S)
<1>1. IsFiniteSet(Placing!Ids) BY FS_Interval, PlacesAssumption DEF Placing!Ids
<1> QED BY <1>1, FS_Subset

LEMMA BeforeIsAnOrder ==
  ASSUME NEW list \in Outlines
  PROVE  /\ \A x \in DOMAIN list : ~Placing!Before(list, x, x)
         /\ \A x, y, z \in DOMAIN list :
              Placing!Before(list, x, y) /\ Placing!Before(list, y, z)
                => Placing!Before(list, x, z)
         /\ \A x, y \in DOMAIN list :
              x # y => Placing!Before(list, x, y) \/ Placing!Before(list, y, x)
BY PlacementFields DEF Placing!Before

LEMMA FirstIs ==
  ASSUME NEW list \in Outlines, NEW S \in SUBSET DOMAIN list, S # {}
  PROVE  /\ Placing!First(list, S) \in S
         /\ \A y \in S \ {Placing!First(list, S)} :
              Placing!Before(list, Placing!First(list, S), y)
<1> DEFINE R == {p \in S \X S : Placing!Before(list, p[1], p[2])}
<1>1. IsFiniteSet(S) BY SomeIds, OutlineIs
<1>2. \A x, y \in S : <<x, y>> \in R <=> Placing!Before(list, x, y) OBVIOUS
<1> HIDE DEF R
<1>3. \E x \in S : \A y \in S \ {x} : <<x, y>> \in R
  BY <1>1, <1>2, FirstInOrder, BeforeIsAnOrder
<1>4. \E x \in S : \A y \in S \ {x} : Placing!Before(list, x, y) BY <1>2, <1>3
<1> QED BY <1>4 DEF Placing!First

LEMMA LastIs ==
  ASSUME NEW list \in Outlines, NEW S \in SUBSET DOMAIN list, S # {}
  PROVE  /\ Placing!Last(list, S) \in S
         /\ \A y \in S \ {Placing!Last(list, S)} : Placing!Before(list, y, Placing!Last(list, S))
<1> DEFINE R == {p \in S \X S : Placing!Before(list, p[2], p[1])}
<1>1. IsFiniteSet(S) BY SomeIds, OutlineIs
<1>2. \A x, y \in S : <<x, y>> \in R <=> Placing!Before(list, y, x) OBVIOUS
<1> HIDE DEF R
<1>3. \E x \in S : \A y \in S \ {x} : <<x, y>> \in R
  BY <1>1, <1>2, FirstInOrder, BeforeIsAnOrder
<1>4. \E x \in S : \A y \in S \ {x} : Placing!Before(list, y, x) BY <1>2, <1>3
<1> QED BY <1>4 DEF Placing!Last

LEMMA HalfOfTwo ==
  ASSUME NEW a \in Int, NEW b \in Int
  PROVE  /\ (a + b) \div 2 \in Int
         /\ 2 * ((a + b) \div 2) <= a + b /\ a + b <= 2 * ((a + b) \div 2) + 1
OBVIOUS

LEMMA OrderAfterIsAKey ==
  ASSUME NEW list \in Outlines, NEW p, NEW after
  PROVE  Placing!orderAfter(list, p, after) \in Int
<1> DEFINE S == Placing!siblings(list, p)
           next == {x \in S : after # None /\ Placing!Before(list, after, x)}
<1>1. S \in SUBSET DOMAIN list /\ next \in SUBSET DOMAIN list BY DEF Placing!siblings
<1>2. CASE S = {} BY <1>2, PlacesAssumption DEF Placing!orderAfter
<1>3. CASE S # {}
  <2>1. list[Placing!First(list, S)].key \in Int /\ list[Placing!Last(list, S)].key \in Int
    BY <1>1, <1>3, FirstIs, LastIs, PlacementFields
  <2>2. ASSUME after \in S, next # {}
        PROVE  (list[after].key + list[Placing!First(list, next)].key) \div 2 \in Int
    <3>1. list[after].key \in Int /\ list[Placing!First(list, next)].key \in Int
      BY <1>1, <2>2, FirstIs, PlacementFields
    <3> QED BY <3>1, HalfOfTwo
  <2> HIDE DEF S
  <2> QED BY <1>3, <2>1, <2>2, PlacesAssumption DEF Placing!orderAfter, S
<1> QED BY <1>2, <1>3

-----------------------------------------------------------------------------
(* What a write changes.                                                   *)

LEMMA PlaceCallFields ==
  ASSUME PlaceTypeOK, CallsAreFormed, NEW c \in Callers, call[c] # Placing!Idle
  PROVE  /\ call[c] \in PlaceCall /\ call[c].items \in Outlines
         /\ call[c].op \in ReadFirst \cup Batched
         /\ call[c].stale \in SUBSET Placing!Ids /\ call[c].left \in SUBSET Placing!Ids
         /\ call[c].arg \in Arguments /\ call[c].arg.op = call[c].op
         /\ call[c].at = IF call[c].op \in ReadFirst THEN "read" ELSE "batch"
<1>1. call[c] \in PlaceCall BY DEF PlaceTypeOK
<1>2. Formed(call[c]) BY DEF CallsAreFormed
<1> QED BY <1>1, <1>2 DEF PlaceCall, Formed

LEMMA ArgumentFields ==
  ASSUME NEW r \in Arguments
  PROVE  /\ r.op \in {"collapse", "heading", "pin", "text"} => r.id \in Placing!Ids
             /\ r.value \in BOOLEAN
         /\ r.op = "move" => r.id \in Placing!Ids /\ r.parent \in PlaceIds /\ r.after \in PlaceIds
         /\ r.op = "create" => r.parent \in PlaceIds /\ r.after \in PlaceIds
             /\ r.value \in BOOLEAN
         /\ r.op = "place" => r.of \in Placing!Ids /\ r.parent \in PlaceIds
             /\ r.after \in PlaceIds
         /\ r.op = "delete" => r.id \in Placing!Ids
         /\ r.op = "discard" => r.ids \in SUBSET Placing!Ids
         /\ r.op = "collapseAll" => r.ids \in SUBSET Placing!Ids /\ r.value \in BOOLEAN
BY DEF Arguments

LEMMA PlaceCallIsNotIdle ==
  ASSUME NEW k \in PlaceCall
  PROVE  k # Placing!Idle
<1>1. k.op # "none" BY DEF PlaceCall, ReadFirst, Batched
<1> QED BY <1>1 DEF Placing!Idle

\* The caller is done, or goes on; the others' calls are as they were, but for what has
\* been written since they read.
Overtaken(c, X, done) ==
  /\ call' \in [Callers -> PlaceCall \cup {Placing!Idle}] /\ CallsAreFormed'
  /\ call'[c] = done
  /\ \A d \in Callers \ {c} :
       /\ call'[d] = Placing!Idle <=> call[d] = Placing!Idle
       /\ call[d] # Placing!Idle =>
            /\ call'[d].op = call[d].op /\ call'[d].at = call[d].at
            /\ call'[d].arg = call[d].arg /\ call'[d].items = call[d].items
            /\ call'[d].left = call[d].left
            /\ call'[d].stale = call[d].stale \cup X

LEMMA OthersAreOvertaken ==
  ASSUME PlaceTypeOK, CallsAreFormed, NEW c \in Callers, NEW X \in SUBSET Placing!Ids,
         NEW done \in PlaceCall \cup {Placing!Idle}, Placing!Overtake(c, X, done),
           done # Placing!Idle => Formed(done)
  PROVE  Overtaken(c, X, done)
<1>1. call'[c] = done BY DEF Placing!Overtake
<1>2. ASSUME NEW d \in Callers \ {c}, call[d] = Placing!Idle PROVE call'[d] = Placing!Idle
  BY <1>2 DEF Placing!Overtake
<1>3. ASSUME NEW d \in Callers \ {c}, call[d] # Placing!Idle
      PROVE  /\ call'[d] \in PlaceCall /\ call'[d] # Placing!Idle /\ Formed(call'[d])
             /\ call'[d].op = call[d].op /\ call'[d].at = call[d].at
             /\ call'[d].arg = call[d].arg /\ call'[d].items = call[d].items
             /\ call'[d].left = call[d].left
             /\ call'[d].stale = call[d].stale \cup X
  <2>1. call'[d] = [call[d] EXCEPT !.stale = @ \cup X] BY <1>3 DEF Placing!Overtake
  <2>2. call[d] \in PlaceCall BY <1>3, PlaceCallFields
  <2>3. /\ call'[d] \in PlaceCall
        /\ call'[d].op = call[d].op /\ call'[d].at = call[d].at
        /\ call'[d].arg = call[d].arg /\ call'[d].items = call[d].items
        /\ call'[d].left = call[d].left
        /\ call'[d].stale = call[d].stale \cup X
    BY <2>1, <2>2 DEF PlaceCall
  <2>4. Formed(call[d]) BY <1>3 DEF CallsAreFormed
  <2> QED BY <2>3, <2>4, PlaceCallIsNotIdle DEF Formed
<1>4. call' = [d \in Callers |-> call'[d]] BY DEF Placing!Overtake
<1>5. \A d \in Callers : call'[d] \in PlaceCall \cup {Placing!Idle} BY <1>1, <1>2, <1>3
<1>6. call' \in [Callers -> PlaceCall \cup {Placing!Idle}] BY <1>4, <1>5
<1>7. CallsAreFormed' BY <1>1, <1>2, <1>3 DEF CallsAreFormed
<1> QED BY <1>1, <1>2, <1>3, <1>6, <1>7 DEF Overtaken

\* While the placements change only at X, the others go on as they were.
LEMMA OthersGoOn ==
  ASSUME PlaceTypeOK, CallsAreFormed, BatchIsOfItsCaller, ReadsAreStillSo,
         NEW c \in Callers, batch \in {None, c}, NEW X \in SUBSET Placing!Ids,
         NEW done \in PlaceCall \cup {Placing!Idle}, Placing!Overtake(c, X, done),
           done # Placing!Idle => Formed(done),
         \A x \in Placing!Ids \ X : /\ x \in DOMAIN occ' <=> x \in DOMAIN occ
                                    /\ x \in DOMAIN occ => occ'[x] = occ[x],
         batch' \in {None, c}, batch' = c <=> done # Placing!Idle /\ done.at = "batch",
         done # Placing!Idle => done.at = "batch"
  PROVE  /\ call' \in [Callers -> PlaceCall \cup {Placing!Idle}] /\ CallsAreFormed'
         /\ BatchIsOfItsCaller' /\ ReadsAreStillSo'
         /\ call'[c] = done
<1>0. Overtaken(c, X, done) BY OthersAreOvertaken
<1>1. /\ call' \in [Callers -> PlaceCall \cup {Placing!Idle}] /\ CallsAreFormed'
      /\ call'[c] = done
      /\ \A d \in Callers \ {c} :
           /\ call'[d] = Placing!Idle <=> call[d] = Placing!Idle
           /\ call[d] # Placing!Idle =>
                /\ call'[d].op = call[d].op /\ call'[d].at = call[d].at
                /\ call'[d].arg = call[d].arg /\ call'[d].items = call[d].items
                /\ call'[d].left = call[d].left
                /\ call'[d].stale = call[d].stale \cup X
  BY <1>0 DEF Overtaken
<1>2. None \notin Callers BY PlacesAssumption
<1>3. BatchIsOfItsCaller'
  <2>1. ASSUME NEW d \in Callers \ {c}
        PROVE  batch' = d <=> call'[d] # Placing!Idle /\ call'[d].at = "batch"
    BY <1>1, <1>2 DEF BatchIsOfItsCaller
  <2>2. batch' = c <=> call'[c] # Placing!Idle /\ call'[c].at = "batch" BY <1>1
  <2> QED BY <2>1, <2>2 DEF BatchIsOfItsCaller
<1>4. ReadsAreStillSo'
  <2> SUFFICES ASSUME NEW d \in Callers, call'[d] # Placing!Idle, call'[d].at = "read"
               PROVE  StillSo(d)'
    BY DEF ReadsAreStillSo
  <2>1. d # c BY <1>1
  <2>2. StillSo(d) BY <1>1, <2>1 DEF ReadsAreStillSo
  <2> QED BY <1>1, <2>1, <2>2 DEF StillSo
<1> QED BY <1>1, <1>3, <1>4

\* A write that is not of a batch: there is none before, and none after.
LEMMA AloneAfterwards ==
  ASSUME BatchIsOfItsCaller,
         NEW c \in Callers, Placing!MayWrite(c), call[c] # Placing!Idle, call[c].at = "read"
  PROVE  batch = None
BY DEF BatchIsOfItsCaller, Placing!MayWrite

LEMMA NoBatch ==
  ASSUME batch = None
  PROVE  BatchIsUnderWay
BY PlacesAssumption DEF BatchIsUnderWay

LEMMA PlaceInitial == ASSUME Placing!Init PROVE PlaceInv
<1>1. PICK o \in InitialOutlines : occ = o BY DEF Placing!Init
<1>2. occ \in Outlines BY <1>1, PlacesAssumption DEF Outlines
<1>3. meant = [x \in DOMAIN occ |-> Placing!Intent(occ[x])] BY DEF Placing!Init
<1>4. meant \in Wishes
  <2>1. \A x \in DOMAIN occ : Placing!Intent(occ[x]) \in Wish
    BY <1>2, PlacementFields, IntentIsWish
  <2>2. DOMAIN occ \subseteq Placing!Ids BY <1>2, OutlineIs
  <2> QED BY <1>3, <2>1, <2>2, WishesAre
<1>5. call = [c \in Callers |-> Placing!Idle] /\ batch = None BY DEF Placing!Init
<1>6. PlaceTypeOK BY <1>2, <1>4, <1>5 DEF PlaceTypeOK
<1>7. CallsAreFormed /\ ReadsAreStillSo BY <1>5 DEF CallsAreFormed, ReadsAreStillSo
<1>8. BatchIsOfItsCaller BY <1>5, PlacesAssumption DEF BatchIsOfItsCaller
<1>9. Placing!PlacementsAreAsAsked BY <1>3 DEF Placing!PlacementsAreAsAsked
<1> QED BY <1>5, <1>6, <1>7, <1>8, <1>9, NoBatch DEF PlaceInv

LEMMA PlaceReads ==
  ASSUME PlaceInv, NEW c \in Callers, Placing!Read(c)
  PROVE  PlaceInv'
<1> USE DEF PlaceInv
<1>1. PICK r \in Placing!Requests : Placing!Begin(c, r, "read") BY DEF Placing!Read
<1> DEFINE k == [op |-> r.op, arg |-> r, at |-> "read", items |-> occ, stale |-> {}, left |-> {}]
<1>2. /\ occ \in Outlines /\ call \in [Callers -> PlaceCall \cup {Placing!Idle}]
      /\ DOMAIN occ \subseteq Placing!Ids /\ Placing!Parents \subseteq PlaceIds
  BY OutlineIs DEF PlaceTypeOK, Placing!Parents, PlaceIds
<1>3. /\ UNCHANGED <<occ, batch, meant, raced, blank>> /\ call[c] = Placing!Idle
      /\ call' = [call EXCEPT ![c] = k]
  BY <1>1 DEF Placing!Read, Placing!MayBegin, Placing!Begin
<1>4. /\ r \in Arguments /\ r.op \in ReadFirst
      /\ r.op \in {"collapse", "heading", "pin", "move", "text", "delete"} => r.id \in DOMAIN occ
      /\ r.op = "place" => r.of \in DOMAIN occ
  <2>1. CASE r \in [op : {"collapse", "heading", "pin"}, id : DOMAIN occ, value : BOOLEAN]
    BY <1>2, <2>1 DEF Arguments, ReadFirst
  <2>2. CASE r \in [op : {"move"}, id : DOMAIN occ, parent : Placing!Parents,
                    after : Placing!Parents]
    BY <1>2, <2>2 DEF Arguments, ReadFirst
  <2>3. CASE r \in [op : {"text"}, id : {x \in DOMAIN occ : ~occ[x].pinned}, value : BOOLEAN]
    BY <1>2, <2>3 DEF Arguments, ReadFirst
  <2>4. CASE r \in [op : {"create"}, parent : Placing!Parents, after : Placing!Parents,
                    value : BOOLEAN]
    BY <1>2, <2>4 DEF Arguments, ReadFirst
  <2>5. CASE r \in [op : {"place"}, of : DOMAIN occ, parent : Placing!Parents,
                    after : Placing!Parents]
    BY <1>2, <2>5 DEF Arguments, ReadFirst
  <2> QED BY <2>1, <2>2, <2>3, <2>4, <2>5 DEF Placing!Requests
<1>5. k \in PlaceCall /\ Formed(k) BY <1>2, <1>4 DEF PlaceCall, Formed
<1>6. k # Placing!Idle BY <1>5, PlaceCallIsNotIdle
<1> HIDE DEF k
<1>7. call' \in [Callers -> PlaceCall \cup {Placing!Idle}] BY <1>2, <1>3, <1>5
<1>8. call'[c] = k /\ \A d \in Callers \ {c} : call'[d] = call[d] BY <1>2, <1>3
<1>9. PlaceTypeOK' BY <1>3, <1>7 DEF PlaceTypeOK
<1>10. CallsAreFormed' BY <1>5, <1>8 DEF CallsAreFormed
<1>11. k.at = "read" /\ k.items = occ BY DEF k
<1>12. BatchIsOfItsCaller'
  BY <1>3, <1>8, <1>11 DEF BatchIsOfItsCaller
<1>13. ReadsAreStillSo'
  <2> SUFFICES ASSUME NEW d \in Callers, call'[d] # Placing!Idle, call'[d].at = "read"
               PROVE  StillSo(d)'
    BY DEF ReadsAreStillSo
  <2>1. CASE d = c BY <1>3, <1>8, <1>11, <2>1 DEF StillSo
  <2>2. CASE d # c
    <3>1. StillSo(d) BY <1>8, <2>2 DEF ReadsAreStillSo
    <3> QED BY <1>3, <1>8, <2>2, <3>1 DEF StillSo
  <2> QED BY <2>1, <2>2
<1>14. BatchIsUnderWay'
  <2>1. batch # c BY <1>3 DEF BatchIsOfItsCaller
  <2> SUFFICES ASSUME NEW d \in Callers, batch = d
               PROVE  /\ DOMAIN occ = DOMAIN call[d].items /\ DOMAIN meant = DOMAIN occ
                      /\ call[d].left \subseteq DOMAIN occ
                      /\ call[d].op = "delete" => Promoting(d)
                      /\ call[d].op = "discard" => Discarding(d)
                      /\ call[d].op = "collapseAll" => Collapsing(d)
    BY <1>3, <1>8, <2>1
    DEF BatchIsUnderWay, Promoting, Discarding, Collapsing, AsMeant, Placing!Discardable
  <2> QED BY DEF BatchIsUnderWay
<1>15. Placing!PlacementsAreAsAsked' BY <1>3 DEF Placing!PlacementsAreAsAsked
<1> QED BY <1>9, <1>10, <1>12, <1>13, <1>14, <1>15

LEMMA PlaceWriteText ==
  ASSUME PlaceInv, NEW c \in Callers, Placing!WriteText(c)
  PROVE  PlaceInv'
<1> USE DEF PlaceInv
<1>1. /\ call[c].op = "text" /\ Placing!MayWrite(c) /\ UNCHANGED <<occ, batch, meant, raced>>
      /\ call' = [call EXCEPT ![c] = Placing!Idle]
  BY DEF Placing!WriteText
<1>2. call[c] # Placing!Idle BY <1>1 DEF Placing!Idle
<1>3. call[c].at = "read" BY <1>1, <1>2, PlaceCallFields DEF ReadFirst
<1>4. batch = None BY <1>1, <1>2, <1>3, AloneAfterwards
<1>5. call' \in [Callers -> PlaceCall \cup {Placing!Idle}] BY <1>1 DEF PlaceTypeOK
<1>6. call'[c] = Placing!Idle /\ \A d \in Callers \ {c} : call'[d] = call[d]
  BY <1>1 DEF PlaceTypeOK
<1>7. PlaceTypeOK' BY <1>1, <1>5 DEF PlaceTypeOK
<1>8. CallsAreFormed' BY <1>6 DEF CallsAreFormed
<1>9. BatchIsOfItsCaller'
  BY <1>1, <1>4, <1>6, PlacesAssumption DEF BatchIsOfItsCaller
<1>10. ReadsAreStillSo' BY <1>1, <1>6 DEF ReadsAreStillSo, StillSo
<1>11. BatchIsUnderWay' BY <1>1, <1>4, PlacesAssumption DEF BatchIsUnderWay
<1>12. Placing!PlacementsAreAsAsked' BY <1>1 DEF Placing!PlacementsAreAsAsked
<1> QED BY <1>7, <1>8, <1>9, <1>10, <1>11, <1>12

\* What is common to the writes that are not of a batch.
LEMMA PlaceWrites ==
  ASSUME PlaceInv,
         NEW c \in Callers, call[c] # Placing!Idle, call[c].at = "read", Placing!MayWrite(c),
         NEW x \in Placing!Ids, Placing!Overtake(c, {x}, Placing!Idle), batch' = batch,
         occ' \in Outlines, meant' \in Wishes,
         \A y \in Placing!Ids \ {x} : /\ y \in DOMAIN occ' <=> y \in DOMAIN occ
                                      /\ y \in DOMAIN occ => occ'[y] = occ[y],
         Placing!PlacementsAreAsAsked'
  PROVE  PlaceInv'
<1>1. batch = None BY AloneAfterwards DEF PlaceInv
<1>2. None \notin Callers BY PlacesAssumption
<1>3. {x} \in SUBSET Placing!Ids /\ Placing!Idle \in PlaceCall \cup {Placing!Idle} OBVIOUS
<1>4. /\ call' \in [Callers -> PlaceCall \cup {Placing!Idle}] /\ CallsAreFormed'
      /\ BatchIsOfItsCaller' /\ ReadsAreStillSo'
      /\ call'[c] = Placing!Idle
  <2>1. /\ PlaceTypeOK /\ CallsAreFormed /\ BatchIsOfItsCaller /\ ReadsAreStillSo
        /\ batch \in {None, c} /\ batch' \in {None, c} /\ batch' # c
    BY <1>1, <1>2 DEF PlaceInv
  <2> QED BY <1>3, <2>1, OthersGoOn
<1>5. PlaceTypeOK' BY <1>1, <1>4 DEF PlaceTypeOK
<1>6. BatchIsUnderWay' BY <1>1, <1>2 DEF BatchIsUnderWay
<1> QED BY <1>4, <1>5, <1>6 DEF PlaceInv

\* The record that is written is that which was read, but for what is asked.
LEMMA Rewritten ==
  ASSUME NEW o \in Placement, NEW r \in Arguments,
         r.op \in {"collapse", "heading", "pin", "move"},
         NEW key \in Int, NEW rec, rec = [Placing!Changed(o, r) EXCEPT !.key = key],
         NEW w, w = Placing!Intent(o)
  PROVE  /\ rec \in Placement
         /\ Placing!Intent(rec) = IF r.op = "collapse" THEN [w EXCEPT !.collapsed = r.value]
                          ELSE IF r.op = "heading" THEN [w EXCEPT !.heading = r.value]
                          ELSE IF r.op = "pin" THEN [w EXCEPT !.pinned = r.value]
                          ELSE [w EXCEPT !.parent = r.parent]
<1> USE ArgumentFields
<1>1. CASE r.op = "collapse" BY <1>1 DEF Placing!Changed, Placement, Placing!Intent
<1>2. CASE r.op = "heading" BY <1>2 DEF Placing!Changed, Placement, Placing!Intent
<1>3. CASE r.op = "pin" BY <1>3 DEF Placing!Changed, Placement, Placing!Intent
<1>4. CASE r.op = "move" BY <1>4 DEF Placing!Changed, Placement, Placing!Intent
<1> QED BY <1>1, <1>2, <1>3, <1>4

LEMMA WithoutIsAnOutline ==
  ASSUME NEW list \in Outlines, NEW X
  PROVE  Placing!Without(list, X) \in Outlines
<1>1. \A x \in DOMAIN list \ X : list[x] \in Placement BY OutlineIs
<1>2. DOMAIN list \subseteq Placing!Ids BY OutlineIs
<1> QED BY <1>1, <1>2, OutlineIs DEF Placing!Without

LEMMA PutIsAnOutline ==
  ASSUME NEW list \in Outlines, NEW x \in Placing!Ids, NEW rec \in Placement
  PROVE  /\ Placing!Put(list, x, rec) \in Outlines
         /\ x \in DOMAIN list => [list EXCEPT ![x] = rec] \in Outlines
<1>1. \A y \in DOMAIN list : list[y] \in Placement BY OutlineIs
<1>2. DOMAIN list \subseteq Placing!Ids BY OutlineIs
<1>3. Placing!Put(list, x, rec) \in Outlines BY <1>1, <1>2, OutlineIs DEF Placing!Put
<1>4. ASSUME x \in DOMAIN list PROVE [list EXCEPT ![x] = rec] \in Outlines
  BY <1>1, <1>2, <1>4, OutlineIs
<1> QED BY <1>3, <1>4

LEMMA PutIsWishes ==
  ASSUME NEW w \in Wishes, NEW x \in Placing!Ids, NEW v \in Wish
  PROVE  /\ Placing!Put(w, x, v) \in Wishes
         /\ x \in DOMAIN w => [w EXCEPT ![x] = v] \in Wishes
<1>1. \A y \in DOMAIN w : w[y] \in Wish BY WishesAre
<1>2. DOMAIN w \subseteq Placing!Ids BY WishesAre
<1>3. Placing!Put(w, x, v) \in Wishes BY <1>1, <1>2, WishesAre DEF Placing!Put
<1>4. ASSUME x \in DOMAIN w PROVE [w EXCEPT ![x] = v] \in Wishes
  BY <1>1, <1>2, <1>4, WishesAre
<1> QED BY <1>3, <1>4

LEMMA WishIsChanged ==
  ASSUME NEW w \in Wish, NEW r \in Arguments,
         r.op \in {"collapse", "heading", "pin", "move"}
  PROVE  (IF r.op = "collapse" THEN [w EXCEPT !.collapsed = r.value]
          ELSE IF r.op = "heading" THEN [w EXCEPT !.heading = r.value]
          ELSE IF r.op = "pin" THEN [w EXCEPT !.pinned = r.value]
          ELSE [w EXCEPT !.parent = r.parent]) \in Wish
<1> USE ArgumentFields
<1>1. CASE r.op = "collapse" BY <1>1 DEF Wish
<1>2. CASE r.op = "heading" BY <1>2 DEF Wish
<1>3. CASE r.op = "pin" BY <1>3 DEF Wish
<1>4. CASE r.op = "move" BY <1>4 DEF Wish
<1> QED BY <1>1, <1>2, <1>3, <1>4

LEMMA PlaceWriteRecord ==
  ASSUME PlaceInv, NEW c \in Callers, Placing!WriteRecord(c)
  PROVE  PlaceInv'
<1> DEFINE r == call[c].arg
           list == call[c].items
           key == IF r.op = "move"
                    THEN Placing!orderAfter(Placing!Without(list, {r.id}), r.parent, r.after)
                    ELSE Placing!Changed(list[r.id], r).key
           rec == [Placing!Changed(list[r.id], r) EXCEPT !.key = key]
           there == r.id \in DOMAIN occ
           asked(w) == IF r.op = "collapse" THEN [w EXCEPT !.collapsed = r.value]
                       ELSE IF r.op = "heading" THEN [w EXCEPT !.heading = r.value]
                       ELSE IF r.op = "pin" THEN [w EXCEPT !.pinned = r.value]
                       ELSE [w EXCEPT !.parent = r.parent]
<1>1. /\ call[c].op \in {"collapse", "heading", "pin", "move"} /\ call[c].at = "read"
      /\ Placing!MayWrite(c) /\ batch' = batch /\ Placing!Overtake(c, {r.id}, Placing!Idle)
      /\ occ' = IF there THEN [occ EXCEPT ![r.id] = rec] ELSE occ
      /\ meant' = IF there THEN [meant EXCEPT ![r.id] = asked(meant[r.id])] ELSE meant
      /\ raced' = raced \cup ({r.id} \cap call[c].stale)
  BY ZenonT(40) DEF Placing!WriteRecord
<1>2. call[c] # Placing!Idle BY SMTT(40), <1>1 DEF Placing!Idle
<1>3. batch = None BY SMTT(40), <1>1, <1>2, AloneAfterwards DEF PlaceInv
<1>4. /\ r \in Arguments /\ r.op \in {"collapse", "heading", "pin", "move"}
      /\ list \in Outlines /\ r.id \in DOMAIN list
  BY <1>1, <1>2, PlaceCallFields DEF PlaceInv, CallsAreFormed, Formed
<1>5. r.id \in Placing!Ids /\ list[r.id] \in Placement BY <1>4, OutlineIs
<1>6. key \in Int
  <2>1. CASE r.op = "move" BY <1>4, <2>1, WithoutIsAnOutline, OrderAfterIsAKey
  <2>2. CASE r.op # "move"
    BY <1>4, <1>5, <2>2 DEF Placing!Changed, Placement
  <2> QED BY <2>1, <2>2
<1>7. rec \in Placement /\ Placing!Intent(rec) = asked(Placing!Intent(list[r.id]))
  <2> HIDE DEF key, list, r
  <2> QED BY <1>4, <1>5, <1>6, Rewritten
<1>8. /\ occ \in Outlines /\ meant \in Wishes /\ DOMAIN occ = DOMAIN meant
      /\ \A x \in DOMAIN occ \ raced : Placing!Intent(occ[x]) = meant[x]
  BY <1>3 DEF PlaceInv, PlaceTypeOK, Placing!PlacementsAreAsAsked
<1>9. ASSUME there PROVE asked(meant[r.id]) \in Wish
  BY <1>4, <1>8, <1>9, WishesAre, WishIsChanged
<1>10. ReadsAreStillSo BY SMTT(40) DEF PlaceInv
<1>11. StillSo(c) BY <1>1, <1>2, <1>10 DEF ReadsAreStillSo
<1> HIDE DEF rec, asked, key
<1>12. occ' \in Outlines /\ meant' \in Wishes
  BY <1>1, <1>5, <1>7, <1>8, <1>9, PutIsAnOutline, PutIsWishes
<1>13. Placing!PlacementsAreAsAsked'
  <2>1. CASE ~there BY <1>1, <1>8, <2>1 DEF Placing!PlacementsAreAsAsked
  <2>2. CASE there
    <3>1. DOMAIN occ' = DOMAIN meant' BY <1>1, <1>8, <2>2
    <3>2. ASSUME NEW x \in DOMAIN occ' \ raced' PROVE Placing!Intent(occ'[x]) = meant'[x]
      <4>1. x \in DOMAIN occ \ raced BY <1>1, <2>2, <3>2
      <4>2. CASE x = r.id
        <5>1. x \notin call[c].stale BY <1>1, <3>2, <4>2
        <5>2. occ[x] = list[x] BY <1>5, <1>11, <2>2, <4>2, <5>1 DEF StillSo
        <5>3. meant[r.id] = Placing!Intent(list[r.id]) BY <1>8, <4>1, <4>2, <5>2
        <5>4. occ'[x] = rec /\ meant'[x] = asked(meant[r.id])
          BY <1>1, <1>8, <2>2, <4>1, <4>2
        <5> QED BY <1>7, <5>3, <5>4
      <4>3. CASE x # r.id
        <5>1. occ'[x] = occ[x] /\ meant'[x] = meant[x] BY <1>1, <1>8, <2>2, <4>1, <4>3
        <5> QED BY <1>8, <4>1, <5>1
      <4> QED BY <4>2, <4>3
    <3> QED BY <3>1, <3>2 DEF Placing!PlacementsAreAsAsked
  <2> QED BY <2>1, <2>2
<1>14. \A y \in Placing!Ids \ {r.id} : /\ y \in DOMAIN occ' <=> y \in DOMAIN occ
                                       /\ y \in DOMAIN occ => occ'[y] = occ[y]
  BY <1>1
<1> HIDE DEF r, list
<1> QED BY <1>1, <1>2, <1>5, <1>12, <1>13, <1>14, PlaceWrites

LEMMA PlaceWriteNew ==
  ASSUME PlaceInv, NEW c \in Callers, Placing!WriteNew(c)
  PROVE  PlaceInv'
<1> DEFINE r == call[c].arg
           list == call[c].items
           new(x) == [work |-> IF r.op = "create" THEN x ELSE list[r.of].work,
                      parent |-> r.parent, key |-> Placing!orderAfter(list, r.parent, r.after),
                      collapsed |-> FALSE, heading |-> FALSE,
                      pinned |-> r.op = "place" /\ list[r.of].pinned]
<1>1. call[c].op \in {"create", "place"} /\ Placing!MayWrite(c) BY SMTT(40) DEF Placing!WriteNew
<1>2. PICK x \in Placing!Fresh :
        /\ occ' = Placing!Put(occ, x, new(x))
            /\ meant' = Placing!Put(meant, x, Placing!Intent(new(x)))
        /\ Placing!Overtake(c, {x}, Placing!Idle) /\ UNCHANGED <<trash, batch, calls, raced>>
  BY ZenonT(40) DEF Placing!WriteNew
<1>3. call[c] # Placing!Idle BY <1>1 DEF Placing!Idle
<1>4. call[c].at = "read" BY <1>1, <1>3, PlaceCallFields DEF PlaceInv, ReadFirst
<1>5. batch = None BY <1>1, <1>3, <1>4, AloneAfterwards DEF PlaceInv
<1>6. /\ r \in Arguments /\ r.op \in {"create", "place"} /\ list \in Outlines
      /\ r.op = "place" => r.of \in DOMAIN list
  BY SMTT(40), <1>1, <1>3, PlaceCallFields DEF PlaceInv, CallsAreFormed, Formed
<1>7. x \in Placing!Ids /\ x \in Nat BY <1>2, PlacesAssumption DEF Placing!Fresh, Placing!Ids
<1>8. new(x) \in Placement
  <2>1. r.parent \in PlaceIds BY <1>6, ArgumentFields
  <2>2. Placing!orderAfter(list, r.parent, r.after) \in Int BY <1>6, OrderAfterIsAKey
  <2>3. (r.op = "place" /\ list[r.of].pinned) \in BOOLEAN OBVIOUS
  <2>4. (IF r.op = "create" THEN x ELSE list[r.of].work) \in Nat
    BY SMTT(40), <1>6, <1>7, PlacementFields
  <2> HIDE DEF r, list
  <2> QED BY <2>1, <2>2, <2>3, <2>4 DEF Placement
<1> DEFINE o == new(x)
<1>9. /\ o \in Placement /\ Placing!Intent(o) \in Wish
      /\ occ' = Placing!Put(occ, x, o) /\ meant' = Placing!Put(meant, x, Placing!Intent(o))
  BY ZenonT(40), <1>2, <1>8, IntentIsWish
<1>10. /\ occ \in Outlines /\ meant \in Wishes /\ DOMAIN occ = DOMAIN meant
       /\ \A y \in DOMAIN occ \ raced : Placing!Intent(occ[y]) = meant[y]
  BY <1>5 DEF PlaceInv, PlaceTypeOK, Placing!PlacementsAreAsAsked
<1> HIDE DEF o
<1>11. occ' \in Outlines /\ meant' \in Wishes
  BY ZenonT(40), <1>7, <1>9, <1>10, PutIsAnOutline, PutIsWishes
<1>12. Placing!PlacementsAreAsAsked'
  BY ZenonT(40), <1>2, <1>9, <1>10 DEF Placing!PlacementsAreAsAsked, Placing!Put
<1>13. \A y \in Placing!Ids \ {x} : /\ y \in DOMAIN occ' <=> y \in DOMAIN occ
                                    /\ y \in DOMAIN occ => occ'[y] = occ[y]
  BY <1>9 DEF Placing!Put
<1>14. batch' = batch /\ Placing!Overtake(c, {x}, Placing!Idle) BY <1>2
<1> QED BY <1>1, <1>3, <1>4, <1>7, <1>11, <1>12, <1>13, <1>14, PlaceWrites

-----------------------------------------------------------------------------
(* Batches.                                                                *)

\* What is known of the call whose batch it is.
LEMMA BatchOf ==
  ASSUME PlaceInv, NEW c \in Callers, batch = c
  PROVE  /\ call[c] # Placing!Idle /\ call[c].at = "batch" /\ call[c].op \in Batched
         /\ call[c] \in PlaceCall /\ call[c].items \in Outlines /\ Formed(call[c])
         /\ call[c].arg \in Arguments /\ call[c].arg.op = call[c].op
         /\ call[c].left \in SUBSET DOMAIN occ
         /\ call[c].op = "delete" => call[c].arg.id \in DOMAIN occ
         /\ DOMAIN occ = DOMAIN call[c].items /\ DOMAIN meant = DOMAIN occ
         /\ DOMAIN occ \subseteq Placing!Ids
<1>1. call[c] # Placing!Idle /\ call[c].at = "batch" BY DEF PlaceInv, BatchIsOfItsCaller
<1>2. /\ call[c] \in PlaceCall /\ call[c].items \in Outlines
      /\ call[c].arg \in Arguments /\ call[c].arg.op = call[c].op
      /\ call[c].op \in Batched
  BY <1>1, PlaceCallFields DEF PlaceInv
<1>3. Formed(call[c]) BY <1>1 DEF PlaceInv, CallsAreFormed
<1>4. /\ DOMAIN occ = DOMAIN call[c].items /\ DOMAIN meant = DOMAIN occ
      /\ call[c].left \subseteq DOMAIN occ
  BY DEF PlaceInv, BatchIsUnderWay
<1>5. DOMAIN occ \subseteq Placing!Ids BY OutlineIs DEF PlaceInv, PlaceTypeOK
<1> QED BY <1>1, <1>2, <1>3, <1>4, <1>5 DEF Formed

LEMMA PlaceBeginBatch ==
  ASSUME PlaceInv, NEW c \in Callers, Placing!BeginBatch(c)
  PROVE  PlaceInv'
<1> USE DEF PlaceInv
<1>1. PICK r \in Placing!BatchRequests :
        call' = [call EXCEPT ![c] =
          [op |-> r.op, arg |-> r, at |-> "batch", items |-> occ, stale |-> {},
           left |-> CASE r.op = "delete" -> Placing!Children(occ, r.id)
                      [] r.op = "discard" -> r.ids \cap Placing!Discardable
                      [] OTHER -> r.ids]]
  BY DEF Placing!BeginBatch
<1>2. /\ call[c] = Placing!Idle /\ batch = None /\ batch' = c
      /\ UNCHANGED <<occ, meant, raced, blank>>
  BY DEF Placing!BeginBatch, Placing!MayBegin
<1>3. /\ occ \in Outlines /\ call \in [Callers -> PlaceCall \cup {Placing!Idle}]
      /\ DOMAIN occ \subseteq Placing!Ids
  BY OutlineIs DEF PlaceTypeOK
<1>4. /\ r \in Arguments /\ r.op \in Batched
      /\ r.op = "delete" => r.id \in DOMAIN occ
      /\ r.op # "delete" => r.ids \in SUBSET DOMAIN occ
  <2>1. CASE r \in [op : {"delete"}, id : DOMAIN occ]
    BY <1>3, <2>1 DEF Arguments, Batched
  <2>2. CASE r \in [op : {"discard"}, ids : (SUBSET DOMAIN occ) \ {{}}]
    BY <1>3, <2>2 DEF Arguments, Batched
  <2>3. CASE r \in [op : {"collapseAll"}, ids : (SUBSET DOMAIN occ) \ {{}}, value : BOOLEAN]
    BY <1>3, <2>3 DEF Arguments, Batched
  <2> QED BY <2>1, <2>2, <2>3 DEF Placing!BatchRequests
<1> DEFINE L == CASE r.op = "delete" -> Placing!Children(occ, r.id)
                  [] r.op = "discard" -> r.ids \cap Placing!Discardable
                  [] OTHER -> r.ids
           k == [op |-> r.op, arg |-> r, at |-> "batch", items |-> occ, stale |-> {},
                 left |-> L]
<1>5. /\ r.op = "delete" => L = Placing!Children(occ, r.id)
      /\ r.op = "discard" => L = r.ids \cap Placing!Discardable
      /\ r.op = "collapseAll" => L = r.ids
  OBVIOUS
<1> HIDE DEF L
<1>6. L \in SUBSET DOMAIN occ
  BY <1>4, <1>5 DEF Batched, Placing!Children, Placing!siblings, Placing!Discardable
<1>7. k \in PlaceCall /\ Formed(k)
  BY <1>3, <1>4, <1>6 DEF PlaceCall, Formed, Batched, ReadFirst
<1>8. k # Placing!Idle BY <1>7, PlaceCallIsNotIdle
<1>9. /\ k.op = r.op /\ k.arg = r /\ k.at = "batch" /\ k.items = occ /\ k.left = L
  OBVIOUS
<1>10. call' = [call EXCEPT ![c] = k] BY <1>1 DEF L
<1> HIDE DEF k
<1>11. call'[c] = k /\ \A d \in Callers \ {c} : call'[d] = call[d] BY <1>3, <1>10
<1>12. PlaceTypeOK' BY <1>2, <1>3, <1>7, <1>10 DEF PlaceTypeOK
<1>13. CallsAreFormed' BY <1>7, <1>11 DEF CallsAreFormed
<1>14. BatchIsOfItsCaller'
  <2>1. None \notin Callers BY PlacesAssumption
  <2> QED BY <1>2, <1>8, <1>9, <1>11, <2>1 DEF BatchIsOfItsCaller
<1>15. ReadsAreStillSo'
  BY <1>2, <1>9, <1>11 DEF ReadsAreStillSo, StillSo
<1>16. DOMAIN occ = DOMAIN meant /\ AsMeant(occ)
  BY <1>2 DEF Placing!PlacementsAreAsAsked, AsMeant
<1>17. BatchIsUnderWay'
  <2> SUFFICES /\ DOMAIN occ' = DOMAIN call'[c].items /\ DOMAIN meant' = DOMAIN occ'
               /\ call'[c].left \subseteq DOMAIN occ'
               /\ call'[c].op = "delete" => Promoting(c)'
               /\ call'[c].op = "discard" => Discarding(c)'
               /\ call'[c].op = "collapseAll" => Collapsing(c)'
    BY <1>2 DEF BatchIsUnderWay
  <2>1. ASSUME r.op = "delete" PROVE Promoting(c)'
    BY <1>2, <1>5, <1>9, <1>11, <1>16, <2>1
    DEF Promoting, AsMeant, Placing!Children, Placing!siblings
  <2>2. ASSUME r.op = "discard" PROVE Discarding(c)'
    BY <1>2, <1>5, <1>9, <1>11, <1>16, <2>2
    DEF Discarding, AsMeant, Placing!Discardable, Placing!Children, Placing!siblings
  <2>3. ASSUME r.op = "collapseAll" PROVE Collapsing(c)'
    BY <1>2, <1>9, <1>11, <1>16, <2>3 DEF Collapsing, AsMeant, ElseSame
  <2> QED BY <1>2, <1>6, <1>9, <1>11, <1>16, <2>1, <2>2, <2>3
<1>18. Placing!PlacementsAreAsAsked'
  BY <1>2, PlacesAssumption DEF Placing!PlacementsAreAsAsked
<1> QED BY <1>12, <1>13, <1>14, <1>15, <1>17, <1>18

LEMMA RecordIsCollapsed ==
  ASSUME NEW o \in Placement, NEW w \in Wish, NEW v \in BOOLEAN
  PROVE  /\ [o EXCEPT !.collapsed = v] \in Placement /\ [w EXCEPT !.collapsed = v] \in Wish
         /\ ElseSame([o EXCEPT !.collapsed = v], o)
         /\ \A i \in Placement :
              Placing!Intent(i) = w /\ ElseSame(i, o)
                => Placing!Intent([o EXCEPT !.collapsed = v]) = [w EXCEPT !.collapsed = v]
<1>1. [o EXCEPT !.collapsed = v] \in Placement /\ ElseSame([o EXCEPT !.collapsed = v], o)
  BY DEF Placement, ElseSame
<1>2. [w EXCEPT !.collapsed = v] \in Wish BY DEF Wish
<1>3. ASSUME NEW i \in Placement, Placing!Intent(i) = w, ElseSame(i, o)
      PROVE  Placing!Intent([o EXCEPT !.collapsed = v]) = [w EXCEPT !.collapsed = v]
  BY <1>3 DEF ElseSame, Placement, Wish, Placing!Intent
<1> QED BY <1>1, <1>2, <1>3

LEMMA RecordIsPromoted ==
  ASSUME NEW o \in Placement, NEW p \in PlaceIds, NEW key \in Int
  PROVE  /\ [o EXCEPT !.parent = p, !.key = key] \in Placement
         /\ Placing!Intent([o EXCEPT !.parent = p, !.key = key])
             = [Placing!Intent(o) EXCEPT !.parent = p]
<1> DEFINE rec == [o EXCEPT !.parent = p, !.key = key]
<1>1. rec \in Placement BY DEF Placement
<1>2. /\ rec.parent = p /\ rec.collapsed = o.collapsed /\ rec.heading = o.heading
      /\ rec.pinned = o.pinned
  BY DEF Placement
<1>3. [Placing!Intent(o) EXCEPT !.parent = p]
        = [parent |-> p, collapsed |-> o.collapsed, heading |-> o.heading,
           pinned |-> o.pinned]
  BY DEF Placing!Intent
<1> HIDE DEF rec
<1>4. Placing!Intent(rec) = [Placing!Intent(o) EXCEPT !.parent = p]
  BY <1>2, <1>3 DEF Placing!Intent
<1> QED BY <1>1, <1>4 DEF rec

\* A write of the batch, after which it goes on.
LEMMA BatchGoesOn ==
  ASSUME PlaceInv, NEW c \in Callers, batch = c, batch' = c, NEW x \in DOMAIN occ,
         NEW rec \in Placement, occ' = [occ EXCEPT ![x] = rec],
         Placing!Overtake(c, {x}, [call[c] EXCEPT !.left = @ \ {x}]), meant' \in Wishes
  PROVE  /\ PlaceTypeOK' /\ CallsAreFormed' /\ BatchIsOfItsCaller' /\ ReadsAreStillSo'
         /\ call'[c] = [call[c] EXCEPT !.left = @ \ {x}]
<1> DEFINE k == call[c]
           done == [k EXCEPT !.left = @ \ {x}]
<1>1. k \in PlaceCall /\ Formed(k) /\ k.at = "batch" /\ x \in Placing!Ids BY BatchOf
<1>2. done \in PlaceCall /\ Formed(done) /\ done.at = "batch"
  <2> HIDE DEF k
  <2> QED BY <1>1 DEF PlaceCall, Formed
<1>3. done # Placing!Idle BY <1>2, PlaceCallIsNotIdle
<1>4. Placing!Overtake(c, {x}, done) OBVIOUS
<1>5. \A y \in Placing!Ids \ {x} : /\ y \in DOMAIN occ' <=> y \in DOMAIN occ
                                   /\ y \in DOMAIN occ => occ'[y] = occ[y]
  OBVIOUS
<1>6. occ' \in Outlines BY <1>1, PutIsAnOutline DEF PlaceInv, PlaceTypeOK
<1> HIDE DEF done
<1>7. /\ call' \in [Callers -> PlaceCall \cup {Placing!Idle}] /\ CallsAreFormed'
      /\ BatchIsOfItsCaller' /\ ReadsAreStillSo'
      /\ call'[c] = done
  <2>1. /\ PlaceTypeOK /\ CallsAreFormed /\ BatchIsOfItsCaller /\ ReadsAreStillSo
        /\ batch \in {None, c} /\ batch' \in {None, c} /\ {x} \in SUBSET Placing!Ids
        /\ done \in PlaceCall \cup {Placing!Idle}
        /\ batch' = c <=> done # Placing!Idle /\ done.at = "batch"
    BY <1>1, <1>2, <1>3 DEF PlaceInv
  <2> QED BY <1>2, <1>4, <1>5, <2>1, OthersGoOn
<1>8. PlaceTypeOK' BY <1>6, <1>7 DEF PlaceTypeOK
<1> QED BY <1>7, <1>8 DEF done

\* A write with which the batch ends.
LEMMA BatchEnds ==
  ASSUME PlaceInv, NEW c \in Callers, batch = c, batch' = None, NEW X \in SUBSET Placing!Ids,
         Placing!Overtake(c, X, Placing!Idle), occ' \in Outlines, meant' \in Wishes,
         \A y \in Placing!Ids \ X : /\ y \in DOMAIN occ' <=> y \in DOMAIN occ
                                    /\ y \in DOMAIN occ => occ'[y] = occ[y],
         DOMAIN occ' = DOMAIN meant',
         \A y \in DOMAIN occ' \ raced' : Placing!Intent(occ'[y]) = meant'[y]
  PROVE  PlaceInv'
<1>1. None \notin Callers BY PlacesAssumption
<1>2. /\ call' \in [Callers -> PlaceCall \cup {Placing!Idle}] /\ CallsAreFormed'
      /\ BatchIsOfItsCaller' /\ ReadsAreStillSo'
  <2>1. /\ PlaceTypeOK /\ CallsAreFormed /\ BatchIsOfItsCaller /\ ReadsAreStillSo
        /\ batch \in {None, c} /\ batch' \in {None, c} /\ batch' # c
        /\ Placing!Idle \in PlaceCall \cup {Placing!Idle}
    BY <1>1 DEF PlaceInv
  <2> QED BY <2>1, OthersGoOn
<1>3. PlaceTypeOK' BY <1>2 DEF PlaceTypeOK
<1>4. BatchIsUnderWay' BY <1>1 DEF BatchIsUnderWay
<1>5. Placing!PlacementsAreAsAsked' BY DEF Placing!PlacementsAreAsAsked
<1> QED BY <1>2, <1>3, <1>4, <1>5 DEF PlaceInv

LEMMA PlacePromoteChild ==
  ASSUME PlaceInv, NEW c \in Callers, Placing!PromoteChild(c)
  PROVE  PlaceInv'
<1> DEFINE list == call[c].items
           x == call[c].arg.id
           child == Placing!First(list, call[c].left)
           p == list[x].parent
           key == Placing!orderAfter(Placing!workingSiblings(c), p, Placing!afterId(c))
           rec == [list[child] EXCEPT !.parent = p, !.key = key]
<1>1. /\ batch = c /\ call[c].op = "delete" /\ call[c].left # {}
      /\ occ' = [occ EXCEPT ![child] = rec]
      /\ Placing!Overtake(c, {child}, [call[c] EXCEPT !.left = @ \ {child}])
      /\ UNCHANGED <<blank, trash, batch, calls, meant, raced>>
  BY DEF Placing!PromoteChild
<1>2. /\ list \in Outlines /\ call[c].left \in SUBSET DOMAIN list /\ x \in DOMAIN list
      /\ DOMAIN occ = DOMAIN list /\ DOMAIN meant = DOMAIN occ /\ DOMAIN occ \subseteq Placing!Ids
      /\ call[c] \in PlaceCall
  BY <1>1, BatchOf
<1>3. child \in call[c].left BY <1>1, <1>2, FirstIs
<1>4. Promoting(c) BY <1>1 DEF PlaceInv, BatchIsUnderWay
<1>5. occ \in Outlines /\ meant \in Wishes BY DEF PlaceInv, PlaceTypeOK
<1>6. key \in Int
  <2>1. Placing!workingSiblings(c) \in Outlines
    BY <1>5, WithoutIsAnOutline DEF Placing!workingSiblings
  <2> QED BY <2>1, OrderAfterIsAKey
<1>7. list[child] \in Placement /\ p \in PlaceIds /\ child \in DOMAIN list
  BY <1>2, <1>3, PlacementFields
<1> HIDE DEF key
<1>8. /\ rec \in Placement
      /\ Placing!Intent(rec) = [Placing!Intent(list[child]) EXCEPT !.parent = p]
  <2> HIDE DEF list, child, p
  <2> QED BY ZenonT(40), <1>6, <1>7, RecordIsPromoted
<1> HIDE DEF rec, child
<1>9. /\ PlaceTypeOK' /\ CallsAreFormed' /\ BatchIsOfItsCaller' /\ ReadsAreStillSo'
      /\ call'[c] = [call[c] EXCEPT !.left = @ \ {child}]
  BY <1>1, <1>2, <1>5, <1>7, <1>8, BatchGoesOn
<1>10. /\ call'[c].op = "delete" /\ call'[c].arg = call[c].arg
       /\ call'[c].items = list /\ call'[c].left = call[c].left \ {child}
  <2> DEFINE k == call[c]
  <2>1. k \in PlaceCall BY <1>2
  <2>2. call'[c] = [k EXCEPT !.left = @ \ {child}] /\ k.op = "delete" BY <1>1, <1>9
  <2>3. /\ call'[c].op = "delete" /\ call'[c].arg = k.arg
        /\ call'[c].items = k.items /\ call'[c].left = k.left \ {child}
    <3> HIDE DEF k
    <3> QED BY <2>1, <2>2 DEF PlaceCall
  <2> QED BY <2>3
<1>11. Promoting(c)'
  <2>1. AsMeant(list)' BY <1>1, <1>4, <1>10 DEF Promoting, AsMeant
  <2>2. call'[c].left \subseteq Placing!Children(list, x) BY <1>4, <1>10 DEF Promoting
  <2>3. ASSUME NEW y \in DOMAIN list
        PROVE  IF y \in Placing!Children(list, x) \ call'[c].left
                 THEN Placing!Intent(occ'[y])
                      = [Placing!Intent(list[y]) EXCEPT !.parent = list[x].parent]
                 ELSE occ'[y] = list[y]
    <3>1. CASE y = child BY <1>1, <1>2, <1>3, <1>4, <1>8, <1>10, <3>1 DEF Promoting
    <3>2. CASE y # child
      <4>1. occ'[y] = occ[y] BY <1>1, <1>2, <3>2
      <4>2. y \in Placing!Children(list, x) \ call'[c].left
              <=> y \in Placing!Children(list, x) \ call[c].left
        BY <1>10, <3>2
      <4> QED BY <1>4, <4>1, <4>2 DEF Promoting
    <3> QED BY SMTT(40), <3>1, <3>2
  <2> QED BY <1>10, <2>1, <2>2, <2>3 DEF Promoting
<1>12. BatchIsUnderWay'
  <2>1. DOMAIN occ' = DOMAIN occ /\ meant' = meant /\ batch' = c BY <1>1
  <2> QED BY <1>2, <1>10, <1>11, <2>1 DEF BatchIsUnderWay
<1>13. Placing!PlacementsAreAsAsked'
  BY <1>1, PlacesAssumption DEF Placing!PlacementsAreAsAsked
<1> QED BY <1>9, <1>12, <1>13 DEF PlaceInv

LEMMA PlaceDelete ==
  ASSUME PlaceInv, NEW c \in Callers, Placing!DeleteItem(c)
  PROVE  PlaceInv'
<1> DEFINE list == call[c].items
           x == call[c].arg.id
<1>1. /\ batch = c /\ call[c].op = "delete" /\ call[c].left = {}
      /\ occ' = Placing!Without(occ, {x}) /\ batch' = None
          /\ Placing!Overtake(c, {x}, Placing!Idle)
      /\ meant' = [y \in DOMAIN occ \ {x} |->
                     IF meant[y].parent = x THEN [meant[y] EXCEPT !.parent = meant[x].parent]
                     ELSE meant[y]]
      /\ raced' = IF x \in raced THEN raced \cup Placing!Children(list, x) ELSE raced
  BY DEF Placing!DeleteItem, Placing!Remove
<1>2. /\ list \in Outlines /\ x \in DOMAIN list
      /\ DOMAIN occ = DOMAIN list /\ DOMAIN meant = DOMAIN occ /\ DOMAIN occ \subseteq Placing!Ids
  BY <1>1, BatchOf
<1>3. Promoting(c) BY <1>1 DEF PlaceInv, BatchIsUnderWay
<1>4. occ \in Outlines /\ meant \in Wishes BY DEF PlaceInv, PlaceTypeOK
<1>5. occ' \in Outlines BY <1>1, <1>4, WithoutIsAnOutline
<1>6. meant' \in Wishes
  <2>1. meant[x] \in Wish BY <1>2, <1>4, WishesAre
  <2>2. ASSUME NEW y \in DOMAIN occ \ {x} PROVE meant'[y] \in Wish
    <3>1. meant[y] \in Wish BY <1>2, <1>4, WishesAre
    <3>2. [meant[y] EXCEPT !.parent = meant[x].parent] \in Wish BY <2>1, <3>1 DEF Wish
    <3> QED BY <1>1, <3>1, <3>2
  <2>3. DOMAIN meant' = DOMAIN occ \ {x} /\ meant' = [y \in DOMAIN meant' |-> meant'[y]] BY <1>1
  <2> QED BY <1>2, <2>2, <2>3, WishesAre
<1>7. DOMAIN occ' = DOMAIN meant' BY <1>1 DEF Placing!Without
<1>8. ASSUME NEW y \in DOMAIN occ' \ raced' PROVE Placing!Intent(occ'[y]) = meant'[y]
  <2>1. y \in DOMAIN occ \ {x} /\ y \notin raced /\ occ'[y] = occ[y]
    BY <1>1, <1>8 DEF Placing!Without
  <2>2. Placing!Intent(list[y]) = meant[y] BY <1>2, <1>3, <2>1 DEF Promoting, AsMeant
  <2>3. meant[y].parent = list[y].parent BY <2>2 DEF Placing!Intent
  <2>4. CASE list[y].parent = x
    <3>1. y \in Placing!Children(list, x)
      BY <1>2, <2>1, <2>4 DEF Placing!Children, Placing!siblings
    <3>2. x \notin raced BY <1>1, <1>8, <3>1
    <3>3. Placing!Intent(list[x]) = meant[x] BY <1>2, <1>3, <3>2 DEF Promoting, AsMeant
    <3>4. meant[x].parent = list[x].parent BY SMTT(40), <3>3 DEF Placing!Intent
    <3>5. Placing!Intent(occ[y]) = [Placing!Intent(list[y]) EXCEPT !.parent = list[x].parent]
      BY <1>1, <1>2, <1>3, <2>1, <3>1 DEF Promoting
    <3>6. meant'[y] = [meant[y] EXCEPT !.parent = meant[x].parent]
      BY <1>1, <2>1, <2>3, <2>4
    <3> QED BY <2>1, <2>2, <3>4, <3>5, <3>6
  <2>5. CASE list[y].parent # x
    <3>1. y \notin Placing!Children(list, x) BY <2>5 DEF Placing!Children, Placing!siblings
    <3>2. occ[y] = list[y] BY <1>2, <1>3, <2>1, <3>1 DEF Promoting
    <3>3. meant'[y] = meant[y] BY <1>1, <2>1, <2>3, <2>5
    <3> QED BY <2>1, <2>2, <3>2, <3>3
  <2> QED BY <2>4, <2>5
<1>9. \A y \in Placing!Ids \ {x} : /\ y \in DOMAIN occ' <=> y \in DOMAIN occ
                                   /\ y \in DOMAIN occ => occ'[y] = occ[y]
  BY <1>1 DEF Placing!Without
<1>10. {x} \in SUBSET Placing!Ids BY <1>2
<1> HIDE DEF x, list
<1> QED BY <1>1, <1>5, <1>6, <1>7, <1>8, <1>9, <1>10, BatchEnds

LEMMA PlaceDiscard ==
  ASSUME PlaceInv, NEW c \in Callers, Placing!DiscardItems(c)
  PROVE  PlaceInv'
<1> DEFINE X == call[c].left
<1>1. /\ batch = c /\ call[c].op = "discard"
      /\ occ' = Placing!Without(occ, X) /\ batch' = None /\ Placing!Overtake(c, X, Placing!Idle)
      /\ meant' = Placing!Without(meant, call[c].arg.ids \cap Placing!Discardable)
          /\ raced' = raced
  BY DEF Placing!DiscardItems, Placing!Remove
<1>2. DOMAIN meant = DOMAIN occ /\ DOMAIN occ \subseteq Placing!Ids /\ X \in SUBSET DOMAIN occ
  BY <1>1, BatchOf
<1>3. Discarding(c) BY <1>1 DEF PlaceInv, BatchIsUnderWay
<1>4. occ \in Outlines /\ meant \in Wishes BY DEF PlaceInv, PlaceTypeOK
<1>5. occ' \in Outlines BY <1>1, <1>4, WithoutIsAnOutline
<1>6. meant' = Placing!Without(meant, X) BY <1>1, <1>3 DEF Discarding
<1>7. meant' \in Wishes
  <2>1. \A y \in DOMAIN meant \ X : meant[y] \in Wish BY <1>4, WishesAre
  <2> QED BY <1>2, <1>6, <2>1, WishesAre DEF Placing!Without
<1>8. DOMAIN occ' = DOMAIN meant' BY <1>1, <1>2, <1>6 DEF Placing!Without
<1>9. \A y \in DOMAIN occ' \ raced' : Placing!Intent(occ'[y]) = meant'[y]
  BY <1>1, <1>2, <1>3, <1>6 DEF Placing!Without, Discarding, AsMeant
<1>10. \A y \in Placing!Ids \ X : /\ y \in DOMAIN occ' <=> y \in DOMAIN occ
                                  /\ y \in DOMAIN occ => occ'[y] = occ[y]
  BY <1>1 DEF Placing!Without
<1>11. X \in SUBSET Placing!Ids BY <1>2
<1> HIDE DEF X
<1> QED BY <1>1, <1>5, <1>7, <1>8, <1>9, <1>10, <1>11, BatchEnds

LEMMA PlaceCollapse ==
  ASSUME PlaceInv, NEW c \in Callers, Placing!CollapseNext(c)
  PROVE  PlaceInv'
<1> DEFINE list == call[c].items
           v == call[c].arg.value
<1>1. batch = c /\ call[c].op = "collapseAll" BY DEF Placing!CollapseNext
<1>2. PICK x \in call[c].left :
        /\ occ' = [occ EXCEPT ![x] = [list[x] EXCEPT !.collapsed = v]]
        /\ meant' = [meant EXCEPT ![x].collapsed = v]
        /\ batch' = IF call[c].left = {x} THEN None ELSE batch
        /\ Placing!Overtake(c, {x}, IF call[c].left = {x} THEN Placing!Idle
                            ELSE [call[c] EXCEPT !.left = @ \ {x}])
        /\ raced' = raced
  BY DEF Placing!CollapseNext
<1> DEFINE rec == [list[x] EXCEPT !.collapsed = v]
<1>3. /\ list \in Outlines /\ x \in DOMAIN occ /\ v \in BOOLEAN /\ call[c] \in PlaceCall
      /\ DOMAIN occ = DOMAIN list /\ DOMAIN meant = DOMAIN occ /\ DOMAIN occ \subseteq Placing!Ids
      /\ call[c].left \in SUBSET DOMAIN occ
  BY <1>1, BatchOf, ArgumentFields
<1>4. Collapsing(c) BY <1>1 DEF PlaceInv, BatchIsUnderWay
<1>5. occ \in Outlines /\ meant \in Wishes BY DEF PlaceInv, PlaceTypeOK
<1>6. list[x] \in Placement /\ occ[x] \in Placement /\ meant[x] \in Wish
  BY <1>3, <1>5, OutlineIs, WishesAre
<1> DEFINE w == [meant[x] EXCEPT !.collapsed = v]
<1>7. rec \in Placement /\ w \in Wish /\ ElseSame(rec, list[x])
  <2> HIDE DEF list, v
  <2> QED BY <1>3, <1>6, RecordIsCollapsed
<1>8. x \notin raced => Placing!Intent(rec) = w
  <2>1. /\ x \notin raced => Placing!Intent(occ[x]) = meant[x]
        /\ ElseSame(occ[x], list[x])
    BY <1>3, <1>4 DEF Collapsing, AsMeant
  <2> HIDE DEF list, v
  <2> QED BY <1>3, <1>6, <2>1, RecordIsCollapsed
<1>9. occ' = [occ EXCEPT ![x] = rec] BY <1>2
<1>10. meant' = [meant EXCEPT ![x] = w] BY <1>2
<1> HIDE DEF rec, w
<1>11. occ' \in Outlines /\ meant' \in Wishes
  BY <1>3, <1>5, <1>7, <1>9, <1>10, PutIsAnOutline, PutIsWishes
<1>12. DOMAIN occ' = DOMAIN occ /\ DOMAIN meant' = DOMAIN occ BY <1>3, <1>9, <1>10
<1>13. \A y \in DOMAIN occ' \ raced' : Placing!Intent(occ'[y]) = meant'[y]
  BY <1>2, <1>3, <1>4, <1>8, <1>9, <1>10, <1>12 DEF Collapsing, AsMeant
<1>14. CASE call[c].left = {x}
  <2>1. batch' = None /\ Placing!Overtake(c, {x}, Placing!Idle) BY <1>2, <1>14
  <2>2. \A y \in Placing!Ids \ {x} : /\ y \in DOMAIN occ' <=> y \in DOMAIN occ
                                     /\ y \in DOMAIN occ => occ'[y] = occ[y]
    BY <1>9
  <2>3. {x} \in SUBSET Placing!Ids BY <1>3
  <2> QED BY <1>1, <1>11, <1>12, <1>13, <2>1, <2>2, <2>3, BatchEnds
<1>15. CASE call[c].left # {x}
  <2>1. batch' = c /\ Placing!Overtake(c, {x}, [call[c] EXCEPT !.left = @ \ {x}])
    BY <1>1, <1>2, <1>15
  <2>2. /\ PlaceTypeOK' /\ CallsAreFormed' /\ BatchIsOfItsCaller' /\ ReadsAreStillSo'
        /\ call'[c] = [call[c] EXCEPT !.left = @ \ {x}]
    BY <1>1, <1>3, <1>7, <1>9, <1>11, <2>1, BatchGoesOn
  <2>3. /\ call'[c].op = "collapseAll" /\ call'[c].arg = call[c].arg
        /\ call'[c].items = list /\ call'[c].left = call[c].left \ {x}
    <3> DEFINE k == call[c]
    <3>1. k \in PlaceCall /\ call'[c] = [k EXCEPT !.left = @ \ {x}] /\ k.op = "collapseAll"
      BY <1>1, <1>3, <2>2
    <3>2. /\ call'[c].op = "collapseAll" /\ call'[c].arg = k.arg
          /\ call'[c].items = k.items /\ call'[c].left = k.left \ {x}
      <4> HIDE DEF k
      <4> QED BY <3>1 DEF PlaceCall
    <3> QED BY <3>2
  <2>4. Collapsing(c)'
    <3>1. AsMeant(occ)' BY <1>13 DEF AsMeant
    <3>2. ASSUME NEW y \in DOMAIN occ' PROVE ElseSame(occ'[y], list[y])
      <4>1. CASE y = x BY <1>3, <1>7, <1>9, <4>1
      <4>2. CASE y # x BY <1>4, <1>9, <1>12, <3>2, <4>2 DEF Collapsing
      <4> QED BY <4>1, <4>2
    <3> QED BY <2>3, <3>1, <3>2 DEF Collapsing
  <2>5. BatchIsUnderWay'
    BY <1>3, <1>12, <2>1, <2>3, <2>4 DEF BatchIsUnderWay
  <2>6. Placing!PlacementsAreAsAsked' BY <2>1, PlacesAssumption DEF Placing!PlacementsAreAsAsked
  <2> QED BY <2>2, <2>5, <2>6 DEF PlaceInv
<1> QED BY <1>14, <1>15

LEMMA PlaceBatchFails ==
  ASSUME PlaceInv, NEW c \in Callers, Placing!BatchFails(c)
  PROVE  PlaceInv'
<1> DEFINE list == call[c].items
           X == {x \in DOMAIN occ : occ[x] # list[x]}
<1>1. /\ batch = c /\ batch' = None /\ occ' = list /\ Placing!Overtake(c, X, Placing!Idle)
      /\ meant' = IF call[c].op = "collapseAll"
                    THEN [x \in DOMAIN meant |->
                           [meant[x] EXCEPT !.collapsed = list[x].collapsed]]
                    ELSE meant
      /\ raced' = raced
  BY DEF Placing!BatchFails
<1>2. /\ list \in Outlines /\ call[c].op \in Batched
      /\ DOMAIN occ = DOMAIN list /\ DOMAIN meant = DOMAIN occ /\ DOMAIN occ \subseteq Placing!Ids
  BY <1>1, BatchOf
<1>3. X \in SUBSET Placing!Ids BY <1>2
<1>4. \A y \in Placing!Ids \ X : /\ y \in DOMAIN occ' <=> y \in DOMAIN occ
                                 /\ y \in DOMAIN occ => occ'[y] = occ[y]
  BY <1>1, <1>2
<1>5. meant \in Wishes BY DEF PlaceInv, PlaceTypeOK
<1>6. meant' \in Wishes
  <2>1. CASE call[c].op = "collapseAll"
    <3>1. ASSUME NEW x \in DOMAIN meant
          PROVE  [meant[x] EXCEPT !.collapsed = list[x].collapsed] \in Wish
      <4>1. meant[x] \in Wish /\ list[x].collapsed \in BOOLEAN
        BY <1>2, <1>5, PlacementFields, WishesAre
      <4> HIDE DEF list
      <4> QED BY <4>1 DEF Wish
    <3> QED BY <1>1, <1>2, <2>1, <3>1, WishesAre
  <2>2. CASE call[c].op # "collapseAll" BY <1>1, <1>5, <2>2
  <2> QED BY <2>1, <2>2
<1>7. DOMAIN occ' = DOMAIN meant' BY <1>1, <1>2
<1>8. ASSUME NEW y \in DOMAIN occ' \ raced' PROVE Placing!Intent(occ'[y]) = meant'[y]
  <2>1. y \in DOMAIN list /\ y \notin raced /\ occ'[y] = list[y] BY <1>1, <1>8
  <2>2. CASE call[c].op = "delete"
    <3>1. Promoting(c) BY <1>1, <2>2 DEF PlaceInv, BatchIsUnderWay
    <3> QED BY <1>1, <2>1, <2>2, <3>1 DEF Promoting, AsMeant
  <2>3. CASE call[c].op = "discard"
    <3>1. Discarding(c) BY <1>1, <2>3 DEF PlaceInv, BatchIsUnderWay
    <3> QED BY <1>1, <2>1, <2>3, <3>1 DEF Discarding, AsMeant
  <2>4. CASE call[c].op = "collapseAll"
    <3>1. Collapsing(c) BY <1>1, <2>4 DEF PlaceInv, BatchIsUnderWay
    <3>2. Placing!Intent(occ[y]) = meant[y] /\ ElseSame(occ[y], list[y])
      BY <1>2, <2>1, <3>1 DEF Collapsing, AsMeant
    <3>3. meant'[y] = [meant[y] EXCEPT !.collapsed = list[y].collapsed]
      BY <1>1, <1>2, <2>1, <2>4
    <3>4. occ \in Outlines BY DEF PlaceInv, PlaceTypeOK
    <3>5. meant[y] \in Wish /\ list[y] \in Placement /\ occ[y] \in Placement
      BY <1>2, <1>5, <2>1, <3>4, OutlineIs, WishesAre
    <3> HIDE DEF list
    <3>6. [meant[y] EXCEPT !.collapsed = list[y].collapsed] = Placing!Intent(list[y])
      BY <3>2, <3>5 DEF ElseSame, Placing!Intent, Placement, Wish
    <3> QED BY <2>1, <3>3, <3>6
  <2> QED BY <1>2, <2>2, <2>3, <2>4 DEF Batched
<1>9. occ' \in Outlines BY <1>1, <1>2
<1> HIDE DEF X, list
<1> QED BY <1>1, <1>3, <1>4, <1>6, <1>7, <1>8, <1>9, BatchEnds

-----------------------------------------------------------------------------
\* Every step of every caller, inside and outside a batch, keeps the invariant.
THEOREM PlacesInvariance == Placing!Spec => []PlaceInv
<1>1. Placing!Init => PlaceInv BY PlaceInitial
<1>2. PlaceInv /\ [Placing!Next]_Placing!vars => PlaceInv'
  <2> SUFFICES ASSUME PlaceInv, [Placing!Next]_Placing!vars PROVE PlaceInv' OBVIOUS
  <2>1. CASE UNCHANGED Placing!vars
    BY <2>1
    DEF Placing!vars, PlaceInv, PlaceTypeOK, CallsAreFormed, BatchIsOfItsCaller, ReadsAreStillSo,
        StillSo, BatchIsUnderWay, Promoting, Discarding, Collapsing, ElseSame, AsMeant,
        Placing!Discardable,
        Placing!PlacementsAreAsAsked
  <2>2. CASE Placing!Next
    <3>1. PICK c \in Callers :
            \/ Placing!Read(c) \/ Placing!WriteRecord(c) \/ Placing!WriteText(c)
                \/ Placing!WriteNew(c)
            \/ Placing!BeginBatch(c) \/ Placing!PromoteChild(c) \/ Placing!DeleteItem(c)
                \/ Placing!DiscardItems(c)
            \/ Placing!CollapseNext(c) \/ Placing!BatchFails(c)
      BY <2>2 DEF Placing!Next
    <3> QED BY <3>1, PlaceReads, PlaceWriteRecord, PlaceWriteText, PlaceWriteNew,
               PlaceBeginBatch, PlacePromoteChild, PlaceDelete, PlaceDiscard, PlaceCollapse,
               PlaceBatchFails
  <2> QED BY <2>1, <2>2
<1> QED BY <1>1, <1>2, PTL DEF Placing!Spec

\* A placement is where, and as, it was last asked to be, whatever the calls of other
\* callers in between, unless one was overwritten by a call that had read it before.
THEOREM PlacementsAreWhereTheyWereAsked == Placing!Spec => []EditsAreKept
<1>1. PlaceInv => EditsAreKept BY DEF PlaceInv, EditsAreKept
<1> QED BY <1>1, PlacesInvariance, PTL


-----------------------------------------------------------------------------
(* Powers of two, as the numbers of the subsets.                           *)

LEMMA NoneLeft == 2^Cardinality({}) = 1
<1>1. IsFiniteSet({}) BY FS_EmptySet
<1>2. Cardinality(SUBSET {}) = 2^Cardinality({}) BY <1>1, FS_SUBSET
<1>3. SUBSET {} = {{}} OBVIOUS
<1>4. Cardinality({{}}) = 1 BY FS_Singleton
<1> QED BY <1>2, <1>3, <1>4

LEMMA OneLess ==
  ASSUME NEW S, IsFiniteSet(S), NEW x \in S
  PROVE  /\ 2^Cardinality(S) = 2 * 2^Cardinality(S \ {x})
         /\ 2^Cardinality(S \ {x}) \in Nat \ {0}
<1> DEFINE A == SUBSET (S \ {x})
           B == {T \in SUBSET S : x \in T}
           f == [T \in A |-> T \cup {x}]
<1>1. IsFiniteSet(S \ {x}) BY FS_RemoveElement
<1>2. IsFiniteSet(A) /\ Cardinality(A) = 2^Cardinality(S \ {x}) BY <1>1, FS_SUBSET
<1>3. Cardinality(SUBSET S) = 2^Cardinality(S) BY FS_SUBSET
<1>4. f \in [A -> B] OBVIOUS
<1>5. \A T, U \in A : f[T] = f[U] => T = U
  <2> SUFFICES ASSUME NEW T \in A, NEW U \in A, T \cup {x} = U \cup {x} PROVE T = U
    OBVIOUS
  <2>1. T = (T \cup {x}) \ {x} /\ U = (U \cup {x}) \ {x} OBVIOUS
  <2> QED BY <2>1
<1>6. \A T \in B : \E U \in A : f[U] = T
  <2> SUFFICES ASSUME NEW T \in B PROVE \E U \in A : f[U] = T OBVIOUS
  <2>1. T \ {x} \in A /\ (T \ {x}) \cup {x} = T OBVIOUS
  <2> QED BY <2>1
<1>7. f \in Bijection(A, B)
  <2> HIDE DEF f, A, B
  <2> QED BY <1>4, <1>5, <1>6 DEF Bijection, Injection, Surjection, IsInjective
<1>8. IsFiniteSet(B) /\ Cardinality(B) = Cardinality(A)
  <2> HIDE DEF f, A, B
  <2> QED BY <1>2, <1>7, FS_Bijection DEF ExistsBijection
<1>9. A \cup B = SUBSET S /\ A \cap B = {} OBVIOUS
<1> HIDE DEF A, B
<1>10. Cardinality(SUBSET S) = Cardinality(A) + Cardinality(B) - Cardinality({})
  BY <1>2, <1>8, <1>9, FS_Union
<1>11. Cardinality({}) = 0 BY FS_EmptySet
<1>12. Cardinality(A) \in Nat BY <1>2, FS_CardinalityType
<1>13. Cardinality(A) # 0
  <2>1. {} \in A BY DEF A
  <2> QED BY <1>2, <2>1, FS_EmptySet
<1> QED BY <1>2, <1>3, <1>8, <1>10, <1>11, <1>12, <1>13

LEMMA PowerIs ==
  ASSUME NEW S, IsFiniteSet(S)
  PROVE  2^Cardinality(S) \in Nat \ {0}
<1>1. CASE S = {} BY <1>1, NoneLeft
<1>2. CASE S # {}
  <2>1. PICK x \in S : TRUE BY <1>2
  <2>2. /\ 2^Cardinality(S) = 2 * 2^Cardinality(S \ {x})
        /\ 2^Cardinality(S \ {x}) \in Nat \ {0}
    BY <2>1, OneLess
  <2> QED BY <2>2
<1> QED BY <1>1, <1>2

LEMMA TwoIs == 2^1 = 2
<1>1. Cardinality({0}) = 1 /\ IsFiniteSet({0}) BY FS_Singleton
<1>2. 2^Cardinality({0}) = 2 * 2^Cardinality({0} \ {0}) BY <1>1, OneLess
<1>3. {0} \ {0} = {} OBVIOUS
<1> QED BY <1>1, <1>2, <1>3, NoneLeft

-----------------------------------------------------------------------------
(* Where a new key stands.                                                 *)

\* What is known of a key for a place among S behind `after`; next are those behind it.
KeyStands(list, after, S, next, key) ==
  /\ key \in Int
  /\ after = None => \A y \in S : key <= list[y].key - ORDER_STEP
  /\ after # None /\ (after \notin S \/ next = {})
       => \A y \in S : list[y].key + ORDER_STEP <= key
  /\ after \in S /\ next # {} =>
       \E f \in next :
         /\ \A y \in next : list[f].key <= list[y].key
         /\ 2 * key <= list[after].key + list[f].key
         /\ list[after].key + list[f].key <= 2 * key + 1

ComingBehind(list, S, after) == {y \in S : after # None /\ Placing!Before(list, after, y)}

LEMMA OrderAfterStands ==
  ASSUME NEW list \in Outlines, NEW p, NEW after
  PROVE  KeyStands(list, after, Placing!siblings(list, p),
                   ComingBehind(list, Placing!siblings(list, p), after),
                   Placing!orderAfter(list, p, after))
<1> DEFINE S == Placing!siblings(list, p)
           key == Placing!orderAfter(list, p, after)
           next == ComingBehind(list, S, after)
<1> USE PlacesAssumption
<1>1. S \in SUBSET DOMAIN list /\ next \in SUBSET S BY DEF Placing!siblings, ComingBehind
<1>2. key \in Int BY OrderAfterIsAKey
<1>3. \A y \in S : list[y].key \in Int BY <1>1, PlacementFields
<1>4. ASSUME after = None, NEW y \in S PROVE key <= list[y].key - ORDER_STEP
  <2>1. key = list[Placing!First(list, S)].key - ORDER_STEP BY <1>4 DEF Placing!orderAfter
  <2>2. /\ Placing!First(list, S) \in S
        /\ y # Placing!First(list, S) => Placing!Before(list, Placing!First(list, S), y)
    BY <1>1, <1>4, FirstIs
  <2> QED BY <1>3, <2>1, <2>2 DEF Placing!Before
<1>5. ASSUME after # None, after \notin S \/ next = {}, NEW y \in S
      PROVE  list[y].key + ORDER_STEP <= key
  <2>1. key = list[Placing!Last(list, S)].key + ORDER_STEP
    BY <1>5 DEF Placing!orderAfter, ComingBehind
  <2>2. /\ Placing!Last(list, S) \in S
        /\ y # Placing!Last(list, S) => Placing!Before(list, y, Placing!Last(list, S))
    BY <1>1, <1>5, LastIs
  <2> QED BY <1>3, <2>1, <2>2 DEF Placing!Before
<1>6. ASSUME after \in S, next # {}
      PROVE  \E f \in next :
                /\ \A y \in next : list[f].key <= list[y].key
                /\ 2 * key <= list[after].key + list[f].key
                /\ list[after].key + list[f].key <= 2 * key + 1
  <2> DEFINE f == Placing!First(list, next)
  <2>1. next \in SUBSET DOMAIN list BY <1>1
  <2>2. f \in next /\ \A y \in next \ {f} : Placing!Before(list, f, y) BY <1>6, <2>1, FirstIs
  <2>3. after # None BY <1>6 DEF ComingBehind
  <2>4. key = (list[after].key + list[f].key) \div 2
    BY <1>6, <2>3 DEF Placing!orderAfter, ComingBehind
  <2> HIDE DEF f
  <2>5. \A y \in next : list[f].key <= list[y].key
    BY <1>1, <1>3, <2>2 DEF Placing!Before
  <2>6. list[after].key \in Int /\ list[f].key \in Int BY <1>1, <1>3, <1>6, <2>2
  <2>7. /\ 2 * key <= list[after].key + list[f].key
        /\ list[after].key + list[f].key <= 2 * key + 1
    BY <2>4, <2>6, HalfOfTwo
  <2> QED BY <2>2, <2>5, <2>7
<1> HIDE DEF S, key, next
<1>7. KeyStands(list, after, S, next, key) BY <1>2, <1>4, <1>5, <1>6 DEF KeyStands
<1> QED BY <1>7 DEF S, key, next

\* A record with such a key stands where it was asked to.
LEMMA StandsWhereAsked ==
  ASSUME NEW list \in Outlines, NEW x \in Placing!Ids, x \notin DOMAIN list,
         NEW rec \in Placement, NEW after \in PlaceIds,
         rec.key = Placing!orderAfter(list, rec.parent, after),
         Placing!Roomy(list, Placing!siblings(list, rec.parent), 1)
  PROVE  Placing!StandsAfter(Placing!Put(list, x, rec), x, after)
<1> DEFINE p == rec.parent
           S == Placing!siblings(list, p)
           o == Placing!Put(list, x, rec)
           next == {y \in S : after # None /\ Placing!Before(list, after, y)}
           key == rec.key
<1>1. /\ x \notin S /\ o[x] = rec /\ \A y \in S : y \in DOMAIN list /\ o[y] = list[y]
      /\ Placing!siblings(o, o[x].parent) \ {x} = S
  BY DEF Placing!Put, Placing!siblings
<1>2. S \subseteq Nat /\ \A y \in S : list[y].key \in Int BY <1>1, PlacementFields
<1>3. \A y, z \in S : y # z => list[y].key - list[z].key >= 2 \/ list[z].key - list[y].key >= 2
  BY TwoIs DEF Placing!Roomy
<1>4. /\ key \in Int
      /\ after = None => \A y \in S : key <= list[y].key - ORDER_STEP
      /\ after # None /\ (after \notin S \/ next = {})
           => \A y \in S : list[y].key + ORDER_STEP <= key
      /\ after \in S /\ next # {} =>
           \E f \in next :
             /\ \A y \in next : list[f].key <= list[y].key
             /\ 2 * key <= list[after].key + list[f].key
             /\ list[after].key + list[f].key <= 2 * key + 1
  <2>1. KeyStands(list, after, S, next, key) BY OrderAfterStands DEF ComingBehind
  <2> HIDE DEF S, next, key
  <2> QED BY <2>1 DEF KeyStands
<1>5. \A y, z \in S : Placing!Before(o, y, z) <=> Placing!Before(list, y, z)
  BY <1>1 DEF Placing!Before
<1>6. ORDER_STEP \in Nat \ {0} /\ None \notin S BY <1>2, PlacesAssumption, NamesAssumption
<1>7. ASSUME after \in S
      PROVE  /\ Placing!Before(o, after, x)
             /\ \A y \in S : Placing!Before(o, after, y) => Placing!Before(o, x, y)
  <2>1. after # None BY <1>6, <1>7
  <2>2. \A y \in S : y \in next <=> Placing!Before(o, after, y) BY <1>5, <1>7, <2>1
  <2>3. CASE next = {}
    <3>1. list[after].key < key BY <1>2, <1>4, <1>6, <1>7, <2>1, <2>3
    <3> HIDE DEF S, next, o
    <3> QED BY <1>1, <1>7, <2>2, <2>3, <3>1 DEF Placing!Before
  <2>4. CASE next # {}
    <3>1. PICK f \in next :
            /\ \A y \in next : list[f].key <= list[y].key
            /\ 2 * key <= list[after].key + list[f].key
            /\ list[after].key + list[f].key <= 2 * key + 1
      BY <1>4, <1>7, <2>4
    <3>2. Placing!Before(list, after, f) /\ f \in S BY <3>1
    <3>3. f # after BY <1>2, <1>7, <3>2 DEF Placing!Before
    <3>4. list[f].key - list[after].key >= 2 BY <1>2, <1>3, <1>7, <3>2, <3>3 DEF Placing!Before
    <3>5. list[after].key < key /\ key < list[f].key
      BY <1>2, <1>4, <1>7, <3>1, <3>2, <3>4
    <3>6. \A y \in next : key < list[y].key
      <4> SUFFICES ASSUME NEW y \in next PROVE key < list[y].key OBVIOUS
      <4>1. list[f].key <= list[y].key /\ list[y].key \in Int /\ list[f].key \in Int
        BY <1>2, <3>1, <3>2
      <4> QED BY <1>4, <3>5, <4>1
    <3>7. Placing!Before(o, after, x) BY <1>1, <1>7, <3>5 DEF Placing!Before
    <3>8. ASSUME NEW y \in S, Placing!Before(o, after, y) PROVE Placing!Before(o, x, y)
      <4>1. y \in next BY <2>2, <3>8
      <4>2. key < list[y].key BY <3>6, <4>1
      <4> QED BY <1>1, <4>2 DEF Placing!Before
    <3> QED BY <3>7, <3>8
  <2> QED BY <2>3, <2>4
<1>8. ASSUME after \notin S, NEW y \in S
      PROVE  IF after = None THEN Placing!Before(o, x, y) ELSE Placing!Before(o, y, x)
  <2>1. CASE after = None
    <3>1. key < list[y].key BY <1>2, <1>4, <1>6, <2>1
    <3> QED BY <1>1, <2>1, <3>1 DEF Placing!Before
  <2>2. CASE after # None
    <3>1. list[y].key < key BY <1>2, <1>4, <1>6, <1>8, <2>2
    <3> QED BY <1>1, <2>2, <3>1 DEF Placing!Before
  <2> QED BY <2>1, <2>2
<1>9. Placing!siblings(Placing!Put(list, x, rec), Placing!Put(list, x, rec)[x].parent) \ {x} = S
  BY SMTT(40), <1>1
<1> HIDE DEF S, next
<1> QED BY <1>7, <1>8, <1>9 DEF Placing!StandsAfter

-----------------------------------------------------------------------------
(* The children of a deleted item.                                         *)

\* What is known in a batch that deletes x, of its siblings S, its children C and
\* those that are done.
Promotion(list, o, x, p, S, C, done) ==
  /\ list \in Outlines /\ o \in Outlines /\ x \in DOMAIN list /\ DOMAIN o = DOMAIN list
  /\ x \in Nat /\ S \subseteq Nat /\ C \subseteq Nat
  /\ S \subseteq DOMAIN list /\ C \subseteq DOMAIN list /\ done \subseteq C
  /\ S \cap C = {} /\ x \notin C /\ x \notin S
  /\ \A y \in DOMAIN list : list[y].key \in Int
  /\ \A y \in S : o[y] = list[y]
  /\ \A y \in DOMAIN list : o[y].key \in Int
  /\ \A y \in DOMAIN list \ {x} : y \in S \cup done <=> o[y].parent = p

LEMMA InTheBatch ==
  ASSUME PlaceInv, NEW c \in Callers, batch = c, call[c].op = "delete",
         NEW list, list = call[c].items, NEW x, x = call[c].arg.id,
         NEW p, p = list[x].parent, p # x,
         NEW S, S = Placing!siblings(list, p) \ {x}, NEW C, C = Placing!Children(list, x)
  PROVE  /\ Promotion(list, occ, x, p, S, C, C \ call[c].left)
         /\ call[c].left \subseteq C
<1> DEFINE done == C \ call[c].left
<1>1. /\ list \in Outlines /\ x \in DOMAIN list /\ DOMAIN occ = DOMAIN list
  BY BatchOf
<1>2. Promoting(c) BY SMTT(40) DEF PlaceInv, BatchIsUnderWay
<1>3. call[c].left \subseteq C BY SMTT(40), <1>2 DEF Promoting
<1>4. /\ S \subseteq DOMAIN list /\ C \subseteq DOMAIN list
      /\ \A y \in C : list[y].parent = x
      /\ \A y \in S : list[y].parent = p
      /\ \A y \in DOMAIN list : list[y].parent = p /\ y # x => y \in S
  BY DEF Placing!siblings, Placing!Children
<1>5. S \cap C = {} /\ x \notin C /\ x \notin S
  <2>1. \A y \in C : list[y].parent # p BY ONLY <1>4, p # x
  <2>2. S \cap C = {} BY ONLY <1>4, <2>1
  <2>3. x \notin C BY ONLY <2>1, p = list[x].parent
  <2>4. x \notin S OBVIOUS
  <2> QED BY ONLY <2>2, <2>3, <2>4
<1>6. occ \in Outlines BY DEF PlaceInv, PlaceTypeOK
<1>7. \A y \in DOMAIN list : y \in Nat /\ list[y].key \in Int BY <1>1, PlacementFields
<1>8. \A y \in DOMAIN occ : occ[y].key \in Int BY SMTT(40), <1>6, PlacementFields
<1>9. \A y \in DOMAIN list \ done : occ[y] = list[y] BY <1>2 DEF Promoting
<1>10. \A y \in S : occ[y] = list[y] BY ZenonT(40), <1>4, <1>5, <1>9
<1>11. ASSUME NEW y \in DOMAIN list \ {x} PROVE y \in S \cup done <=> occ[y].parent = p
  <2>1. CASE y \in done
    <3>1. Placing!Intent(occ[y]) = [Placing!Intent(list[y]) EXCEPT !.parent = p]
      BY <1>2, <2>1 DEF Promoting
    <3>2. Placing!Intent(occ[y]).parent = occ[y].parent BY DEF Placing!Intent
    <3>3. [Placing!Intent(list[y]) EXCEPT !.parent = p].parent = p BY SMTT(40) DEF Placing!Intent
    <3> QED BY SMTT(40), <2>1, <3>1, <3>2, <3>3
  <2>2. CASE y \notin done BY <1>4, <1>9, <1>11, <2>2
  <2> QED BY SMTT(40), <2>1, <2>2
<1>12. done \subseteq C OBVIOUS
<1> HIDE DEF done
<1>13. Promotion(list, occ, x, p, S, C, done)
  BY ONLY <1>1, <1>4, <1>5, <1>6, <1>7, <1>8, <1>10, <1>11, <1>12 DEF Promotion
<1> QED BY <1>3, <1>13 DEF done

\* The siblings of the item and the room around it.
Around(list, x, S, n) ==
  \A y \in S : IF list[y].key < list[x].key THEN list[x].key - list[y].key >= n
               ELSE list[y].key - list[x].key >= n

LEMMA RoomAround ==
  ASSUME NEW list \in Outlines, NEW x \in DOMAIN list, NEW S \in SUBSET DOMAIN list,
         x \notin S, NEW n, Placing!Roomy(list, S \cup {x}, n), 2^n \in Nat \ {0}
  PROVE  Around(list, x, S, 2^n)
<1>1. list[x].key \in Int /\ \A y \in S : list[y].key \in Int BY PlacementFields
<1>2. \A y \in S : \/ list[x].key - list[y].key >= 2^n
                   \/ list[y].key - list[x].key >= 2^n
  BY DEF Placing!Roomy
<1> QED BY <1>1, <1>2 DEF Around

\* A key halfway into a gap of 2m, as integers round it.
LEMMA HalfTheGap ==
  ASSUME NEW a \in Int, NEW f \in Int, NEW key \in Int, NEW m \in Nat \ {0},
         f - a >= 2 * m, 2 * key <= a + f, a + f <= 2 * key + 1
  PROVE  a < key /\ f - key >= m
OBVIOUS

\* A key behind the last of the lower siblings L, with a gap of 2m behind that one.
Splits(W, L, G, a, m) ==
  /\ L \subseteq Nat /\ G \subseteq Nat
  /\ \A y \in L \cup G : W[y].key \in Int
  /\ L # {} => a \in L /\ \A y \in L \ {a} : Placing!Before(W, y, a)
  /\ \A y \in L, z \in G : W[z].key - W[y].key >= 2 * m
  /\ L = {} => a = None /\ m <= ORDER_STEP

Between(W, L, G, key, m) ==
  /\ key \in Int
  /\ \A y \in L : W[y].key < key
  /\ \A z \in G : W[z].key - key >= m

LEMMA KeyBetween ==
  ASSUME NEW W, NEW L, NEW G, NEW a, NEW m \in Nat \ {0}, Splits(W, L, G, a, m),
         NEW key, KeyStands(W, a, L \cup G, ComingBehind(W, L \cup G, a), key)
  PROVE  Between(W, L, G, key, m)
<1> USE DEF Splits, Between
<1> DEFINE next == ComingBehind(W, L \cup G, a)
<1>1. key \in Int BY DEF KeyStands
<1>2. ORDER_STEP \in Nat \ {0} /\ None \notin Nat BY PlacesAssumption, NamesAssumption
<1>3. CASE L = {}
  <2>1. \A z \in G : key <= W[z].key - ORDER_STEP BY <1>3 DEF KeyStands
  <2>2. ASSUME NEW z \in G PROVE W[z].key - key >= m
    <3> DEFINE k == W[z].key
    <3>1. k \in Int /\ key <= k - ORDER_STEP /\ m <= ORDER_STEP BY <1>3, <2>1
    <3> HIDE DEF k
    <3>2. k - key >= m BY ONLY <1>1, <1>2, <3>1, m \in Nat \ {0}
    <3> QED BY <3>2 DEF k
  <2> QED BY <1>1, <1>3, <2>2
<1>4. CASE L # {}
  <2>1. a \in L /\ a \in Nat /\ a # None BY <1>2, <1>4
  <2>2. W[a].key \in Int BY <2>1
  <2>3. \A y \in L : W[y].key <= W[a].key
    <3> SUFFICES ASSUME NEW y \in L, y # a PROVE W[y].key <= W[a].key BY <2>2
    <3>1. Placing!Before(W, y, a) /\ W[y].key \in Int BY <1>4
    <3> QED BY <2>2, <3>1 DEF Placing!Before
  <2>4. next = G
    <3>1. ASSUME NEW y \in G PROVE y \in next
      <4>1. W[y].key - W[a].key >= 2 * m /\ W[y].key \in Int BY <2>1
      <4>2. W[a].key < W[y].key
        <5> DEFINE k == W[y].key
                   l == W[a].key
        <5>1. k - l >= 2 * m /\ k \in Int /\ l \in Int BY <2>2, <4>1
        <5> HIDE DEF k, l
        <5>2. l < k BY ONLY <5>1, m \in Nat \ {0}
        <5> QED BY <5>2 DEF k, l
      <4> QED BY <2>1, <4>2 DEF ComingBehind, Placing!Before
    <3>2. ASSUME NEW y \in L PROVE y \notin next
      <4>1. y \in Nat /\ W[y].key \in Int OBVIOUS
      <4>2. ~ Placing!Before(W, a, y)
        <5>1. CASE y = a BY <2>1, <2>2, <5>1 DEF Placing!Before
        <5>2. CASE y # a
          <6>1. Placing!Before(W, y, a) BY <1>4, <5>2
          <6> QED BY ONLY <2>1, <2>2, <4>1, <6>1 DEF Placing!Before
        <5> QED BY <5>1, <5>2
      <4> QED BY <4>2 DEF ComingBehind
    <3>3. next \subseteq L \cup G BY DEF ComingBehind
    <3> HIDE DEF next
    <3> QED BY <3>1, <3>2, <3>3
  <2>5. KeyStands(W, a, L \cup G, G, key) BY <2>4
  <2>6. CASE G = {}
    <3>1. \A y \in L : W[y].key + ORDER_STEP <= key BY <2>1, <2>5, <2>6 DEF KeyStands
    <3>2. ASSUME NEW y \in L PROVE W[y].key < key
      <4>1. W[y].key \in Int /\ W[y].key + ORDER_STEP <= key BY <3>1
      <4> QED BY ONLY <1>1, <1>2, <4>1
    <3> QED BY <1>1, <2>6, <3>2
  <2>7. CASE G # {}
    <3>1. PICK f \in G :
            /\ \A y \in G : W[f].key <= W[y].key
            /\ 2 * key <= W[a].key + W[f].key
            /\ W[a].key + W[f].key <= 2 * key + 1
      BY <2>1, <2>5, <2>7 DEF KeyStands
    <3>2. W[f].key \in Int /\ W[f].key - W[a].key >= 2 * m BY <2>1
    <3>3. W[a].key < key /\ W[f].key - key >= m
      <4> DEFINE k == W[f].key
                 l == W[a].key
      <4>1. /\ k \in Int /\ l \in Int /\ k - l >= 2 * m
            /\ 2 * key <= l + k /\ l + k <= 2 * key + 1
        BY <2>2, <3>1, <3>2
      <4> HIDE DEF k, l
      <4>2. l < key /\ k - key >= m BY ONLY <1>1, <4>1, m \in Nat \ {0}, HalfTheGap
      <4> QED BY <4>2 DEF k, l
    <3>4. ASSUME NEW z \in G PROVE W[z].key - key >= m
      <4>1. W[z].key \in Int /\ W[f].key <= W[z].key BY <3>1
      <4> QED BY ONLY <1>1, <3>2, <3>3, <4>1, m \in Nat \ {0}
    <3>5. ASSUME NEW y \in L PROVE W[y].key < key
      <4>1. W[y].key \in Int /\ W[y].key <= W[a].key BY <2>3
      <4> QED BY ONLY <1>1, <2>2, <3>3, <4>1
    <3> QED BY <1>1, <3>4, <3>5
  <2> QED BY <2>6, <2>7
<1> QED BY <1>3, <1>4

\* The siblings and the promoted children, with room for r more behind the last child.
RoomLeft(list, o, x, S, done, r) ==
  /\ done = {} => Around(list, x, S, r) /\ r <= 2 * ORDER_STEP
  /\ \A d \in done, y \in S : IF list[y].key < list[x].key THEN list[y].key < o[d].key
                              ELSE list[y].key - o[d].key >= r
  /\ \A d, e \in done : Placing!Before(list, d, e) => o[d].key < o[e].key

Earlier(list, x, S) == {y \in S : list[y].key < list[x].key}

ComesAfter(list, x, S, done) ==
  IF done # {} THEN Placing!Last(list, done)
  ELSE IF Earlier(list, x, S) # {} THEN Placing!Last(list, Earlier(list, x, S)) ELSE None

\* The list W that a child is put into.
Listed(list, o, p, S, done, W) ==
  /\ W \in Outlines /\ Placing!siblings(W, p) = S \cup done
  /\ \A y \in S \cup done : W[y] = o[y] /\ W[y].key \in Int
  /\ \A y \in S : W[y].key = list[y].key

LEMMA SiblingsNow ==
  ASSUME NEW list, NEW o, NEW x, NEW p, NEW S, NEW C, NEW done,
         Promotion(list, o, x, p, S, C, done), NEW W, W = Placing!Without(o, {x})
  PROVE  Listed(list, o, p, S, done, W)
<1>1. W \in Outlines BY WithoutIsAnOutline DEF Promotion
<1>2. Placing!siblings(W, p) = S \cup done BY DEF Promotion, Placing!Without, Placing!siblings
<1>3. \A y \in S \cup done : W[y] = o[y] BY DEF Promotion, Placing!Without
<1>4. \A y \in S \cup done : o[y].key \in Int BY DEF Promotion
<1>5. \A y \in S : o[y] = list[y] BY DEF Promotion
<1> QED BY <1>1, <1>2, <1>3, <1>4, <1>5 DEF Listed

\* a is the last of the lower siblings L in W.
LastIn(W, L, a) ==
  /\ L # {} => a \in L /\ \A y \in L \ {a} : Placing!Before(W, y, a)
  /\ L = {} => a = None

LEMMA LastOfTheLower ==
  ASSUME NEW list, NEW o, NEW x, NEW p, NEW S, NEW C, NEW done,
         Promotion(list, o, x, p, S, C, done), NEW W, W = Placing!Without(o, {x}),
         NEW r, RoomLeft(list, o, x, S, done, r),
         NEW a, a = ComesAfter(list, x, S, done),
         NEW L, L = Earlier(list, x, S) \cup done
  PROVE  LastIn(W, L, a)
<1>1. list \in Outlines /\ S \subseteq DOMAIN list /\ done \subseteq DOMAIN list
  BY DEF Promotion
<1>2. /\ \A y \in S \cup done : W[y] = o[y]
      /\ \A y \in S : W[y].key = list[y].key
  <2>1. Listed(list, o, p, S, done, W)
    BY ONLY Promotion(list, o, x, p, S, C, done), W = Placing!Without(o, {x}), SiblingsNow
  <2> QED BY ONLY <2>1 DEF Listed
<1>3. CASE done # {}
  <2>1. a = Placing!Last(list, done) BY <1>3 DEF ComesAfter
  <2>2. a \in done /\ \A d \in done \ {a} : Placing!Before(list, d, a)
    BY <1>1, <1>3, <2>1, LastIs
  <2>3. \A d \in done \ {a} : o[d].key < o[a].key BY <2>2 DEF RoomLeft
  <2>4. \A y \in Earlier(list, x, S) : y \in S /\ list[y].key < o[a].key
    BY <2>2 DEF RoomLeft, Earlier
  <2>5. \A y \in L \ {a} : W[y].key < W[a].key
    BY ONLY <1>2, <2>2, <2>3, <2>4, L = Earlier(list, x, S) \cup done
  <2> QED BY <2>2, <2>5 DEF Placing!Before, LastIn
<1>4. CASE done = {}
  <2>1. L = Earlier(list, x, S) /\ L \subseteq S BY <1>4 DEF Earlier
  <2>2. L # {} => a = Placing!Last(list, L) BY ONLY <1>4, <2>1, a = ComesAfter(list, x, S, done)
                                     DEF ComesAfter
  <2>3. L = {} => a = None BY ONLY <1>4, <2>1, a = ComesAfter(list, x, S, done)
                              DEF ComesAfter
  <2>4. L # {} => a \in L /\ \A y \in L \ {a} : Placing!Before(list, y, a)
    BY ONLY <1>1, <2>1, <2>2, LastIs
  <2> QED BY ONLY <1>2, <2>1, <2>3, <2>4 DEF Placing!Before, LastIn
<1> QED BY <1>3, <1>4

\* The gap is as wide as that.
LEMMA GapOfTwo ==
  ASSUME NEW list, NEW o, NEW x, NEW p, NEW S, NEW C, NEW done,
         Promotion(list, o, x, p, S, C, done),
         NEW r \in Nat \ {0}, RoomLeft(list, o, x, S, done, r),
         NEW y \in Earlier(list, x, S) \cup done, NEW z \in S \ Earlier(list, x, S)
  PROVE  list[z].key - o[y].key >= r
<1>1. z \in S /\ ~(list[z].key < list[x].key) BY DEF Earlier
<1>2. CASE y \in done BY <1>1, <1>2 DEF RoomLeft
<1>3. CASE y \in Earlier(list, x, S)
  <2> DEFINE u == list[x].key
             v == list[y].key
             w == list[z].key
  <2>1. y \in S /\ v < u BY <1>3 DEF Earlier
  <2>2. u \in Int /\ v \in Int /\ w \in Int /\ o[y] = list[y] BY <1>1, <2>1 DEF Promotion
  <2>3. w - v >= r
    <3>1. CASE done = {}
      <4>1. Around(list, x, S, r) BY <3>1 DEF RoomLeft
      <4>2. u - v >= r /\ w - u >= r BY <1>1, <2>1, <4>1 DEF Around
      <4> HIDE DEF u, v, w
      <4> QED BY ONLY <2>2, <4>2, r \in Nat \ {0}
    <3>2. CASE done # {}
      <4>1. PICK d \in done : TRUE BY <3>2
      <4> DEFINE t == o[d].key
      <4>2. t \in Int BY <4>1 DEF Promotion
      <4>3. v < t /\ w - t >= r BY <1>1, <2>1 DEF RoomLeft
      <4> HIDE DEF t, v, w
      <4> QED BY ONLY <2>2, <4>2, <4>3, r \in Nat \ {0}
    <3> QED BY <3>1, <3>2
  <2> QED BY <2>2, <2>3
<1> QED BY <1>2, <1>3

\* The key of the next promoted child.
KeyInPlace(list, o, x, S, done, key, m) ==
  /\ key \in Int
  /\ \A y \in S : IF list[y].key < list[x].key THEN list[y].key < key
                  ELSE list[y].key - key >= m
  /\ \A d \in done : o[d].key < key

LEMMA PromotedKey ==
  ASSUME NEW list, NEW o, NEW x, NEW p, NEW S, NEW C, NEW done,
         Promotion(list, o, x, p, S, C, done),
         NEW m \in Nat \ {0}, RoomLeft(list, o, x, S, done, 2 * m),
         NEW key,
           key = Placing!orderAfter(Placing!Without(o, {x}), p, ComesAfter(list, x, S, done))
  PROVE  KeyInPlace(list, o, x, S, done, key, m)
<1> DEFINE W == Placing!Without(o, {x})
           a == ComesAfter(list, x, S, done)
           E == Earlier(list, x, S)
           G == S \ E
           L == E \cup done
<1>0. W = Placing!Without(o, {x}) /\ a = ComesAfter(list, x, S, done) /\ L = E \cup done
  OBVIOUS
<1>1. /\ W \in Outlines /\ Placing!siblings(W, p) = S \cup done
      /\ \A y \in S \cup done : W[y] = o[y] /\ W[y].key \in Int
      /\ \A y \in S : W[y].key = list[y].key
  <2> HIDE DEF W
  <2>1. Listed(list, o, p, S, done, W)
    BY ONLY Promotion(list, o, x, p, S, C, done), <1>0, SiblingsNow
  <2> QED BY ONLY <2>1 DEF Listed
<1>2. /\ L # {} => a \in L /\ \A y \in L \ {a} : Placing!Before(W, y, a)
      /\ L = {} => a = None
  <2>1. L = Earlier(list, x, S) \cup done OBVIOUS
  <2> HIDE DEF W, a, L, E
  <2>2. LastIn(W, L, a)
    BY ONLY Promotion(list, o, x, p, S, C, done), RoomLeft(list, o, x, S, done, 2 * m),
            <1>0, <2>1, LastOfTheLower
  <2> QED BY ONLY <2>2 DEF LastIn
<1>3. m <= ORDER_STEP \/ L # {}
  <2>1. ORDER_STEP \in Nat \ {0} BY PlacesAssumption
  <2>2. done = {} => 2 * m <= 2 * ORDER_STEP BY DEF RoomLeft
  <2>3. 2 * m <= 2 * ORDER_STEP => m <= ORDER_STEP BY ONLY <2>1, m \in Nat \ {0}
  <2> QED BY <2>2, <2>3
<1>4. L = {} => a = None /\ m <= ORDER_STEP
  <2> HIDE DEF W, a, L, E
  <2> QED BY ONLY <1>2, <1>3
<1>5. 2 * m \in Nat \ {0} OBVIOUS
<1>6. \A y \in L, z \in G : list[z].key - o[y].key >= 2 * m BY <1>5, GapOfTwo
<1>7. E \subseteq S /\ \A y \in S : y \in E <=> list[y].key < list[x].key BY DEF Earlier
<1>8. L \cup G = S \cup done /\ L \subseteq Nat /\ G \subseteq Nat /\ G \subseteq S
  BY <1>7 DEF Promotion
<1>9. KeyStands(W, a, Placing!siblings(W, p), ComingBehind(W, Placing!siblings(W, p), a), key)
  BY <1>1, OrderAfterStands
<1> HIDE DEF W, a, E
<1>10. KeyStands(W, a, L \cup G, ComingBehind(W, L \cup G, a), key)
  <2> HIDE DEF L, G
  <2> QED BY ONLY <1>1, <1>8, <1>9
<1>11. \A y \in L \cup G : W[y].key \in Int
  <2> HIDE DEF L, G
  <2> QED BY ONLY <1>1, <1>8
<1>12. \A y \in L, z \in G : W[z].key - W[y].key >= 2 * m
  <2>1. \A z \in G : W[z].key = list[z].key BY ONLY <1>1, <1>8
  <2>2. \A y \in L : W[y].key = o[y].key BY ONLY <1>1, <1>7
  <2> HIDE DEF L, G
  <2> QED BY ONLY <1>6, <2>1, <2>2
<1>13. /\ key \in Int
       /\ \A y \in L : W[y].key < key
       /\ \A z \in G : W[z].key - key >= m
  <2> HIDE DEF L, G
  <2>1. Splits(W, L, G, a, m) BY ONLY <1>2, <1>4, <1>8, <1>11, <1>12 DEF Splits
  <2>2. Between(W, L, G, key, m) BY ONLY <1>10, <2>1, m \in Nat \ {0}, KeyBetween
  <2> QED BY ONLY <2>2 DEF Between
<1>14. \A d \in done : o[d].key < key BY ONLY <1>1, <1>13
<1>15. ASSUME NEW y \in S
       PROVE  IF list[y].key < list[x].key THEN list[y].key < key
              ELSE list[y].key - key >= m
  <2>1. W[y].key = list[y].key BY ONLY <1>1, <1>15
  <2>2. CASE y \in E
    <3>1. list[y].key < list[x].key BY <1>7, <2>2
    <3>2. list[y].key < key BY ONLY <1>13, <2>1, <2>2
    <3> QED BY ONLY <3>1, <3>2
  <2>3. CASE y \notin E
    <3>1. ~(list[y].key < list[x].key) BY <1>7, <2>3
    <3>2. list[y].key - key >= m BY ONLY <1>13, <1>15, <2>1, <2>3
    <3> QED BY ONLY <3>1, <3>2
  <2> QED BY <2>2, <2>3
<1> QED BY ONLY <1>13, <1>14, <1>15 DEF KeyInPlace

\* With its key, the child stands among the promoted ones.
LEMMA OneMoreInPlace ==
  ASSUME NEW list, NEW o, NEW x, NEW p, NEW S, NEW C, NEW done,
         Promotion(list, o, x, p, S, C, done),
         NEW left, left \subseteq C, done = C \ left, NEW child \in left,
         \A e \in left \ {child} : Placing!Before(list, child, e),
         NEW m \in Nat \ {0}, InPlace(list, o, x, S, done, left, 2 * m),
         done = {} => Around(list, x, S, 2 * m) /\ 2 * m <= 2 * ORDER_STEP,
         NEW key,
           key = Placing!orderAfter(Placing!Without(o, {x}), p, ComesAfter(list, x, S, done)),
         NEW o2, o2[child].key = key, \A y \in done : o2[y] = o[y]
  PROVE  InPlace(list, o2, x, S, C \ (left \ {child}), left \ {child}, m)
<1>1. RoomLeft(list, o, x, S, done, 2 * m) BY DEF RoomLeft, InPlace
<1>2. /\ key \in Int
      /\ \A y \in S : IF list[y].key < list[x].key THEN list[y].key < key
                      ELSE list[y].key - key >= m
      /\ \A d \in done : o[d].key < key
  <2>1. KeyInPlace(list, o, x, S, done, key, m)
    BY ONLY <1>1, Promotion(list, o, x, p, S, C, done), m \in Nat \ {0},
            key = Placing!orderAfter(Placing!Without(o, {x}), p, ComesAfter(list, x, S, done)),
            PromotedKey
  <2> QED BY ONLY <2>1 DEF KeyInPlace
<1>3. C \ (left \ {child}) = done \cup {child} OBVIOUS
<1>4. /\ \A y \in S : list[y].key \in Int
      /\ \A d \in done : o[d].key \in Int
  BY DEF Promotion
<1>5. ASSUME NEW d \in done \cup {child}, NEW y \in S
      PROVE  IF list[y].key < list[x].key THEN list[y].key < o2[d].key
             ELSE list[y].key - o2[d].key >= m
  <2>1. CASE d = child BY ONLY <1>2, <2>1, o2[child].key = key, y \in S
  <2>2. CASE d # child
    <3>1. d \in done /\ o2[d] = o[d] BY <2>2
    <3>2. IF list[y].key < list[x].key THEN list[y].key < o[d].key
          ELSE list[y].key - o[d].key >= 2 * m
      BY <3>1 DEF InPlace
    <3>3. list[y].key \in Int /\ o[d].key \in Int BY ONLY <1>4, <3>1, y \in S
    <3> DEFINE k == list[y].key
               l == o[d].key
    <3>4. k - l >= 2 * m => k - l >= m
      <4>1. k \in Int /\ l \in Int BY <3>3
      <4> HIDE DEF k, l
      <4> QED BY ONLY <4>1, m \in Nat \ {0}
    <3> QED BY ONLY <3>1, <3>2, <3>4
  <2> QED BY <2>1, <2>2
<1>6. /\ \A d, e \in DOMAIN list : Placing!Before(list, d, e) => ~Placing!Before(list, e, d)
      /\ done \cup left \subseteq DOMAIN list
  <2>1. list \in Outlines /\ C \subseteq DOMAIN list /\ done \subseteq C BY DEF Promotion
  <2> QED BY <2>1, BeforeIsAnOrder
<1>7. ASSUME NEW d \in done \cup {child}, NEW e \in done \cup {child}, Placing!Before(list, d, e)
      PROVE  o2[d].key < o2[e].key
  <2>1. CASE d \in done /\ e \in done BY <1>7, <2>1 DEF InPlace
  <2>2. CASE d \in done /\ e = child BY ONLY <1>2, <2>2, o2[child].key = key,
                                             \A y \in done : o2[y] = o[y]
  <2>3. CASE d = child /\ e \in done
    <3>1. Placing!Before(list, e, child) BY <2>3 DEF InPlace
    <3> QED BY ONLY <1>6, <1>7, <2>3, <3>1, child \in left
  <2>4. CASE d = child /\ e = child BY ONLY <1>6, <1>7, <2>4, child \in left
  <2> QED BY <2>1, <2>2, <2>3, <2>4
<1>8. ASSUME NEW d \in done \cup {child}, NEW e \in left \ {child}
      PROVE  Placing!Before(list, d, e)
  BY DEF InPlace
<1> QED BY ONLY <1>3, <1>5, <1>7, <1>8 DEF InPlace

LEMMA OrderPromoteChild ==
  ASSUME OrderInv, NEW c \in Callers, Placing!PromoteChild(c)
  PROVE  ChildrenAreInOrder'
<1> DEFINE list == call[c].items
           x == call[c].arg.id
           left == call[c].left
           child == Placing!First(list, left)
           p == list[x].parent
           S == Placing!siblings(list, p) \ {x}
           C == Placing!Children(list, x)
           done == C \ left
           n == Cardinality(C)
           key == Placing!orderAfter(Placing!workingSiblings(c), p, Placing!afterId(c))
           m == 2^Cardinality(left \ {child})
<1>1. /\ batch = c /\ call[c].op = "delete" /\ left # {}
      /\ occ' = [occ EXCEPT ![child] = [list[child] EXCEPT !.parent = p, !.key = key]]
      /\ batch' = c
      /\ call' = [d \in Callers |->
                    IF d = c THEN [call[c] EXCEPT !.left = @ \ {child}]
                    ELSE IF call[d] = Placing!Idle THEN Placing!Idle
                    ELSE [call[d] EXCEPT !.stale = @ \cup {child}]]
  BY DEF Placing!PromoteChild, Placing!Overtake
<1>2. PlaceInv /\ InOrder(c) BY <1>1 DEF OrderInv, ChildrenAreInOrder
<1>3. /\ list \in Outlines /\ left \in SUBSET DOMAIN list /\ x \in DOMAIN list
      /\ DOMAIN occ = DOMAIN list /\ DOMAIN occ \subseteq Placing!Ids
      /\ call[c] \in PlaceCall
  BY <1>1, <1>2, BatchOf
<1>4. child \in left /\ \A e \in left \ {child} : Placing!Before(list, child, e)
  BY <1>1, <1>3, FirstIs
<1>5. /\ call'[c].op = "delete" /\ call'[c].arg = call[c].arg
      /\ call'[c].items = list /\ call'[c].left = left \ {child}
  <2> DEFINE k == call[c]
             z == left \ {child}
  <2>1. k \in PlaceCall /\ k.op = "delete" /\ call'[c] = [k EXCEPT !.left = z] BY <1>1, <1>3
  <2>2. /\ call'[c].op = "delete" /\ call'[c].arg = k.arg
        /\ call'[c].items = k.items /\ call'[c].left = z
    <3> HIDE DEF k, z
    <3> QED BY <2>1 DEF PlaceCall
  <2> QED BY <2>2
<1>6. ASSUME Placing!Roomy(list, S \cup {x}, n), 2^n <= 2 * ORDER_STEP, p # x
      PROVE  InPlace(list, occ', x, S, C \ (left \ {child}), left \ {child}, m)
  <2>1. InPlace(list, occ, x, S, done, left, 2^Cardinality(left))
    BY <1>2, <1>6 DEF InOrder
  <2>2. Promotion(list, occ, x, p, S, C, done) /\ left \subseteq C
    <3>1. /\ list = call[c].items /\ x = call[c].arg.id /\ p = list[x].parent /\ p # x
          /\ S = Placing!siblings(list, p) \ {x} /\ C = Placing!Children(list, x)
          /\ batch = c /\ call[c].op = "delete"
      BY SMTT(40), <1>1, <1>6
    <3> HIDE DEF list, x, S, C, p
    <3>2. /\ Promotion(list, occ, x, p, S, C, C \ call[c].left)
          /\ call[c].left \subseteq C
      BY ONLY <1>2, <3>1, c \in Callers, InTheBatch
    <3> QED BY SMTT(40), <3>2
  <2>3. 2^Cardinality(left) = 2 * m /\ m \in Nat \ {0}
    BY <1>3, <1>4, SomeIds, OneLess
  <2>4. ASSUME done = {} PROVE Around(list, x, S, 2 * m) /\ 2 * m <= 2 * ORDER_STEP
    <3>1. C = left BY <2>2, <2>4
    <3>2. 2^n = 2 * m /\ 2^n \in Nat \ {0} BY <2>3, <3>1
    <3>3. S \in SUBSET DOMAIN list /\ x \notin S BY <2>2 DEF Promotion
    <3> HIDE DEF list, x, S, n, m
    <3>4. Around(list, x, S, 2^n) BY <1>3, <1>6, <3>2, <3>3, RoomAround
    <3> QED BY <1>6, <3>2, <3>4
  <2>5. key = Placing!orderAfter(Placing!Without(occ, {x}), p, ComesAfter(list, x, S, done))
    <3>1. x \notin done BY <2>2 DEF Promotion
    <3>2. Placing!workingSiblings(c) = Placing!Without(occ, {x} \ done)
      BY DEF Placing!workingSiblings
    <3>3. Placing!afterId(c) = ComesAfter(list, x, S, done)
      BY DEF Placing!afterId, ComesAfter, Earlier
    <3>4. {x} \ done = {x} BY <3>1
    <3> HIDE DEF list, x, p, S, done
    <3> QED BY SMTT(40), <3>2, <3>3, <3>4
  <2>6. /\ child \in DOMAIN occ /\ list[child] \in Placement
        /\ child \notin done
    BY <1>3, <1>4, PlacementFields, OutlineIs
  <2>7. occ'[child].key = key
    <3> HIDE DEF key, list, child, p
    <3> QED BY <1>1, <2>6 DEF Placement
  <2>8. \A y \in done : occ'[y] = occ[y]
    <3>1. done \subseteq DOMAIN occ BY <1>3, <2>2 DEF Promotion
    <3> HIDE DEF key, list, child, p, done
    <3> QED BY <1>1, <2>6, <3>1
  <2>9. done = C \ left OBVIOUS
  <2> HIDE DEF list, x, left, child, p, S, C, done, n, key, m
  <2>10. InPlace(list, occ, x, S, done, left, 2 * m) BY SMTT(40), <2>1, <2>3
  <2> QED BY ONLY <1>4, <2>2, <2>3, <2>4, <2>5, <2>7, <2>8, <2>9, <2>10, OneMoreInPlace
<1>7. InOrder(c)'
  <2> HIDE DEF child, m
  <2>1. m = 2^Cardinality(left \ {child}) BY DEF m
  <2> QED BY <1>5, <1>6, <2>1 DEF InOrder
<1> QED BY <1>1, <1>7 DEF ChildrenAreInOrder

LEMMA OrderBeginBatch ==
  ASSUME OrderInv, NEW c \in Callers, Placing!BeginBatch(c)
  PROVE  ChildrenAreInOrder'
<1>1. /\ batch' = c /\ occ' = occ
      /\ call \in [Callers -> PlaceCall \cup {Placing!Idle}]
  BY DEF Placing!BeginBatch, OrderInv, PlaceInv, PlaceTypeOK
<1>2. SUFFICES ASSUME call'[c].op = "delete" PROVE InOrder(c)'
  BY <1>1 DEF ChildrenAreInOrder
<1>3. /\ call'[c].op = "delete" /\ call'[c].items = occ
      /\ call'[c].left = Placing!Children(occ, call'[c].arg.id)
  <2>1. PICK r \in Placing!BatchRequests :
          call' = [call EXCEPT ![c] =
            [op |-> r.op, arg |-> r, at |-> "batch", items |-> occ, stale |-> {},
             left |-> CASE r.op = "delete" -> Placing!Children(occ, r.id)
                        [] r.op = "discard" -> r.ids \cap Placing!Discardable
                        [] OTHER -> r.ids]]
    BY DEF Placing!BeginBatch
  <2>2. r.op = "delete" BY <1>1, <1>2, <2>1
  <2> QED BY <1>1, <2>1, <2>2
<1> DEFINE C == Placing!Children(occ, call'[c].arg.id)
<1>4. C \ call'[c].left = {} BY <1>3
<1>5. \A list, x, S, left, r : InPlace(list, occ', x, S, {}, left, r) BY DEF InPlace
<1> QED BY <1>3, <1>4, <1>5 DEF InOrder

\* A call that ends, or writes outside a batch, leaves no batch.
LEMMA OrderOfNone == ASSUME batch' = None PROVE ChildrenAreInOrder'
BY PlacesAssumption DEF ChildrenAreInOrder

LEMMA OrderWrites ==
  ASSUME OrderInv, NEW c \in Callers,
         Placing!WriteRecord(c) \/ Placing!WriteText(c) \/ Placing!WriteNew(c)
  PROVE  ChildrenAreInOrder'
<1>1. call[c].op \in ReadFirst /\ Placing!MayWrite(c) /\ batch' = batch
  BY ZenonT(40) DEF Placing!WriteRecord, Placing!WriteText, Placing!WriteNew, ReadFirst
<1>2. call[c] # Placing!Idle BY <1>1 DEF Placing!Idle, ReadFirst
<1>3. call[c].at = "read" BY <1>1, <1>2, PlaceCallFields DEF OrderInv, PlaceInv
<1>4. batch = None BY SMTT(40), <1>1, <1>2, <1>3, AloneAfterwards DEF OrderInv, PlaceInv
<1> QED BY SMTT(40), <1>1, <1>4, OrderOfNone

LEMMA OrderReads ==
  ASSUME OrderInv, NEW c \in Callers, Placing!Read(c)
  PROVE  ChildrenAreInOrder'
<1>1. /\ occ' = occ /\ batch' = batch /\ call[c] = Placing!Idle
      /\ \A d \in Callers \ {c} : call'[d] = call[d]
  BY DEF Placing!Read, Placing!MayBegin, Placing!Begin, OrderInv, PlaceInv, PlaceTypeOK
<1>2. batch # c BY <1>1 DEF OrderInv, PlaceInv, BatchIsOfItsCaller
<1> SUFFICES ASSUME NEW d \in Callers, batch = d, call'[d].op = "delete" PROVE InOrder(d)'
  BY <1>1 DEF ChildrenAreInOrder
<1>3. call'[d] = call[d] BY <1>1, <1>2
<1>4. InOrder(d) BY <1>3 DEF OrderInv, ChildrenAreInOrder
<1> QED BY <1>1, <1>3, <1>4 DEF InOrder

LEMMA OrderCollapse ==
  ASSUME OrderInv, NEW c \in Callers, Placing!CollapseNext(c)
  PROVE  ChildrenAreInOrder'
<1>1. batch = c /\ call[c].op = "collapseAll" BY DEF Placing!CollapseNext
<1>2. PICK x \in call[c].left :
        /\ batch' = IF call[c].left = {x} THEN None ELSE batch
        /\ Placing!Overtake(c, {x}, IF call[c].left = {x} THEN Placing!Idle
                            ELSE [call[c] EXCEPT !.left = @ \ {x}])
  BY DEF Placing!CollapseNext
<1>3. CASE call[c].left = {x} BY <1>2, <1>3, OrderOfNone
<1>4. CASE call[c].left # {x}
  <2> DEFINE k == call[c]
             z == k.left \ {x}
  <2>1. batch' = c /\ call'[c] = [k EXCEPT !.left = z] BY <1>1, <1>2, <1>4 DEF Placing!Overtake
  <2>2. k \in PlaceCall BY <1>1, BatchOf DEF OrderInv
  <2>3. k.op = "collapseAll" BY <1>1
  <2>4. call'[c].op = "collapseAll"
    <3> HIDE DEF k, z
    <3> QED BY <2>1, <2>2, <2>3 DEF PlaceCall
  <2> QED BY <2>1, <2>4 DEF ChildrenAreInOrder
<1> QED BY <1>3, <1>4

LEMMA OrderInvariance == Placing!Spec => []OrderInv
<1>1. Placing!Init => OrderInv
  BY PlaceInitial, PlacesAssumption DEF OrderInv, ChildrenAreInOrder, Placing!Init
<1>2. OrderInv /\ PlaceInv' /\ [Placing!Next]_Placing!vars => OrderInv'
  <2> SUFFICES ASSUME OrderInv, [Placing!Next]_Placing!vars PROVE ChildrenAreInOrder'
    BY SMTT(40) DEF OrderInv
  <2>1. CASE UNCHANGED Placing!vars
    BY ZenonT(40), <2>1 DEF Placing!vars, OrderInv, ChildrenAreInOrder, InOrder
  <2>2. CASE Placing!Next
    <3>1. PICK c \in Callers :
            \/ Placing!Read(c) \/ Placing!WriteRecord(c) \/ Placing!WriteText(c)
                \/ Placing!WriteNew(c)
            \/ Placing!BeginBatch(c) \/ Placing!PromoteChild(c) \/ Placing!DeleteItem(c)
                \/ Placing!DiscardItems(c)
            \/ Placing!CollapseNext(c) \/ Placing!BatchFails(c)
      BY <2>2 DEF Placing!Next
    <3>2. Placing!DeleteItem(c) \/ Placing!DiscardItems(c) \/ Placing!BatchFails(c)
            => batch' = None
      BY DEF Placing!DeleteItem, Placing!DiscardItems, Placing!BatchFails, Placing!Remove
    <3> QED BY <3>1, <3>2, OrderOfNone, OrderReads, OrderWrites, OrderBeginBatch,
               OrderPromoteChild, OrderCollapse
  <2> QED BY <2>1, <2>2
<1> QED BY <1>1, <1>2, PlacesInvariance, PTL DEF Placing!Spec

-----------------------------------------------------------------------------
(* Every placement lands where it was asked to.                            *)

\* While nobody has written since, the list is still as it was read.
LEMMA NothingNew ==
  ASSUME PlaceInv,
         NEW c \in Callers, call[c] # Placing!Idle, call[c].at = "read", call[c].stale = {}
  PROVE  occ = call[c].items
<1>1. StillSo(c) BY DEF PlaceInv, ReadsAreStillSo
<1>2. occ \in Outlines /\ call[c].items \in Outlines
  BY PlaceCallFields DEF PlaceInv, PlaceTypeOK
<1>3. DOMAIN occ \subseteq Placing!Ids /\ DOMAIN call[c].items \subseteq Placing!Ids
  BY <1>2, OutlineIs
<1>4. /\ DOMAIN occ = DOMAIN call[c].items
      /\ \A x \in DOMAIN occ : occ[x] = call[c].items[x]
  BY <1>1, <1>3 DEF StillSo
<1>5. /\ occ = [x \in DOMAIN occ |-> occ[x]]
      /\ call[c].items = [x \in DOMAIN call[c].items |-> call[c].items[x]]
  BY <1>2, OutlineIs
<1> QED BY <1>4, <1>5

\* Fewer siblings have no less room.
LEMMA RoomyWithout ==
  ASSUME NEW list \in Outlines, NEW x, NEW p, Placing!Roomy(list, Placing!siblings(list, p), 1)
  PROVE  Placing!Roomy(Placing!Without(list, {x}),
                       Placing!siblings(Placing!Without(list, {x}), p), 1)
BY DEF Placing!Roomy, Placing!siblings, Placing!Without

LEMMA MovesWhereAsked ==
  ASSUME PlaceInv, NEW c \in Callers, Placing!WriteRecord(c), call[c].op = "move",
         call[c].arg.id \in DOMAIN occ
  PROVE  Placing!PlacedAsAsked(c, call[c].arg.id)
<1> DEFINE r == call[c].arg
           list == call[c].items
           x == r.id
           base == Placing!Without(list, {x})
           key == Placing!orderAfter(base, r.parent, r.after)
           rec == [[list[x] EXCEPT !.parent = r.parent] EXCEPT !.key = key]
<1> SUFFICES ASSUME call[c].stale = {}, Placing!Roomy(list, Placing!siblings(list, r.parent), 1)
             PROVE  Placing!StandsAfter(occ', x, r.after)
  BY SMTT(40) DEF Placing!PlacedAsAsked
<1>1. call[c] # Placing!Idle /\ call[c].at = "read" BY DEF Placing!WriteRecord, Placing!Idle
<1>2. occ = list /\ list \in Outlines /\ r \in Arguments /\ r.op = "move"
  BY <1>1, NothingNew, PlaceCallFields DEF PlaceInv
<1>3. x \in Placing!Ids /\ r.parent \in PlaceIds /\ r.after \in PlaceIds BY <1>2, ArgumentFields
<1>4. occ' = [occ EXCEPT ![x] = rec] BY <1>2 DEF Placing!WriteRecord, Placing!Changed
<1>5. base \in Outlines /\ x \notin DOMAIN base BY <1>2, WithoutIsAnOutline DEF Placing!Without
<1>6. key \in Int BY <1>5, OrderAfterIsAKey
<1>7. list[x] \in Placement BY <1>2, PlacementFields, OutlineIs
<1>8. Placing!Roomy(base, Placing!siblings(base, r.parent), 1) BY <1>2, RoomyWithout
<1> DEFINE q == r.parent
           b == r.after
<1> HIDE DEF key
<1>9. rec \in Placement /\ rec.key = key /\ rec.parent = q
  <2>1. q \in PlaceIds BY <1>3
  <2> DEFINE i == list[x]
  <2>2. i \in Placement /\ rec = [[i EXCEPT !.parent = q] EXCEPT !.key = key] BY <1>7
  <2> HIDE DEF q, i, rec
  <2> QED BY <1>6, <2>1, <2>2 DEF Placement
<1>10. occ' = Placing!Put(base, x, rec)
  <2> HIDE DEF rec, q, b
  <2> QED BY <1>2, <1>4 DEF Placing!Put, Placing!Without
<1>11. key = Placing!orderAfter(base, q, b) BY DEF key
<1>12. b \in PlaceIds /\ Placing!Roomy(base, Placing!siblings(base, q), 1) BY <1>3, <1>8
<1>13. rec.key = Placing!orderAfter(base, rec.parent, b)
       /\ Placing!Roomy(base, Placing!siblings(base, rec.parent), 1)
  BY <1>9, <1>11, <1>12
<1> HIDE DEF rec, base, x, q
<1>14. Placing!StandsAfter(Placing!Put(base, x, rec), x, b)
  BY ONLY <1>3, <1>5, <1>9, <1>12, <1>13, StandsWhereAsked DEF b
<1> QED BY <1>10, <1>14

LEMMA NewWhereAsked ==
  ASSUME PlaceInv, NEW c \in Callers, Placing!WriteNew(c), NEW y \in DOMAIN occ' \ DOMAIN occ
  PROVE  Placing!PlacedAsAsked(c, y)
<1> DEFINE r == call[c].arg
           list == call[c].items
           new(x) == [work |-> IF r.op = "create" THEN x ELSE list[r.of].work,
                      parent |-> r.parent, key |-> Placing!orderAfter(list, r.parent, r.after),
                      collapsed |-> FALSE, heading |-> FALSE,
                      pinned |-> r.op = "place" /\ list[r.of].pinned]
<1> SUFFICES ASSUME call[c].stale = {}, Placing!Roomy(list, Placing!siblings(list, r.parent), 1)
             PROVE  Placing!StandsAfter(occ', y, r.after)
  BY SMTT(40) DEF Placing!PlacedAsAsked
<1>1. call[c].op \in {"create", "place"} BY ZenonT(40) DEF Placing!WriteNew
<1>2. call[c] # Placing!Idle BY <1>1 DEF Placing!Idle
<1>3. call[c].at = "read" BY <1>1, <1>2, PlaceCallFields DEF PlaceInv, ReadFirst
<1>4. occ = list /\ list \in Outlines /\ r \in Arguments /\ r.op \in {"create", "place"}
  BY <1>1, <1>2, <1>3, NothingNew, PlaceCallFields DEF PlaceInv
<1>5. PICK x \in Placing!Fresh : occ' = Placing!Put(occ, x, new(x))
  BY ZenonT(40) DEF Placing!WriteNew
<1>6. y = x BY <1>5 DEF Placing!Put
<1>7. x \in Placing!Ids /\ x \notin DOMAIN list
  <2>1. x \in Placing!Ids /\ \A z \in DOMAIN occ : z < x BY DEF Placing!Fresh
  <2> QED BY <1>6, <2>1, <1>4
<1>8. occ' \in Outlines BY PlaceWriteNew DEF PlaceInv, PlaceTypeOK
<1> DEFINE rec == new(x)
<1>9. rec \in Placement
  <2>1. x \in DOMAIN occ' /\ occ'[x] = rec BY <1>5 DEF Placing!Put
  <2> HIDE DEF rec
  <2> QED BY <1>8, <2>1, OutlineIs
<1>10. rec.key = Placing!orderAfter(list, rec.parent, r.after) /\ rec.parent = r.parent OBVIOUS
<1>11. r.after \in PlaceIds BY <1>4, ArgumentFields
<1>12. Placing!Roomy(list, Placing!siblings(list, rec.parent), 1) BY <1>10
<1> DEFINE b == r.after
<1>13. b \in PlaceIds /\ rec.key = Placing!orderAfter(list, rec.parent, b) BY SMTT(40), <1>10, <1>11
<1>14. occ' = Placing!Put(list, x, rec) BY <1>4, <1>5
<1> HIDE DEF rec, list, b
<1>15. Placing!StandsAfter(Placing!Put(list, x, rec), x, b)
  BY ONLY <1>4, <1>7, <1>9, <1>12, <1>13, StandsWhereAsked
<1> QED BY <1>6, <1>14, <1>15 DEF b

\* The model of the placements counts as everybody does.
LEMMA PlacingCounts == \A S : Placing!Cardinality(S) = Cardinality(S)
BY DEF Placing!Cardinality, Cardinality

\* The children of an item are where it was, in their order.
LEMMA SortedAsBefore ==
  ASSUME NEW list, NEW o, NEW x, NEW p, NEW S, NEW C,
         Promotion(list, o, x, p, S, C, C), InPlace(list, o, x, S, C, {}, 1),
         NEW r \in Nat \ {0}, Around(list, x, S, r),
         NEW a \in S \cup C, NEW b \in S \cup C, a # b
  PROVE  Placing!Before(o, a, b) <=> IF (a \in C) = (b \in C) THEN Placing!Before(list, a, b)
                             ELSE IF a \in C THEN Placing!Before(list, x, b)
                               ELSE Placing!Before(list, a, x)
<1>1. /\ list \in Outlines /\ S \subseteq DOMAIN list /\ C \subseteq DOMAIN list
      /\ S \cap C = {} /\ x \in DOMAIN list /\ x \in Nat
      /\ S \subseteq Nat /\ C \subseteq Nat
      /\ \A y \in S : o[y] = list[y]
      /\ \A y \in DOMAIN list : list[y].key \in Int /\ o[y].key \in Int
  BY DEF Promotion
<1>2. ASSUME NEW d \in C, NEW y \in S
      PROVE  /\ Placing!Before(o, d, y) <=> Placing!Before(list, x, y)
             /\ Placing!Before(o, y, d) <=> Placing!Before(list, y, x)
  <2> DEFINE k == list[y].key
             l == o[d].key
             m == list[x].key
  <2>1. k \in Int /\ l \in Int /\ m \in Int /\ o[y].key = k BY <1>1
  <2>2. IF k < m THEN k < l ELSE k - l >= 1 BY DEF InPlace
  <2>3. IF k < m THEN m - k >= r ELSE k - m >= r BY DEF Around
  <2>4. /\ Placing!Before(o, d, y) <=> l < k \/ (l = k /\ d < y)
        /\ Placing!Before(o, y, d) <=> k < l \/ (k = l /\ y < d)
        /\ Placing!Before(list, x, y) <=> m < k \/ (m = k /\ x < y)
        /\ Placing!Before(list, y, x) <=> k < m \/ (k = m /\ y < x)
    BY <2>1 DEF Placing!Before
  <2>5. d \in Nat /\ y \in Nat BY <1>1
  <2> HIDE DEF k, l, m
  <2>6. CASE k < m
    <3>1. k < l /\ ~(m < k) /\ k # m /\ k # l /\ ~(l < k)
      BY ONLY <2>1, <2>2, <2>6
    <3> QED BY ONLY <2>4, <2>6, <3>1
  <2>7. CASE ~(k < m)
    <3>1. l < k /\ m < k /\ k # l /\ k # m /\ ~(k < l)
      BY ONLY <2>1, <2>2, <2>3, <2>7, r \in Nat \ {0}
    <3> QED BY ONLY <2>4, <2>7, <3>1
  <2> QED BY <2>6, <2>7
<1>3. ASSUME NEW d \in C, NEW e \in C, d # e
      PROVE  Placing!Before(o, d, e) <=> Placing!Before(list, d, e)
  <2>1. o[d].key \in Int /\ o[e].key \in Int BY <1>1
  <2>2. Placing!Before(list, d, e) \/ Placing!Before(list, e, d) BY <1>1, <1>3, BeforeIsAnOrder
  <2>3. ~(Placing!Before(list, d, e) /\ Placing!Before(list, e, d)) BY <1>1, BeforeIsAnOrder
  <2>4. CASE Placing!Before(list, d, e)
    <3>1. o[d].key < o[e].key BY <2>4 DEF InPlace
    <3> QED BY <2>4, <3>1 DEF Placing!Before
  <2>5. CASE Placing!Before(list, e, d)
    <3>1. o[e].key < o[d].key BY <2>5 DEF InPlace
    <3> QED BY ONLY <2>1, <2>3, <2>5, <3>1 DEF Placing!Before
  <2> QED BY <2>2, <2>4, <2>5
<1>4. \A d, e \in S : Placing!Before(o, d, e) <=> Placing!Before(list, d, e)
  BY <1>1 DEF Placing!Before
<1>5. CASE a \in C /\ b \in C BY <1>3, <1>5
<1>6. CASE a \in S /\ b \in S BY <1>1, <1>4, <1>6
<1>7. CASE a \in C /\ b \in S BY <1>1, <1>2, <1>7
<1>8. CASE a \in S /\ b \in C BY SMTT(40), <1>1, <1>2, <1>8
<1> QED BY <1>5, <1>6, <1>7, <1>8

LEMMA DeletesInPlace ==
  ASSUME OrderInv, NEW c \in Callers, Placing!DeleteItem(c)
  PROVE  Placing!PromotedInPlace(c)
<1> DEFINE list == call[c].items
           x == call[c].arg.id
           p == list[x].parent
           S == Placing!siblings(list, p) \ {x}
           C == Placing!Children(list, x)
           n == Cardinality(C)
           Was(a, b) == IF (a \in C) = (b \in C) THEN Placing!Before(list, a, b)
                        ELSE IF a \in C THEN Placing!Before(list, x, b)
                        ELSE Placing!Before(list, a, x)
<1>1. /\ batch = c /\ call[c].op = "delete" /\ call[c].left = {}
      /\ occ' = Placing!Without(occ, {x})
  BY DEF Placing!DeleteItem, Placing!Remove
<1>2. PlaceInv /\ InOrder(c) BY <1>1 DEF OrderInv, ChildrenAreInOrder
<1>3. /\ list \in Outlines /\ x \in DOMAIN list /\ DOMAIN occ = DOMAIN list
      /\ DOMAIN occ \subseteq Placing!Ids
  BY <1>1, <1>2, BatchOf
<1>4. ASSUME Placing!Roomy(list, S \cup {x}, n), 2^n <= 2 * ORDER_STEP, p # x,
             NEW a \in S \cup C, NEW b \in S \cup C, a # b
      PROVE  Placing!Before(occ', a, b) <=> Was(a, b)
  <2>1. InPlace(list, occ, x, S, C, {}, 1)
    <3>1. InPlace(list, occ, x, S, C \ {}, {}, 2^Cardinality({}))
      BY ZenonT(40), <1>1, <1>2, <1>4 DEF InOrder
    <3>2. C \ {} = C OBVIOUS
    <3> HIDE DEF list, x, S, C
    <3> QED BY SMTT(40), <3>1, <3>2, NoneLeft
  <2>2. Promotion(list, occ, x, p, S, C, C)
    <3>1. /\ list = call[c].items /\ x = call[c].arg.id /\ p = list[x].parent /\ p # x
          /\ S = Placing!siblings(list, p) \ {x} /\ C = Placing!Children(list, x)
          /\ batch = c /\ call[c].op = "delete"
      BY SMTT(40), <1>1, <1>4
    <3> HIDE DEF list, x, S, C, p
    <3>2. Promotion(list, occ, x, p, S, C, C \ call[c].left)
      BY ONLY <1>2, <3>1, c \in Callers, InTheBatch
    <3>3. C \ call[c].left = C BY <1>1
    <3> QED BY SMTT(40), <3>2, <3>3
  <2>3. 2^n \in Nat \ {0}
    <3>1. C \in SUBSET Placing!Ids BY ZenonT(40), <1>3, <2>2 DEF Promotion
    <3> HIDE DEF C
    <3> QED BY SMTT(40), <3>1, SomeIds, PowerIs
  <2>4. S \in SUBSET DOMAIN list /\ x \notin S BY ZenonT(40), <2>2 DEF Promotion
  <2>5. Around(list, x, S, 2^n)
    <3> HIDE DEF list, x, S, n
    <3> QED BY <1>3, <1>4, <2>3, <2>4, RoomAround
  <2>6. Placing!Before(occ', a, b) <=> Placing!Before(occ, a, b)
    <3>1. a \in DOMAIN occ \ {x} /\ b \in DOMAIN occ \ {x} BY ZenonT(40), <1>3, <2>2 DEF Promotion
    <3>2. occ'[a] = occ[a] /\ occ'[b] = occ[b] BY <1>1, <3>1 DEF Placing!Without
    <3> QED BY SMTT(40), <3>2 DEF Placing!Before
  <2>7. Placing!Before(occ, a, b) <=> Was(a, b)
    <3> HIDE DEF list, x, S, C, p, n
    <3> QED BY ONLY <2>1, <2>2, <2>3, <2>5, a \in S \cup C, b \in S \cup C, a # b, <1>4,
               SortedAsBefore
  <2> QED BY <2>6, <2>7
<1>5. p # x => C \ {x} = C BY SMTT(40) DEF Placing!Children, Placing!siblings
<1>6. Placing!Roomy(list, S \cup {x}, n) /\ 2^n <= 2 * ORDER_STEP /\ p # x
        => \A a, b \in S \cup C : a # b => (Placing!Before(occ', a, b) <=> Was(a, b))
  BY ZenonT(40), <1>4
<1> QED BY ZenonT(40), <1>5, <1>6, PlacingCounts DEF Placing!PromotedInPlace

\* A call ends by an action of its own caller.
LEMMA EndsOnItsOwn ==
  ASSUME PlaceInv, NEW c \in Callers, call[c] # Placing!Idle, call'[c] = Placing!Idle,
         NEW d \in Callers,
         \/ Placing!Read(d) \/ Placing!WriteRecord(d) \/ Placing!WriteText(d)
             \/ Placing!WriteNew(d)
         \/ Placing!BeginBatch(d) \/ Placing!PromoteChild(d) \/ Placing!DeleteItem(d)
             \/ Placing!DiscardItems(d)
         \/ Placing!CollapseNext(d) \/ Placing!BatchFails(d)
  PROVE  d = c
<1> SUFFICES ASSUME d # c PROVE FALSE OBVIOUS
<1>1. ASSUME NEW X, NEW done, Placing!Overtake(d, X, done) PROVE FALSE
  <2> DEFINE k == call[c]
             z == k.stale \cup X
  <2>1. k \in PlaceCall BY PlaceCallFields DEF PlaceInv
  <2>2. call'[c] = [k EXCEPT !.stale = z] BY <1>1 DEF Placing!Overtake
  <2> HIDE DEF k, z
  <2>3. call'[c].op = k.op /\ k.op # "none"
    BY <2>1, <2>2 DEF PlaceCall, ReadFirst, Batched
  <2> QED BY <2>3 DEF Placing!Idle
<1>2. ASSUME NEW v, call' = [call EXCEPT ![d] = v] PROVE FALSE
  BY SMTT(40), <1>2 DEF PlaceInv, PlaceTypeOK
<1>3. ~Placing!WriteRecord(d) /\ ~Placing!WriteNew(d) /\ ~Placing!PromoteChild(d)
  BY ZenonT(40), <1>1 DEF Placing!WriteRecord, Placing!WriteNew, Placing!PromoteChild
<1>4. ~Placing!DeleteItem(d) /\ ~Placing!DiscardItems(d) /\ ~Placing!CollapseNext(d)
      /\ ~Placing!BatchFails(d)
  BY ZenonT(40), <1>1
  DEF Placing!DeleteItem, Placing!DiscardItems, Placing!Remove, Placing!CollapseNext,
      Placing!BatchFails
<1>5. ~Placing!Read(d) /\ ~Placing!WriteText(d) /\ ~Placing!BeginBatch(d)
  BY ZenonT(40), <1>2 DEF Placing!Read, Placing!Begin, Placing!WriteText, Placing!BeginBatch
<1> QED BY <1>3, <1>4, <1>5

LEMMA OrderedByEveryStep ==
  ASSUME OrderInv, [Placing!Next]_Placing!vars
  PROVE  Placing!OrderedAsAsked
<1>1. CASE Placing!Next
  <2>2. SUFFICES ASSUME NEW c \in Callers
                 PROVE  /\ call[c].op = "move" /\ call'[c] = Placing!Idle
                             /\ call[c].arg.id \in DOMAIN occ
                             => Placing!PlacedAsAsked(c, call[c].arg.id)
                        /\ call[c].op \in {"create", "place"} /\ call'[c] = Placing!Idle
                             => \A x \in DOMAIN occ' \ DOMAIN occ : Placing!PlacedAsAsked(c, x)
                        /\ call[c].op = "delete" /\ call[c].arg.id \notin DOMAIN occ'
                             => Placing!PromotedInPlace(c)
    BY DEF Placing!OrderedAsAsked
  <2>3. PICK d \in Callers :
          \/ Placing!Read(d) \/ Placing!WriteRecord(d) \/ Placing!WriteText(d)
              \/ Placing!WriteNew(d)
          \/ Placing!BeginBatch(d) \/ Placing!PromoteChild(d) \/ Placing!DeleteItem(d)
              \/ Placing!DiscardItems(d)
          \/ Placing!CollapseNext(d) \/ Placing!BatchFails(d)
    BY <1>1 DEF Placing!Next
  <2>4. PlaceInv BY DEF OrderInv
  <2>5. ASSUME call[c].op \in {"move", "create", "place"}, call'[c] = Placing!Idle
        PROVE  d = c /\ (Placing!WriteRecord(c) \/ Placing!WriteNew(c))
    <3>1. call[c] # Placing!Idle BY <2>5 DEF Placing!Idle
    <3>2. d = c BY <2>3, <2>4, <2>5, <3>1, EndsOnItsOwn
    <3>3. call[c].at = "read" BY <2>4, <2>5, <3>1, PlaceCallFields DEF PlaceInv, ReadFirst
    <3>4. batch # c BY SMTT(40), <2>4, <3>1, <3>3 DEF PlaceInv, BatchIsOfItsCaller
    <3>5. ~Placing!PromoteChild(c) /\ ~Placing!DeleteItem(c) /\ ~Placing!DiscardItems(c)
          /\ ~Placing!CollapseNext(c)
          /\ ~Placing!BatchFails(c)
      BY <3>4
      DEF Placing!PromoteChild, Placing!DeleteItem, Placing!DiscardItems, Placing!CollapseNext,
          Placing!BatchFails
    <3>6. ~Placing!Read(c) /\ ~Placing!BeginBatch(c) /\ ~Placing!WriteText(c)
      BY <2>5, <3>1 DEF Placing!Read, Placing!BeginBatch, Placing!MayBegin, Placing!WriteText
    <3> QED BY <2>3, <3>2, <3>5, <3>6
  <2>6. ASSUME call[c].op = "move", call'[c] = Placing!Idle, call[c].arg.id \in DOMAIN occ
        PROVE  Placing!PlacedAsAsked(c, call[c].arg.id)
    <3>1. Placing!WriteRecord(c) BY <2>5, <2>6 DEF Placing!WriteNew
    <3> QED BY <2>4, <2>6, <3>1, MovesWhereAsked
  <2>7. ASSUME call[c].op \in {"create", "place"}, call'[c] = Placing!Idle,
               NEW x \in DOMAIN occ' \ DOMAIN occ
        PROVE  Placing!PlacedAsAsked(c, x)
    <3>1. Placing!WriteNew(c) BY <2>5, <2>7 DEF Placing!WriteRecord
    <3> QED BY SMTT(40), <2>4, <3>1, NewWhereAsked
  <2>8. ASSUME call[c].op = "delete", call[c].arg.id \notin DOMAIN occ'
        PROVE  Placing!PromotedInPlace(c)
    <3>1. call[c] # Placing!Idle BY <2>8 DEF Placing!Idle
    <3>2. call[c].at = "batch"
      BY <2>4, <2>8, <3>1, PlaceCallFields DEF PlaceInv, ReadFirst
    <3>3. batch = c BY <2>4, <3>1, <3>2 DEF PlaceInv, BatchIsOfItsCaller
    <3>4. call[c].arg.id \in DOMAIN occ /\ DOMAIN occ = DOMAIN call[c].items
      BY <2>4, <2>8, <3>3, BatchOf
    <3>5. occ' # occ /\ DOMAIN occ' # DOMAIN occ BY <2>8, <3>4
    <3>6. ~Placing!Read(d) /\ ~Placing!BeginBatch(d) /\ ~Placing!WriteText(d)
      BY <3>5 DEF Placing!Read, Placing!BeginBatch, Placing!WriteText
    <3>7. ~Placing!PromoteChild(d) /\ ~Placing!CollapseNext(d)
      BY <3>5 DEF Placing!PromoteChild, Placing!CollapseNext
    <3>8. ASSUME Placing!WriteRecord(d) \/ Placing!WriteNew(d) PROVE FALSE
      <4>1. Placing!MayWrite(d) /\ call[d].op \in ReadFirst
        BY ZenonT(40), <3>8 DEF Placing!WriteRecord, Placing!WriteNew, ReadFirst
      <4>2. d = c BY <3>3, <4>1, PlacesAssumption DEF Placing!MayWrite
      <4> QED BY <2>8, <4>1, <4>2 DEF ReadFirst
    <3>9. ASSUME Placing!DeleteItem(d) \/ Placing!DiscardItems(d) \/ Placing!BatchFails(d)
          PROVE  d = c
      BY <3>3, <3>9 DEF Placing!DeleteItem, Placing!DiscardItems, Placing!BatchFails
    <3>10. ~Placing!DiscardItems(c) BY <2>8 DEF Placing!DiscardItems
    <3>11. ~Placing!BatchFails(c) BY <2>8, <3>4 DEF Placing!BatchFails
    <3>12. Placing!DeleteItem(c) BY <2>3, <3>6, <3>7, <3>8, <3>9, <3>10, <3>11
    <3> QED BY <3>12, DeletesInPlace
  <2> QED BY <2>6, <2>7, <2>8
<1>2. CASE UNCHANGED Placing!vars
  <2>1. call' = call /\ occ' = occ BY <1>2 DEF Placing!vars
  <2>2. ASSUME NEW c \in Callers, call[c].op = "delete" PROVE call[c].arg.id \in DOMAIN occ
    <3>1. call[c] # Placing!Idle BY <2>2 DEF Placing!Idle
    <3>2. call[c].at = "batch"
      BY <2>2, <3>1, PlaceCallFields DEF OrderInv, PlaceInv, ReadFirst
    <3>3. batch = c BY <3>1, <3>2 DEF OrderInv, PlaceInv, BatchIsOfItsCaller
    <3> QED BY <2>2, <3>3, BatchOf DEF OrderInv
  <2>3. ASSUME NEW c \in Callers, call[c].op \in {"move", "create", "place"}
        PROVE  call[c] # Placing!Idle
    BY <2>3 DEF Placing!Idle
  <2> QED BY <2>1, <2>2, <2>3 DEF Placing!OrderedAsAsked
<1> QED BY <1>1, <1>2

\* A placement lands where it was asked to, and the children of a deleted item take its
\* place in their order: while the gaps are wide enough to be halved, and nobody wrote
\* between the reading and the writing.
THEOREM PlacementsStandWhereTheyWereAsked == Placing!Spec => OrderIsAsAsked
<1>1. OrderInv /\ [Placing!Next]_Placing!vars
        => [scene = "placements" => Placing!OrderedAsAsked]_mcvars
  BY OrderedByEveryStep
<1> QED BY <1>1, OrderInvariance, PTL DEF Placing!Spec, OrderIsAsAsked
=============================================================================
