----------------------------- MODULE ServiceProofs -----------------------------
(***************************************************************************)
(* Three services that work in several steps, proved for all constants:    *)
(*                                                                         *)
(* - SnapshotPolicy.  Pruning, repeated at any times, loses no snapshot    *)
(*   without a later one of the same period in its place: of a bucket the  *)
(*   last snapshot stays; when a representative is itself pruned, another  *)
(*   one later in its bucket stays, and what it stood for is older and so  *)
(*   has periods at least as long.                                         *)
(* - BranchService.  A call happens as a whole or not at all.  What a call *)
(*   has read and nobody has written since is what there is; so what it    *)
(*   writes, also when it puts main back, is what it means to write.       *)
(* - PendingItems.  Empty items are discarded and nothing else with them.  *)
(*   The invariant follows the items of every operation from the flush to  *)
(*   the answer: blank on screen and in the store, or typed into since.    *)
(***************************************************************************)
EXTENDS MCServices, Sequences, FiniteSetTheorems, WellFoundedInduction, TLAPS

-----------------------------------------------------------------------------
(* Snapshots.                                                              *)

Snapshot == [id : Nat, at : Nat, content : Contents, until : Nat]

\* Protections are records of one kind, and nothing appears among the snapshots
\* that was not taken.
SnapshotTypeOK ==
  /\ clock \in Nat /\ copy \in [content : Contents, at : Nat]
  /\ taken \subseteq Snapshot /\ IsFiniteSet(taken) /\ snapshots \subseteq taken

\* The ids are the numbers of the snapshots, so that any two are ordered.
Numbered ==
  /\ \A s \in taken : s.id < Cardinality(taken)
  /\ \A s, t \in taken : s.id = t.id => s = t

SInv == SnapshotTypeOK /\ Numbered /\ Snapshots!NothingIsLostUnrepresented

-----------------------------------------------------------------------------
(* Periods.                                                                *)

\* What a quotient is.
LEMMA DivBounds ==
  ASSUME NEW a \in Nat, NEW n \in Nat \ {0}
  PROVE  a \div n \in Nat /\ n * (a \div n) <= a /\ a < n * (a \div n) + n
<1>1. a \div n \in Nat /\ a % n \in 0..(n - 1) OBVIOUS
<1>2. a = n * (a \div n) + (a % n) OBVIOUS
<1>3. n * (a \div n) \in Nat BY <1>1
<1> QED BY <1>1, <1>2, <1>3

\* The quotient is the only number with its bounds.
LEMMA DivUnique ==
  ASSUME NEW a \in Nat, NEW n \in Nat \ {0}, NEW q \in Nat, n * q <= a, a < n * q + n
  PROVE  a \div n = q
<1> DEFINE p == a \div n
<1>1. p \in Nat /\ n * p <= a /\ a < n * p + n BY DivBounds
<1> HIDE DEF p
<1>2. ~(p < q)
  <2> SUFFICES ASSUME p < q PROVE FALSE OBVIOUS
  <2>1. n * (p + 1) <= n * q BY <1>1
  <2>2. n * (p + 1) = n * p + n BY <1>1
  <2> QED BY <1>1, <2>1, <2>2
<1>3. ~(q < p)
  <2> SUFFICES ASSUME q < p PROVE FALSE OBVIOUS
  <2>1. n * (q + 1) <= n * p BY <1>1
  <2>2. n * (q + 1) = n * q + n BY <1>1
  <2> QED BY <1>1, <2>1, <2>2
<1> QED BY <1>1, <1>2, <1>3 DEF p

\* The period of k periods is found from the short one.
LEMMA DivDiv ==
  ASSUME NEW a \in Nat, NEW n \in Nat \ {0}, NEW k \in Nat \ {0}
  PROVE  a \div (n * k) = (a \div n) \div k
<1> DEFINE p == a \div n
           q == p \div k
<1>1. p \in Nat /\ n * p <= a /\ a < n * p + n BY DivBounds
<1> HIDE DEF p
<1>2. q \in Nat /\ k * q <= p /\ p < k * q + k BY <1>1, DivBounds
<1> HIDE DEF q
<1>3. n * k \in Nat \ {0} OBVIOUS
<1>4. (n * k) * q = n * (k * q) BY <1>2
<1>5. n * (k * q) <= n * p BY <1>1, <1>2
<1>6. n * (p + 1) <= n * (k * q + k) BY <1>1, <1>2
<1>7. n * (p + 1) = n * p + n /\ n * (k * q + k) = n * (k * q) + n * k BY <1>1, <1>2
<1>8. (n * k) * q <= a /\ a < (n * k) * q + n * k
  BY <1>1, <1>2, <1>3, <1>4, <1>5, <1>6, <1>7
<1>9. a \div (n * k) = q BY <1>2, <1>3, <1>8, DivUnique
<1> QED BY <1>9 DEF p, q

\* Two times of one short period are of one long period.
LEMMA PeriodsNest ==
  ASSUME NEW a \in Nat, NEW b \in Nat, NEW n \in Nat \ {0}, NEW m \in Nat \ {0},
         m % n = 0, a \div n = b \div n
  PROVE  a \div m = b \div m
<1> DEFINE k == m \div n
<1>1. k \in Nat /\ m = n * k + (m % n) OBVIOUS
<1>2. m = n * k BY <1>1
<1>3. k \in Nat \ {0} BY <1>1, <1>2
<1> HIDE DEF k
<1>4. a \div (n * k) = (a \div n) \div k BY <1>3, DivDiv
<1>5. b \div (n * k) = (b \div n) \div k BY <1>3, DivDiv
<1>6. a \div (n * k) = b \div (n * k) BY <1>4, <1>5, Zenon
<1> QED BY <1>2, <1>6, Zenon

\* The length of the periods at the granularity of an age.
Length(age) ==
  IF age <= HourlyRetention THEN Hour ELSE IF age <= DailyRetention THEN Day ELSE Month

\* With age the granularity only gets coarser.
LEMMA OlderIsCoarser ==
  ASSUME NEW a \in Nat, NEW b \in Nat, NEW young \in Int, NEW old \in Int, young <= old,
         a \div Length(young) = b \div Length(young)
  PROVE  a \div Length(old) = b \div Length(old)
<1>1. /\ HourlyRetention \in Nat /\ DailyRetention \in Nat
      /\ Hour \in Nat \ {0} /\ Day \in Nat \ {0} /\ Month \in Nat \ {0}
      /\ Day % Hour = 0 /\ Month % Day = 0
  BY SpansAssumption
<1> DEFINE Nested(n, m) == a \div n = b \div n => a \div m = b \div m
<1>2. \A n, m \in Nat \ {0} : m % n = 0 => Nested(n, m) BY PeriodsNest
<1>3. Nested(Hour, Day) /\ Nested(Day, Month)
  <2> HIDE DEF Nested
  <2> QED BY <1>1, <1>2
<1>4. CASE Length(young) = Hour BY <1>3, <1>4 DEF Length
<1>5. CASE young > HourlyRetention /\ young <= DailyRetention
  <2>1. Length(young) = Day BY <1>1, <1>5 DEF Length
  <2>2. Length(old) \in {Day, Month} BY <1>1, <1>5 DEF Length
  <2> QED BY <1>3, <2>1, <2>2
<1>6. CASE young > HourlyRetention /\ young > DailyRetention
  BY <1>1, <1>6 DEF Length
<1> QED BY <1>1, <1>4, <1>5, <1>6 DEF Length

-----------------------------------------------------------------------------
(* The last of a bucket.                                                   *)

\* Of finitely many snapshots with different ids one is the last.
LEMMA LastExists ==
  ASSUME NEW S \in SUBSET Snapshot, IsFiniteSet(S), S # {},
         \A s, t \in S : s.id = t.id => s = t
  PROVE  \E u \in S : \A t \in S \ {u} : Snapshots!Before(t, u)
<1> DEFINE Above(s) == {t \in S : Snapshots!Before(s, t)}
           R == StrictSubsetOrdering(S)
<1>1. IsWellFoundedOn(R, FiniteSubsetsOf(S)) BY FS_StrictSubsetOrderingWellFounded
<1>2. {Above(s) : s \in S} \subseteq FiniteSubsetsOf(S)
  <2>1. \A s \in S : Above(s) \subseteq S /\ IsFiniteSet(Above(s)) BY FS_Subset
  <2> QED BY <2>1 DEF FiniteSubsetsOf
<1>3. PICK A \in {Above(s) : s \in S} : \A B \in {Above(s) : s \in S} : <<B, A>> \notin R
  <2>1. {Above(s) : s \in S} # {}
    <3> HIDE DEF Above
    <3> QED OBVIOUS
  <2> HIDE DEF R, Above
  <2> QED BY <1>1, <1>2, <2>1, WFMin
<1>4. PICK u \in S : A = Above(u) BY <1>3
<1>5. Above(u) = {}
  <2> SUFFICES ASSUME NEW t \in Above(u) PROVE FALSE OBVIOUS
  <2>1. t \in S /\ Snapshots!Before(u, t) OBVIOUS
  <2>2. \A v \in S : Snapshots!Before(t, v) => Snapshots!Before(u, v) BY <2>1
    DEF Snapshots!Before, Snapshot
  <2>3. t \notin Above(t) BY <2>1 DEF Snapshots!Before, Snapshot
  <2>4. Above(t) \subseteq Above(u) /\ Above(t) # Above(u) BY <2>2, <2>3
  <2>5. <<Above(t), Above(u)>> \in R BY <2>4 DEF StrictSubsetOrdering
  <2> QED BY <1>3, <1>4, <2>1, <2>5
<1>6. \A t \in S \ {u} : Snapshots!Before(t, u)
  <2> SUFFICES ASSUME NEW t \in S \ {u} PROVE Snapshots!Before(t, u) OBVIOUS
  <2>1. ~Snapshots!Before(u, t) BY <1>5
  <2>2. t.id # u.id OBVIOUS
  <2>3. t \in Snapshot /\ u \in Snapshot OBVIOUS
  <2> QED BY <2>1, <2>2, <2>3 DEF Snapshots!Before, Snapshot
<1> QED BY <1>6

\* What is pruned has a later snapshot of its bucket among what is kept.
LEMMA BucketsKeepTheirLast ==
  ASSUME SnapshotTypeOK, Numbered, NEW s \in snapshots, s \notin Snapshots!Keep(snapshots)
  PROVE  ~Snapshots!KeptAsIs(s) /\ \E u \in Snapshots!Keep(snapshots) : Snapshots!Before(s,
    u) /\ Snapshots!Bucket(u) = Snapshots!Bucket(s)
<1>1. ~Snapshots!KeptAsIs(s) /\ ~Snapshots!Represents(s, snapshots) BY DEF Snapshots!Keep
<1> DEFINE S == {t \in snapshots :
                  ~Snapshots!KeptAsIs(t) /\ Snapshots!Bucket(t) = Snapshots!Bucket(s)}
<1>2. /\ S \in SUBSET Snapshot /\ IsFiniteSet(S) /\ s \in S
      /\ \A t, v \in S : t.id = v.id => t = v
  <2>1. S \subseteq taken BY DEF SnapshotTypeOK
  <2>2. IsFiniteSet(S) BY <2>1, FS_Subset DEF SnapshotTypeOK
  <2> QED BY <1>1, <2>1, <2>2 DEF SnapshotTypeOK, Numbered
<1> HIDE DEF S
<1>3. PICK u \in S : \A t \in S \ {u} : Snapshots!Before(t, u) BY <1>2, LastExists
<1>4. u \in snapshots /\ ~Snapshots!KeptAsIs(u) /\ Snapshots!Bucket(u) = Snapshots!Bucket(s)
  BY DEF S
<1>5. Snapshots!Represents(u, snapshots) BY <1>3, <1>4 DEF S, Snapshots!Represents
<1>6. u # s BY <1>1, <1>5
<1> QED BY <1>1, <1>2, <1>3, <1>4, <1>5, <1>6 DEF Snapshots!Keep

\* One bucket, one period at the granularity of either.
LEMMA BucketIsPeriod ==
  ASSUME SnapshotTypeOK, NEW s \in taken, NEW u \in taken,
         Snapshots!Bucket(u) = Snapshots!Bucket(s)
  PROVE  s.at \div Length(Snapshots!Age(s)) = u.at \div Length(Snapshots!Age(s))
BY DEF Snapshots!Bucket, Length

\* SamePeriod is equality at that granularity.
LEMMA PeriodByLength ==
  ASSUME NEW s, NEW t
  PROVE  Snapshots!SamePeriod(s, t) <=>
           s.at \div Length(Snapshots!Age(s)) = t.at \div Length(Snapshots!Age(s))
BY DEF Snapshots!SamePeriod, Length

-----------------------------------------------------------------------------
(* The steps.                                                              *)

\* The policy counts as everybody does.
LEMMA SameCardinality == \A S : Snapshots!Cardinality(S) = Cardinality(S)
BY DEF Snapshots!Cardinality, Cardinality

LEMMA Numbers ==
  ASSUME SnapshotTypeOK
  PROVE  /\ Cardinality(taken) \in Nat
         /\ Snapshots!Forever \in Nat /\ clock + Protection \in Nat
         /\ \A s \in taken : s.at \in Nat /\ s.id \in Nat /\ s.until \in Nat
         /\ \A s \in taken : Snapshots!Age(s) \in Int
<1>1. Cardinality(taken) \in Nat BY FS_CardinalityType DEF SnapshotTypeOK
<1>2. LastHour \in Nat /\ Protection \in Nat BY SpansAssumption
<1>3. clock \in Nat BY DEF SnapshotTypeOK
<1>4. \A s \in taken : s.at \in Nat /\ s.id \in Nat /\ s.until \in Nat
  BY DEF SnapshotTypeOK, Snapshot
<1>5. \A s \in taken : Snapshots!Age(s) \in Int BY <1>3, <1>4 DEF Snapshots!Age
<1>6. Snapshots!Forever \in Nat BY <1>2 DEF Snapshots!Forever
<1> QED BY <1>1, <1>2, <1>3, <1>4, <1>5, <1>6

\* Time makes periods longer and protections end.
LEMMA TickKeeps ==
  ASSUME SInv, Snapshots!Tick
  PROVE  SInv'
<1>1. SnapshotTypeOK' /\ Numbered' BY DEF SInv, Snapshots!Tick, SnapshotTypeOK, Numbered
<1>2. Snapshots!NothingIsLostUnrepresented'
  <2> SUFFICES ASSUME NEW s \in taken, s \notin snapshots
               PROVE  ~Snapshots!KeptAsIs(s)' /\ \E t \in snapshots : Snapshots!Before(s,
                 t) /\ Snapshots!SamePeriod(s, t)'
    BY DEF Snapshots!NothingIsLostUnrepresented, Snapshots!Tick, Snapshots!Before
  <2>1. PICK t \in snapshots : ~Snapshots!KeptAsIs(s) /\ Snapshots!Before(s,
    t) /\ Snapshots!SamePeriod(s, t)
    BY DEF SInv, Snapshots!NothingIsLostUnrepresented
  <2>2. /\ clock \in Nat /\ clock' = clock + 1
        /\ s.at \in Nat /\ t.at \in Nat /\ s.until \in Nat /\ t \in taken
    BY Numbers DEF SInv, SnapshotTypeOK, Snapshots!Tick
  <2>3. ~Snapshots!KeptAsIs(s)' BY <2>1, <2>2, SpansAssumption
    DEF Snapshots!KeptAsIs, Snapshots!IsProtected, Snapshots!Age
  <2>4. /\ Snapshots!Age(s) \in Int /\ Snapshots!Age(s)' \in Int
        /\ Snapshots!Age(s) <= Snapshots!Age(s)'
    BY <2>2 DEF Snapshots!Age
  <2>5. s.at \div Length(Snapshots!Age(s)) = t.at \div Length(Snapshots!Age(s)) BY <2>1,
    PeriodByLength
  <2>6. s.at \div Length(Snapshots!Age(s)') = t.at \div Length(Snapshots!Age(s)')
    BY <2>2, <2>4, <2>5, OlderIsCoarser
  <2>7. Snapshots!SamePeriod(s, t)' BY <2>6 DEF Snapshots!SamePeriod, Length, Snapshots!Age
  <2> QED BY <2>1, <2>3, <2>7
<1> QED BY <1>1, <1>2 DEF SInv

\* What is lost stays represented while nothing is pruned and the clock stands.
LEMMA LostStayRepresented ==
  ASSUME SInv, UNCHANGED clock, NEW s \in taken, s \notin snapshots,
         \A t \in snapshots : \E u \in snapshots' : u.id = t.id /\ u.at = t.at
  PROVE  ~Snapshots!KeptAsIs(s)' /\ \E t \in snapshots' : Snapshots!Before(s,
    t) /\ Snapshots!SamePeriod(s, t)'
<1>1. PICK t \in snapshots : ~Snapshots!KeptAsIs(s) /\ Snapshots!Before(s,
  t) /\ Snapshots!SamePeriod(s, t)
  BY DEF SInv, Snapshots!NothingIsLostUnrepresented
<1>2. PICK u \in snapshots' : u.id = t.id /\ u.at = t.at OBVIOUS
<1>3. Snapshots!Before(s, u) BY <1>1, <1>2 DEF Snapshots!Before
<1>4. Snapshots!SamePeriod(s, u)' BY <1>1, <1>2 DEF Snapshots!SamePeriod, Snapshots!Age
<1>5. ~Snapshots!KeptAsIs(s)' BY <1>1
  DEF Snapshots!KeptAsIs, Snapshots!IsProtected, Snapshots!Age
<1> QED BY <1>3, <1>4, <1>5

\* A new snapshot has the next number.
LEMMA TakeKeeps ==
  ASSUME SInv, NEW until \in Nat, Snapshots!Take(until)
  PROVE  SInv'
<1>0. PICK new :
        new = [id |-> Cardinality(taken), at |-> clock, content |-> copy.content,
               until |-> until]
  OBVIOUS
<1>1. /\ SnapshotTypeOK /\ Numbered /\ UNCHANGED <<clock, copy>>
      /\ snapshots' = snapshots \cup {new} /\ taken' = taken \cup {new}
  <2>1. SnapshotTypeOK /\ Numbered BY DEF SInv
  <2>2. /\ UNCHANGED <<clock, copy>>
        /\ snapshots' = snapshots \cup {Snapshots!Taken(until)}
        /\ taken' = taken \cup {Snapshots!Taken(until)}
    BY DEF Snapshots!Take
  <2>3. Snapshots!Taken(until) = new BY <1>0, SameCardinality DEF Snapshots!Taken
  <2> QED BY <2>1, <2>2, <2>3
<1>2. new.id = Cardinality(taken) BY <1>0
<1>3. new \in Snapshot BY <1>0, <1>1, Numbers DEF SnapshotTypeOK, Snapshot
<1>4. new \notin taken BY <1>1, <1>2, Numbers DEF Numbered
<1>5. IsFiniteSet(taken') /\ Cardinality(taken') = Cardinality(taken) + 1
  BY <1>1, <1>4, FS_AddElement DEF SnapshotTypeOK
<1>6. SnapshotTypeOK' BY <1>1, <1>3, <1>5 DEF SnapshotTypeOK
<1>7. Numbered' BY <1>1, <1>2, <1>3, <1>5, Numbers DEF Numbered
<1>8. Snapshots!NothingIsLostUnrepresented'
  <2> SUFFICES ASSUME NEW s \in taken', s \notin snapshots'
               PROVE  ~Snapshots!KeptAsIs(s)' /\ \E t \in snapshots' : Snapshots!Before(s,
                 t) /\ Snapshots!SamePeriod(s, t)'
    BY DEF Snapshots!NothingIsLostUnrepresented, Snapshots!Before
  <2>1. s \in taken /\ s \notin snapshots BY <1>1
  <2>2. \A t \in snapshots : \E u \in snapshots' : u.id = t.id /\ u.at = t.at BY <1>1
  <2> QED BY <1>1, <2>1, <2>2, LostStayRepresented
<1> QED BY <1>6, <1>7, <1>8 DEF SInv

\* A promotion keeps the number and the time.
LEMMA PromoteKeeps ==
  ASSUME SInv, NEW p \in snapshots, Snapshots!Promote(p)
  PROVE  SInv'
<1> DEFINE protected == [p EXCEPT !.until = Snapshots!Forever]
<1>1. /\ SnapshotTypeOK /\ Numbered /\ UNCHANGED <<clock, copy>> /\ p \in taken /\ p \in Snapshot
      /\ p.until # Snapshots!Forever
      /\ snapshots' = (snapshots \ {p}) \cup {protected}
      /\ taken' = (taken \ {p}) \cup {protected}
  BY DEF SInv, Snapshots!Promote, SnapshotTypeOK
<1>2. /\ protected \in Snapshot /\ protected # p
      /\ protected.id = p.id /\ protected.at = p.at
  BY <1>1, Numbers DEF Snapshot
<1> HIDE DEF protected
<1>3. protected \notin taken BY <1>1, <1>2 DEF Numbered
<1>4. IsFiniteSet(taken \ {p}) /\ Cardinality(taken \ {p}) = Cardinality(taken) - 1
  BY <1>1, FS_RemoveElement DEF SnapshotTypeOK
<1>5. IsFiniteSet(taken') /\ Cardinality(taken') = Cardinality(taken)
  <2>1. protected \notin taken \ {p} BY <1>3
  <2>2. IsFiniteSet(taken') /\ Cardinality(taken') = Cardinality(taken \ {p}) + 1
    BY <1>1, <1>4, <2>1, FS_AddElement
  <2> QED BY <1>1, <1>4, <2>2, Numbers
<1>6. SnapshotTypeOK' BY <1>1, <1>2, <1>5 DEF SnapshotTypeOK
<1>7. Numbered' BY <1>1, <1>2, <1>5 DEF Numbered
<1>8. Snapshots!NothingIsLostUnrepresented'
  <2> SUFFICES ASSUME NEW s \in taken', s \notin snapshots'
               PROVE  ~Snapshots!KeptAsIs(s)' /\ \E t \in snapshots' : Snapshots!Before(s,
                 t) /\ Snapshots!SamePeriod(s, t)'
    BY DEF Snapshots!NothingIsLostUnrepresented, Snapshots!Before
  <2>1. s \in taken /\ s \notin snapshots BY <1>1
  <2>2. \A t \in snapshots : \E u \in snapshots' : u.id = t.id /\ u.at = t.at
    BY <1>1, <1>2
  <2> QED BY <1>1, <2>1, <2>2, LostStayRepresented
<1> QED BY <1>6, <1>7, <1>8 DEF SInv

\* What a pruned snapshot stood for is older, so that the one that stays stands for it.
LEMMA PruneKeeps ==
  ASSUME SInv, Snapshots!Prune
  PROVE  SInv'
<1>1. /\ SnapshotTypeOK /\ Numbered /\ UNCHANGED <<clock, copy, taken>>
      /\ snapshots' = Snapshots!Keep(snapshots)
      /\ Snapshots!Keep(snapshots) \subseteq snapshots
      /\ snapshots \subseteq taken
  BY DEF SInv, Snapshots!Prune, Snapshots!Keep, SnapshotTypeOK
<1>2. SnapshotTypeOK' /\ Numbered' BY <1>1 DEF SnapshotTypeOK, Numbered
<1>3. ASSUME NEW s \in taken, s \notin Snapshots!Keep(snapshots)
      PROVE  /\ ~Snapshots!KeptAsIs(s)
             /\ \E t \in Snapshots!Keep(snapshots) :
                  Snapshots!Before(s, t) /\ Snapshots!SamePeriod(s, t)
  <2>1. CASE s \in snapshots
    <3>1. PICK u \in Snapshots!Keep(snapshots) :
            ~Snapshots!KeptAsIs(s) /\ Snapshots!Before(s,
              u) /\ Snapshots!Bucket(u) = Snapshots!Bucket(s)
      BY <1>1, <1>3, <2>1, BucketsKeepTheirLast
    <3>2. Snapshots!SamePeriod(s, u) BY <1>1, <3>1, BucketIsPeriod, PeriodByLength
    <3> QED BY <3>1, <3>2
  <2>2. CASE s \notin snapshots
    <3>1. PICK t \in snapshots : ~Snapshots!KeptAsIs(s) /\ Snapshots!Before(s,
      t) /\ Snapshots!SamePeriod(s, t)
      BY <2>2 DEF SInv, Snapshots!NothingIsLostUnrepresented
    <3>2. CASE t \in Snapshots!Keep(snapshots) BY <3>1, <3>2
    <3>3. CASE t \notin Snapshots!Keep(snapshots)
      <4>1. PICK u \in Snapshots!Keep(snapshots) : Snapshots!Before(t,
        u) /\ Snapshots!Bucket(u) = Snapshots!Bucket(t)
        BY <1>1, <3>3, BucketsKeepTheirLast
      <4>2. t \in taken /\ u \in taken BY <1>1
      <4>3. /\ {s.at, t.at, u.at} \subseteq Nat /\ {s.id, t.id, u.id} \subseteq Nat
            /\ Snapshots!Age(s) \in Int /\ Snapshots!Age(t) \in Int
        BY <1>1, <4>2, Numbers
      <4>4. Snapshots!Before(s, u) BY <3>1, <4>1, <4>3 DEF Snapshots!Before
      <4>5. Snapshots!Age(t) <= Snapshots!Age(s) BY <1>1, <3>1, <4>3
        DEF Snapshots!Before, Snapshots!Age, SnapshotTypeOK
      <4>6. t.at \div Length(Snapshots!Age(t)) = u.at \div Length(Snapshots!Age(t))
        BY <1>1, <4>1, <4>2, BucketIsPeriod
      <4>7. t.at \div Length(Snapshots!Age(s)) = u.at \div Length(Snapshots!Age(s))
        BY <4>3, <4>5, <4>6, OlderIsCoarser
      <4>8. Snapshots!SamePeriod(s, u) BY <3>1, <4>7, PeriodByLength
      <4> QED BY <3>1, <4>1, <4>4, <4>8
    <3> QED BY <3>2, <3>3
  <2> QED BY <2>1, <2>2
<1>4. Snapshots!NothingIsLostUnrepresented'
  BY <1>1, <1>3
  DEF Snapshots!NothingIsLostUnrepresented, Snapshots!KeptAsIs, Snapshots!IsProtected,
      Snapshots!Age, Snapshots!SamePeriod, Snapshots!Before
<1> QED BY <1>2, <1>4 DEF SInv

\* Ids number the snapshots, and what is lost is represented.
THEOREM SnapshotsInvariance == Snapshots!Spec => []SInv
<1>1. Snapshots!Init => SInv
  <2> SUFFICES ASSUME Snapshots!Init PROVE SInv OBVIOUS
  <2>1. IsFiniteSet(taken) BY FS_EmptySet DEF Snapshots!Init
  <2>2. SnapshotTypeOK BY <2>1 DEF Snapshots!Init, SnapshotTypeOK
  <2> QED BY <2>2 DEF Snapshots!Init, SInv, Numbered, Snapshots!NothingIsLostUnrepresented
<1>2. SInv /\ [Snapshots!Next]_(Snapshots!vars) => SInv'
  <2> SUFFICES ASSUME SInv, [Snapshots!Next]_(Snapshots!vars) PROVE SInv' OBVIOUS
  <2>1. CASE Snapshots!Tick BY <2>1, TickKeeps
  <2>2. CASE Snapshots!TakeWhenDue BY <2>2, TakeKeeps DEF Snapshots!TakeWhenDue
  <2>3. CASE Snapshots!TakeAtOperation
    <3>1. SnapshotTypeOK BY DEF SInv
    <3>2. PICK until \in {clock + Protection, Snapshots!Forever} : Snapshots!Take(until)
      BY <2>3 DEF Snapshots!TakeAtOperation
    <3> QED BY <3>1, <3>2, Numbers, TakeKeeps
  <2>4. CASE Snapshots!Prune BY <2>4, PruneKeeps
  <2>5. ASSUME NEW c \in Contents, Snapshots!Edit(c) PROVE SInv'
    <3>1. SnapshotTypeOK' BY <2>5 DEF Snapshots!Edit, SInv, SnapshotTypeOK
    <3>2. Numbered' BY <2>5 DEF Snapshots!Edit, SInv, Numbered
    <3>3. Snapshots!NothingIsLostUnrepresented'
      BY <2>5
      DEF Snapshots!Edit, SInv, Snapshots!NothingIsLostUnrepresented, Snapshots!KeptAsIs,
          Snapshots!IsProtected, Snapshots!Age, Snapshots!SamePeriod,
          Snapshots!Before
    <3> QED BY <3>1, <3>2, <3>3 DEF SInv
  <2>6. ASSUME NEW s \in snapshots, Snapshots!Promote(s) PROVE SInv'
    BY <2>6, PromoteKeeps
  <2>7. CASE UNCHANGED Snapshots!vars
    BY <2>7
    DEF Snapshots!vars, SInv, SnapshotTypeOK, Numbered, Snapshots!NothingIsLostUnrepresented,
        Snapshots!KeptAsIs, Snapshots!IsProtected,
        Snapshots!Age, Snapshots!SamePeriod, Snapshots!Before
  <2> QED BY <2>1, <2>2, <2>3, <2>4, <2>5, <2>6, <2>7 DEF Snapshots!Next
<1> QED BY <1>1, <1>2, PTL DEF Snapshots!Spec

\* However often and whenever it is pruned, whatever is gone was neither recent nor
\* protected and has a later snapshot of its hour, day or month in its place.
THEOREM EverythingIsRepresented == Snapshots!Spec => []NothingIsLostUnrepresented
<1>1. SInv => NothingIsLostUnrepresented BY DEF SInv, NothingIsLostUnrepresented
<1> QED BY <1>1, SnapshotsInvariance, PTL

-----------------------------------------------------------------------------
(* Branches: for any branches, texts, callers and bounds.                  *)

BranchRecord == [head : Nat, archived : BOOLEAN, promoted : BOOLEAN]
BranchCall ==
  [op : {"archive", "promote", "unpromote", "makeMain", "detach"}, of : Branches,
   at : {"read", "syncing", "restoring", "linking"}, seen : [Branches -> BranchRecord],
   stale : SUBSET Branches, work : Nat]

BranchTypeOK ==
  /\ branch \in [Branches -> BranchRecord] /\ meant \in [Branches -> BranchRecord]
  /\ (\E S : revs \in Seq(S)) /\ detached \in Seq({"none", "linked", "reported"})
  /\ call \in [Callers -> BranchCall \cup {Branching!Idle}]

Busy(c) == call[c] # Branching!Idle
Restoring(c) == Busy(c) /\ call[c].at = "restoring"

\* The stages of the calls.
IsStaged(c) ==
  Busy(c) => /\ call[c].at \in {"syncing", "restoring"} => call[c].op = "makeMain"
             /\ call[c].at = "linking" => call[c].op = "detach"

\* What a call has read and nobody has written since is what there is.
ReadIsFresh(c) ==
  Busy(c) /\ call[c].at = "read" =>
    \A b \in Branches \ call[c].stale : branch[b] = call[c].seen[b]

\* And between its two commits main is as makeMain has written it.
MainIsAdvanced(c) ==
  Busy(c) /\ call[c].at \in {"syncing", "restoring"} /\ main \in Branches \ call[c].stale =>
    \E h \in Nat : branch[main] = [call[c].seen[main] EXCEPT !.head = h]

\* What the only call that is about to put main back will put back.
RestoredIsMeant(c) ==
  /\ Restoring(c) /\ main \in Branches \ (excused \cup call[c].stale)
  /\ \A d \in Callers \ {c} : ~Restoring(d)
  => meant[main] = call[c].seen[main]

CallIsRight(c) == IsStaged(c) /\ ReadIsFresh(c) /\ MainIsAdvanced(c) /\ RestoredIsMeant(c)

OthersAreAsAsked == \A b \in Branches \ (excused \cup {main}) : branch[b] = meant[b]

MainIsAsAsked ==
  main \in Branches \ excused /\ (\A c \in Callers : ~Restoring(c)) => branch[main] = meant[main]

BInv ==
  /\ BranchTypeOK /\ (\A c \in Callers : CallIsRight(c))
  /\ OthersAreAsAsked /\ MainIsAsAsked

LEMMA IdleIsNoCall == Branching!Idle \notin BranchCall
<1> SUFFICES ASSUME Branching!Idle \in BranchCall PROVE FALSE OBVIOUS
<1>1. Branching!Idle.op \in {"archive", "promote", "unpromote", "makeMain", "detach"}
  BY DEF BranchCall
<1>2. Branching!Idle.op = "none" BY DEF Branching!Idle
<1> QED BY <1>1, <1>2

\* A change of a call under way.
LEMMA CallFields ==
  ASSUME BranchTypeOK, NEW c \in Callers, Busy(c)
  PROVE  /\ call[c] \in BranchCall /\ call[c].of \in Branches
         /\ call[c].seen \in [Branches -> BranchRecord]
         /\ call[c].stale \in SUBSET Branches
BY IdleIsNoCall DEF BranchTypeOK, Busy, BranchCall

\* After a write every call that is under way holds a stale record, and is the same otherwise.
LEMMA OvertakenCalls ==
  ASSUME BranchTypeOK, NEW b \in Branches
  PROVE  LET over == Branching!Overtaken(b) IN
         /\ over \in [Callers -> BranchCall \cup {Branching!Idle}]
         /\ \A c \in Callers :
              /\ over[c] # Branching!Idle <=> Busy(c)
              /\ Busy(c) => /\ over[c].stale = call[c].stale \cup {b}
                            /\ over[c].seen = call[c].seen /\ over[c].at = call[c].at
                            /\ over[c].op = call[c].op /\ over[c].of = call[c].of
<1> DEFINE over == Branching!Overtaken(b)
<1>1. ASSUME NEW c \in Callers, ~Busy(c)
      PROVE  over[c] = Branching!Idle
  BY <1>1 DEF Branching!Overtaken, Busy
<1>2. ASSUME NEW c \in Callers, Busy(c)
      PROVE  /\ over[c] \in BranchCall
             /\ over[c].stale = call[c].stale \cup {b}
             /\ over[c].seen = call[c].seen /\ over[c].at = call[c].at
             /\ over[c].op = call[c].op /\ over[c].of = call[c].of
  <2>1. over[c] = [call[c] EXCEPT !.stale = @ \cup {b}]
    BY <1>2 DEF Branching!Overtaken, Busy
  <2> QED BY <2>1, <1>2, CallFields DEF BranchCall
<1>3. over = [c \in Callers |-> over[c]] BY DEF Branching!Overtaken
<1> HIDE DEF over
<1>4. over \in [Callers -> BranchCall \cup {Branching!Idle}] BY <1>1, <1>2, <1>3
<1>5. \A c \in Callers : over[c] # Branching!Idle <=> Busy(c) BY <1>1, <1>2, IdleIsNoCall
<1> QED BY <1>2, <1>4, <1>5 DEF over

\* A call that another one's write of branch b has overtaken.
Behind(d, b) ==
  /\ Busy(d)' <=> Busy(d)
  /\ Busy(d) => /\ call'[d].stale = call[d].stale \cup {b}
                /\ call'[d].seen = call[d].seen /\ call'[d].at = call[d].at
                /\ call'[d].op = call[d].op /\ call'[d].of = call[d].of

LEMMA OvertakenIsRight ==
  ASSUME BInv, NEW b \in Branches, NEW d \in Callers, Behind(d, b),
         excused \subseteq excused',
         \A x \in Branches \ {b} : branch'[x] = branch[x] /\ meant'[x] = meant[x],
         b = main \/ \A e \in Callers : Restoring(e) => Restoring(e)'
  PROVE  CallIsRight(d)'
<1>1. CallIsRight(d) BY DEF BInv
<1>2. IsStaged(d)' /\ ReadIsFresh(d)'
  BY <1>1 DEF Behind, CallIsRight, IsStaged, ReadIsFresh
<1>3. MainIsAdvanced(d)'
  <2>1. CASE b = main BY <1>1, <2>1 DEF Behind, CallIsRight, MainIsAdvanced
  <2>2. CASE b # main BY <1>1, <2>2 DEF Behind, CallIsRight, MainIsAdvanced
  <2> QED BY <2>1, <2>2
<1>4. Restoring(d)' => Restoring(d) BY DEF Behind, Restoring
<1>5. RestoredIsMeant(d)'
  <2>1. CASE b = main BY <1>4, <2>1 DEF Behind, RestoredIsMeant, Restoring
  <2>2. CASE b # main BY <1>1, <1>4, <2>2 DEF Behind, CallIsRight, RestoredIsMeant, Restoring
  <2> QED BY <2>1, <2>2
<1> QED BY <1>2, <1>3, <1>5 DEF CallIsRight

\* A call that the step of another one leaves alone.
LEMMA OtherIsRight ==
  ASSUME BInv, NEW d \in Callers, call'[d] = call[d], branch' = branch,
         excused \subseteq excused', meant' = meant \/ (\E e \in Callers \ {d} : Restoring(e)'),
         main \in excused' \/ \A e \in Callers : Restoring(e) => Restoring(e)'
  PROVE  CallIsRight(d)'
<1>1. CallIsRight(d) BY DEF BInv
<1>2. (Busy(d)' <=> Busy(d)) /\ (Restoring(d)' <=> Restoring(d)) BY DEF Busy, Restoring
<1>3. IsStaged(d)' /\ ReadIsFresh(d)'
  BY <1>1, <1>2 DEF CallIsRight, IsStaged, ReadIsFresh
<1>4. MainIsAdvanced(d)' BY <1>1, <1>2 DEF CallIsRight, MainIsAdvanced
<1>5. RestoredIsMeant(d)' BY <1>1, <1>2 DEF CallIsRight, RestoredIsMeant
<1> QED BY <1>3, <1>4, <1>5 DEF CallIsRight

\* A write of the record rec of branch b by call c, which goes on as done.
LEMMA WriteType ==
  ASSUME BranchTypeOK, NEW c \in Callers, NEW b \in Branches, NEW rec \in BranchRecord,
         NEW done \in BranchCall \cup {Branching!Idle}, Branching!Write(c, b, rec, done)
  PROVE  /\ branch' \in [Branches -> BranchRecord]
         /\ call' \in [Callers -> BranchCall \cup {Branching!Idle}]
         /\ branch'[b] = rec /\ \A x \in Branches \ {b} : branch'[x] = branch[x]
         /\ call'[c] = done /\ \A d \in Callers \ {c} : Behind(d, b)
<1> DEFINE over == Branching!Overtaken(b)
<1>1. /\ over \in [Callers -> BranchCall \cup {Branching!Idle}]
      /\ \A d \in Callers :
              /\ over[d] # Branching!Idle <=> Busy(d)
              /\ Busy(d) => /\ over[d].stale = call[d].stale \cup {b}
                            /\ over[d].seen = call[d].seen /\ over[d].at = call[d].at
                            /\ over[d].op = call[d].op /\ over[d].of = call[d].of
  BY OvertakenCalls
<1>2. call' = [over EXCEPT ![c] = done] /\ branch' = [branch EXCEPT ![b] = rec]
  BY DEF Branching!Write
<1> HIDE DEF over
<1>3. \A d \in Callers \ {c} : call'[d] = over[d] BY <1>1, <1>2
<1>4. \A d \in Callers \ {c} : Behind(d, b) BY <1>1, <1>3 DEF Behind, Busy
<1>5. branch' \in [Branches -> BranchRecord] /\ branch'[b] = rec
      /\ \A x \in Branches \ {b} : branch'[x] = branch[x]
  BY <1>2 DEF BranchTypeOK
<1> QED BY <1>1, <1>2, <1>4, <1>5

\* A call that has ended, or only read, is right.
LEMMA IdleIsRight ==
  ASSUME NEW c, call'[c] = Branching!Idle
  PROVE  CallIsRight(c)' /\ ~Restoring(c)'
BY DEF CallIsRight, IsStaged, ReadIsFresh, MainIsAdvanced, RestoredIsMeant, Busy, Restoring

LEMMA BranchInitial == ASSUME Branching!Init PROVE BInv
<1>1. BranchTypeOK
  <2>1. \A b \in Branches :
          [head |-> 1, archived |-> FALSE, promoted |-> FALSE] \in BranchRecord
    BY DEF BranchRecord
  <2>2. branch \in [Branches -> BranchRecord] BY <2>1 DEF Branching!Init
  <2>3. (\E S : revs \in Seq(S)) /\ detached \in Seq({"none", "linked", "reported"})
    BY DEF Branching!Init
  <2> QED BY <2>2, <2>3 DEF Branching!Init, BranchTypeOK
<1>2. \A c \in Callers : ~Busy(c) BY DEF Branching!Init, Busy
<1>3. \A c \in Callers : CallIsRight(c)
  BY <1>2 DEF CallIsRight, IsStaged, ReadIsFresh, MainIsAdvanced, RestoredIsMeant, Restoring
<1> QED BY <1>1, <1>3 DEF BInv, OthersAreAsAsked, MainIsAsAsked, Branching!Init

LEMMA BranchSaveDraft == ASSUME BInv, Branching!SaveDraft PROVE BInv'
<1> USE DEF Branching!SaveDraft
<1>1. BranchTypeOK' BY DEF BInv, BranchTypeOK
<1>2. \A c \in Callers : CallIsRight(c)'
  BY DEF BInv, CallIsRight, IsStaged, ReadIsFresh, MainIsAdvanced, RestoredIsMeant, Restoring,
         Busy
<1>3. OthersAreAsAsked' /\ MainIsAsAsked'
  BY DEF BInv, OthersAreAsAsked, MainIsAsAsked, Restoring, Busy
<1> QED BY <1>1, <1>2, <1>3 DEF BInv

LEMMA AppendAny ==
  ASSUME NEW S, NEW q \in Seq(S), NEW t
  PROVE  Append(q, t) \in Seq(S \cup {t})
<1>1. q \in Seq(S \cup {t}) OBVIOUS
<1> QED BY <1>1

LEMMA BranchCreateRevision == ASSUME BInv, Branching!CreateRevision PROVE BInv'
<1>0. BranchTypeOK BY DEF BInv
<1>1. PICK b \in Branches :
        /\ revs' = Append(revs, draft[b])
        /\ branch' = [branch EXCEPT ![b].head = Len(revs) + 1]
        /\ meant' = [meant EXCEPT ![b].head = Len(revs) + 1]
        /\ call' = Branching!Overtaken(b)
        /\ UNCHANGED <<draft, detached, calls, excused>>
  BY DEF Branching!CreateRevision
<1>2. PICK S : revs \in Seq(S) BY <1>0 DEF BranchTypeOK
<1>3. Len(revs) + 1 \in Nat BY <1>2
<1>4. \E R : revs' \in Seq(R) BY <1>1, <1>2, AppendAny
<1>5. branch' \in [Branches -> BranchRecord] /\ meant' \in [Branches -> BranchRecord]
  BY <1>0, <1>1, <1>3 DEF BranchTypeOK, BranchRecord
<1>6. /\ call' \in [Callers -> BranchCall \cup {Branching!Idle}]
      /\ \A d \in Callers : Behind(d, b)
  BY <1>0, <1>1, OvertakenCalls DEF Behind, Busy
<1>7. BranchTypeOK' BY <1>0, <1>1, <1>4, <1>5, <1>6 DEF BranchTypeOK
<1>8. /\ branch[b] = meant[b] => branch'[b] = meant'[b]
      /\ \A x \in Branches \ {b} : branch'[x] = branch[x] /\ meant'[x] = meant[x]
  BY <1>0, <1>1 DEF BranchTypeOK
<1>9. \A d \in Callers : Restoring(d)' <=> Restoring(d) BY <1>6 DEF Behind, Restoring
<1>10. \A d \in Callers : CallIsRight(d)' BY <1>1, <1>6, <1>8, <1>9, OvertakenIsRight
<1>11. OthersAreAsAsked' /\ MainIsAsAsked'
  BY <1>1, <1>8, <1>9 DEF BInv, OthersAreAsAsked, MainIsAsAsked
<1> QED BY <1>7, <1>10, <1>11 DEF BInv

LEMMA BranchBegin ==
  ASSUME BInv, NEW c \in Callers, Branching!Begin(c) PROVE BInv'
<1>0. BranchTypeOK BY DEF BInv
<1> DEFINE begun(op, b) ==
      [op |-> op, of |-> b, at |-> "read", seen |-> branch, stale |-> {}, work |-> 0]
<1>1. PICK op \in {"archive", "promote", "unpromote", "makeMain", "detach"}, b \in Branches :
        call' = [call EXCEPT ![c] = begun(op, b)]
  BY DEF Branching!Begin
<1>2. ~Busy(c) /\ UNCHANGED <<branch, draft, revs, detached, meant, excused>>
  BY DEF Branching!Begin, Busy
<1>3. begun(op, b) \in BranchCall BY <1>0 DEF BranchTypeOK, BranchCall
<1>4. begun(op, b).at = "read" /\ begun(op, b).seen = branch OBVIOUS
<1> HIDE DEF begun
<1>5. BranchTypeOK' BY <1>0, <1>1, <1>2, <1>3 DEF BranchTypeOK
<1>6. call'[c] = begun(op, b) /\ \A d \in Callers \ {c} : call'[d] = call[d]
  BY <1>0, <1>1 DEF BranchTypeOK
<1>7. \A d \in Callers : Restoring(d)' <=> Restoring(d)
  BY <1>2, <1>4, <1>6 DEF Restoring, Busy
<1>8. \A d \in Callers \ {c} : CallIsRight(d)' BY <1>2, <1>6, <1>7, OtherIsRight
<1>9. CallIsRight(c)'
  BY <1>2, <1>4, <1>6
  DEF CallIsRight, IsStaged, ReadIsFresh, MainIsAdvanced, RestoredIsMeant, Restoring
<1>10. OthersAreAsAsked' /\ MainIsAsAsked'
  BY <1>2, <1>7 DEF BInv, OthersAreAsAsked, MainIsAsAsked
<1> QED BY <1>5, <1>8, <1>9, <1>10 DEF BInv

\* A call ends, or goes on with what it needs not promise any more.
LEMMA CallEnds ==
  ASSUME BInv, NEW c \in Callers, ~Restoring(c), NEW done \in BranchCall \cup {Branching!Idle},
         (done.at = "linking" /\ done.op = "detach") \/ done = Branching!Idle,
         call' = [call EXCEPT ![c] = done],
         UNCHANGED <<branch, revs, meant, excused>>,
         detached' \in Seq({"none", "linked", "reported"})
  PROVE  BInv'
<1>0. BranchTypeOK BY DEF BInv
<1>1. BranchTypeOK' BY <1>0 DEF BranchTypeOK
<1>2. call'[c] = done /\ \A d \in Callers \ {c} : call'[d] = call[d]
  BY <1>0 DEF BranchTypeOK
<1>3. CallIsRight(c)' /\ ~Restoring(c)'
  BY <1>2 DEF CallIsRight, IsStaged, ReadIsFresh, MainIsAdvanced, RestoredIsMeant, Restoring,
              Busy
<1>4. \A d \in Callers : Restoring(d)' <=> Restoring(d)
  BY <1>2, <1>3 DEF Restoring, Busy
<1>5. \A d \in Callers \ {c} : CallIsRight(d)' BY <1>2, <1>4, OtherIsRight
<1>6. OthersAreAsAsked' /\ MainIsAsAsked'
  BY <1>4 DEF BInv, OthersAreAsAsked, MainIsAsAsked
<1> QED BY <1>1, <1>3, <1>5, <1>6 DEF BInv

LEMMA BranchRefused ==
  ASSUME BInv, NEW c \in Callers, Branching!Refused(c) PROVE BInv'
BY CallEnds DEF Branching!Refused, Restoring, BInv, BranchTypeOK

LEMMA BranchSyncDraft ==
  ASSUME BInv, NEW c \in Callers, Branching!SyncDraft(c) PROVE BInv'
<1>1. /\ ~Restoring(c) /\ call' = [call EXCEPT ![c] = Branching!Idle]
      /\ UNCHANGED <<branch, revs, meant, excused, detached>>
  BY DEF Branching!SyncDraft, Restoring
<1> QED BY <1>1, CallEnds DEF BInv, BranchTypeOK

LEMMA BranchCreateBundle ==
  ASSUME BInv, NEW c \in Callers, Branching!CreateBundle(c) PROVE BInv'
<1>1. Busy(c) BY DEF Branching!CreateBundle, Busy, Branching!Idle
<1>2. call[c] \in BranchCall BY <1>1, CallFields DEF BInv
<1> DEFINE done == [call[c] EXCEPT !.at = "linking", !.work = Len(detached) + 1]
<1>3. /\ detached \in Seq({"none", "linked", "reported"})
      /\ call \in [Callers -> BranchCall \cup {Branching!Idle}]
  BY DEF BInv, BranchTypeOK
<1>3a. Len(detached) + 1 \in Nat BY <1>3
<1>3b. call[c].op = "detach" BY DEF Branching!CreateBundle
<1>4. done \in BranchCall /\ done.at = "linking" /\ done.op = "detach"
  BY <1>2, <1>3a, <1>3b DEF BranchCall
<1>5. call' = [call EXCEPT ![c] = done] BY <1>3 DEF Branching!CreateBundle
<1>6. detached' \in Seq({"none", "linked", "reported"}) BY <1>3 DEF Branching!CreateBundle
<1>7. ~Restoring(c) /\ UNCHANGED <<branch, revs, meant, excused>>
  BY DEF Branching!CreateBundle, Restoring
<1> HIDE DEF done
<1> QED BY <1>4, <1>5, <1>6, <1>7, CallEnds

LEMMA ReplacedInSequence ==
  ASSUME NEW S, NEW q \in Seq(S), NEW i, NEW v \in S
  PROVE  [q EXCEPT ![i] = v] \in Seq(S)
<1>1. q \in [1..Len(q) -> S] /\ Len(q) \in Nat OBVIOUS
<1>2. [q EXCEPT ![i] = v] \in [1..Len(q) -> S] BY <1>1
<1> QED BY <1>1, <1>2

LEMMA BranchCreateLink ==
  ASSUME BInv, NEW c \in Callers, Branching!CreateLink(c) PROVE BInv'
<1>1. detached \in Seq({"none", "linked", "reported"}) BY DEF BInv, BranchTypeOK
<1>2. PICK result \in {"linked", "reported"} :
        /\ call[c].at = "linking"
        /\ detached' = [detached EXCEPT ![call[c].work] = result]
        /\ call' = [call EXCEPT ![c] = Branching!Idle]
        /\ UNCHANGED <<branch, draft, revs, calls, meant, excused>>
  BY DEF Branching!CreateLink
<1>3. detached' \in Seq({"none", "linked", "reported"}) BY <1>1, <1>2, ReplacedInSequence
<1>4. ~Restoring(c) BY <1>2 DEF Restoring
<1> QED BY <1>2, <1>3, <1>4, CallEnds

\* What a write of branch b by call c leaves right, if c itself and b are.
LEMMA RecordWritten ==
  ASSUME BInv, NEW c \in Callers, NEW b \in Branches, NEW rec \in BranchRecord,
         NEW done \in BranchCall \cup {Branching!Idle}, Branching!Write(c, b, rec, done),
         Busy(c), Restoring(c) => b = main,
         meant' \in [Branches -> BranchRecord],
         \A x \in Branches \ {b} : meant'[x] = meant[x], UNCHANGED <<revs, detached>>,
         CallIsRight(c)', ~Restoring(c)',
         b \notin excused /\ b \notin call[c].stale /\ (\A d \in Callers \ {c} : ~Restoring(d)) =>
           rec = meant'[b],
         b # main /\ b \notin excused /\ b \notin call[c].stale => rec = meant'[b]
  PROVE  BInv'
<1>0. BranchTypeOK BY DEF BInv
<1>1. /\ branch' \in [Branches -> BranchRecord]
      /\ call' \in [Callers -> BranchCall \cup {Branching!Idle}]
      /\ branch'[b] = rec /\ \A x \in Branches \ {b} : branch'[x] = branch[x]
      /\ call'[c] = done /\ \A d \in Callers \ {c} : Behind(d, b)
  BY <1>0, WriteType
<1>2. BranchTypeOK' BY <1>0, <1>1 DEF BranchTypeOK
<1>3. excused' = excused \cup ({b} \cap call[c].stale) BY DEF Branching!Write
<1>4. \A d \in Callers \ {c} : Restoring(d)' <=> Restoring(d) BY <1>1 DEF Behind, Restoring
<1>5. b = main \/ \A d \in Callers : Restoring(d) => Restoring(d)' BY <1>4
<1>6. \A d \in Callers \ {c} : CallIsRight(d)' BY <1>1, <1>3, <1>5, OvertakenIsRight
<1>7. OthersAreAsAsked' BY <1>1, <1>3 DEF BInv, OthersAreAsAsked
<1>8. MainIsAsAsked'
  <2>1. CASE b = main BY <1>1, <1>3, <1>4, <2>1 DEF MainIsAsAsked
  <2>2. CASE b # main BY <1>1, <1>3, <1>4, <1>5, <2>2 DEF BInv, MainIsAsAsked
  <2> QED BY <2>1, <2>2
<1> QED BY <1>2, <1>6, <1>7, <1>8 DEF BInv

LEMMA BranchWriteRecord ==
  ASSUME BInv, NEW c \in Callers, Branching!WriteRecord(c) PROVE BInv'
<1> DEFINE b == call[c].of
           archived(r) == r.archived \/ call[c].op = "archive"
           promoted(r) == (r.promoted \/ call[c].op = "promote") /\ call[c].op # "unpromote"
           rec == [call[c].seen[b] EXCEPT !.archived = archived(call[c].seen[b]),
                                          !.promoted = promoted(call[c].seen[b])]
           wanted == [meant[b] EXCEPT !.archived = archived(meant[b]),
                                      !.promoted = promoted(meant[b])]
<1>1. Busy(c) BY DEF Branching!WriteRecord, Busy, Branching!Idle
<1>2. /\ call[c] \in BranchCall /\ b \in Branches
      /\ call[c].seen \in [Branches -> BranchRecord] /\ meant \in [Branches -> BranchRecord]
  BY <1>1, CallFields DEF BInv, BranchTypeOK
<1>3. CallIsRight(c) BY DEF BInv
<1>4. call[c].at = "read"
  BY <1>1, <1>2, <1>3 DEF CallIsRight, IsStaged, Branching!WriteRecord, BranchCall
<1>5. rec \in BranchRecord /\ wanted \in BranchRecord
  <2>1. \A r \in BranchRecord, x, y \in BOOLEAN :
          [r EXCEPT !.archived = x, !.promoted = y] \in BranchRecord
    BY DEF BranchRecord
  <2>2. \A r \in BranchRecord : archived(r) \in BOOLEAN /\ promoted(r) \in BOOLEAN OBVIOUS
  <2>3. call[c].seen[b] \in BranchRecord /\ meant[b] \in BranchRecord BY <1>2
  <2> HIDE DEF archived, promoted, b
  <2> QED BY <2>1, <2>2, <2>3
<1>6. Branching!Write(c, b, rec, Branching!Idle) BY <1>2 DEF Branching!WriteRecord, BranchRecord
<1>7. meant' = [meant EXCEPT ![b] = wanted] BY <1>2 DEF Branching!WriteRecord, BranchRecord
<1>8. b \notin call[c].stale => call[c].seen[b] = branch[b]
  BY <1>1, <1>2, <1>3, <1>4 DEF CallIsRight, ReadIsFresh
<1>9. call[c].seen[b] = meant[b] => rec = wanted OBVIOUS
<1> HIDE DEF rec, wanted, b
<1>10. ~Restoring(c) /\ UNCHANGED <<revs, detached>>
  BY <1>4 DEF Restoring, Branching!WriteRecord
<1>11. /\ meant' \in [Branches -> BranchRecord] /\ meant'[b] = wanted
       /\ \A x \in Branches \ {b} : meant'[x] = meant[x]
  BY <1>2, <1>5, <1>7
<1>12. call'[c] = Branching!Idle BY <1>2, <1>5, <1>6, WriteType DEF BInv
<1>13. b # main /\ b \notin excused => branch[b] = meant[b]
  BY <1>2 DEF BInv, OthersAreAsAsked
<1>14. b = main /\ b \notin excused /\ (\A d \in Callers \ {c} : ~Restoring(d)) =>
         branch[b] = meant[b]
  BY <1>2, <1>10 DEF BInv, MainIsAsAsked
<1> QED BY <1>1, <1>2, <1>5, <1>6, <1>8, <1>9, <1>10, <1>11, <1>12, <1>13, <1>14,
           IdleIsRight, RecordWritten

LEMMA BranchAdvanceMain ==
  ASSUME BInv, NEW c \in Callers, Branching!AdvanceMain(c) PROVE BInv'
<1> USE NamesAssumption
<1> DEFINE head == call[c].seen[call[c].of].head
           rec == [call[c].seen[main] EXCEPT !.head = head]
           done == [call[c] EXCEPT !.at = "syncing"]
<1>1. Busy(c) BY DEF Branching!AdvanceMain, Busy, Branching!Idle
<1>2. /\ call[c] \in BranchCall /\ call[c].of \in Branches
      /\ call[c].seen \in [Branches -> BranchRecord] /\ meant \in [Branches -> BranchRecord]
      /\ call \in [Callers -> BranchCall \cup {Branching!Idle}]
  BY <1>1, CallFields DEF BInv, BranchTypeOK
<1>3. CallIsRight(c) BY DEF BInv
<1>4. head \in Nat BY <1>2 DEF BranchRecord
<1>5. /\ Branching!Write(c, main, rec, done) /\ meant' = [meant EXCEPT ![main].head = head]
      /\ UNCHANGED <<revs, detached>> /\ call[c].at = "read" /\ call[c].op = "makeMain"
  BY DEF Branching!AdvanceMain
<1>6. rec \in BranchRecord /\ [meant[main] EXCEPT !.head = head] \in BranchRecord
  BY <1>2, <1>4 DEF BranchRecord
<1>7. /\ done \in BranchCall /\ done.at = "syncing" /\ done.op = "makeMain"
      /\ done.seen = call[c].seen /\ done # Branching!Idle
  BY <1>2, <1>5, IdleIsNoCall DEF BranchCall
<1>8. main \notin call[c].stale => call[c].seen[main] = branch[main]
  BY <1>1, <1>3, <1>5 DEF CallIsRight, ReadIsFresh
<1>9. /\ meant' \in [Branches -> BranchRecord]
      /\ meant'[main] = [meant[main] EXCEPT !.head = head]
      /\ \A x \in Branches \ {main} : meant'[x] = meant[x]
  BY <1>2, <1>5, <1>6
<1>10. call[c].seen[main] = meant[main] => rec = meant'[main] BY <1>9
<1>11. \E h \in Nat : rec = [call[c].seen[main] EXCEPT !.head = h] BY <1>4
<1> HIDE DEF rec, done, head
<1>12. call'[c] = done /\ branch'[main] = rec
  BY <1>5, <1>6, <1>7, WriteType DEF BInv
<1>13. ~Restoring(c) /\ ~Restoring(c)' BY <1>5, <1>7, <1>12 DEF Restoring
<1>14. CallIsRight(c)'
  BY <1>7, <1>11, <1>12, <1>13
  DEF CallIsRight, IsStaged, ReadIsFresh, MainIsAdvanced, RestoredIsMeant
<1>15. main \notin excused /\ (\A d \in Callers \ {c} : ~Restoring(d)) =>
         branch[main] = meant[main]
  BY <1>13 DEF BInv, MainIsAsAsked
<1> QED BY <1>1, <1>5, <1>6, <1>7, <1>8, <1>9, <1>10, <1>13, <1>14, <1>15, RecordWritten

LEMMA BranchSyncFails ==
  ASSUME BInv, NEW c \in Callers, Branching!SyncFails(c) PROVE BInv'
<1> DEFINE done == [call[c] EXCEPT !.at = "restoring"]
<1>1. Busy(c) BY DEF Branching!SyncFails, Busy, Branching!Idle
<1>2. /\ call[c] \in BranchCall /\ call[c].seen \in [Branches -> BranchRecord]
      /\ meant \in [Branches -> BranchRecord]
      /\ call \in [Callers -> BranchCall \cup {Branching!Idle}]
  BY <1>1, CallFields DEF BInv, BranchTypeOK
<1>3. CallIsRight(c) /\ BranchTypeOK BY DEF BInv
<1>4. /\ call[c].at = "syncing" /\ call[c].op = "makeMain"
      /\ UNCHANGED <<branch, draft, revs, detached, calls, excused>>
      /\ meant' = [meant EXCEPT ![main].head = call[c].seen[main].head]
  BY DEF Branching!SyncFails
<1>5. call' = [call EXCEPT ![c] = done] BY <1>2 DEF Branching!SyncFails
<1>6. /\ done \in BranchCall /\ done.at = "restoring" /\ done.op = "makeMain"
      /\ done.seen = call[c].seen /\ done.stale = call[c].stale /\ done # Branching!Idle
  BY <1>2, <1>4, IdleIsNoCall DEF BranchCall
<1> HIDE DEF done
<1>7. call'[c] = done /\ \A d \in Callers \ {c} : call'[d] = call[d] BY <1>2, <1>5
<1>8. /\ meant' \in [Branches -> BranchRecord]
      /\ \A b \in Branches \ {main} : meant'[b] = meant[b]
      /\ main \in Branches =>
           meant'[main] = [meant[main] EXCEPT !.head = call[c].seen[main].head]
  BY <1>2, <1>4 DEF BranchRecord
<1>9. BranchTypeOK' BY <1>2, <1>3, <1>4, <1>5, <1>6, <1>8 DEF BranchTypeOK
<1>10. ~Restoring(c) /\ Restoring(c)' BY <1>4, <1>6, <1>7 DEF Restoring, Busy
<1>11. \A d \in Callers : Restoring(d) => Restoring(d)'
  BY <1>7, <1>10 DEF Restoring, Busy
<1>12. \A d \in Callers \ {c} : CallIsRight(d)' BY <1>4, <1>7, <1>10, <1>11, OtherIsRight
<1>13. IsStaged(c)' /\ ReadIsFresh(c)' BY <1>6, <1>7 DEF IsStaged, ReadIsFresh
<1>14. MainIsAdvanced(c)'
  BY <1>1, <1>3, <1>4, <1>6, <1>7 DEF CallIsRight, MainIsAdvanced
<1>15. RestoredIsMeant(c)'
  <2> SUFFICES ASSUME main \in Branches \ (excused \cup call[c].stale),
                      \A d \in Callers \ {c} : ~Restoring(d)
               PROVE  meant'[main] = call[c].seen[main]
    BY <1>4, <1>6, <1>7, <1>11 DEF RestoredIsMeant
  <2>1. branch[main] = meant[main] BY <1>10 DEF BInv, MainIsAsAsked
  <2>2. PICK h \in Nat : branch[main] = [call[c].seen[main] EXCEPT !.head = h]
    BY <1>1, <1>3, <1>4 DEF CallIsRight, MainIsAdvanced
  <2>3. call[c].seen[main] \in BranchRecord BY <1>2
  <2>4. \A r \in BranchRecord : [[r EXCEPT !.head = h] EXCEPT !.head = r.head] = r
    BY DEF BranchRecord
  <2> QED BY <1>8, <2>1, <2>2, <2>3, <2>4
<1>16. OthersAreAsAsked' /\ MainIsAsAsked'
  BY <1>4, <1>8, <1>10 DEF BInv, OthersAreAsAsked, MainIsAsAsked
<1> QED BY <1>9, <1>12, <1>13, <1>14, <1>15, <1>16 DEF BInv, CallIsRight

LEMMA BranchRestoreMain ==
  ASSUME BInv, NEW c \in Callers, Branching!RestoreMain(c) PROVE BInv'
<1> USE NamesAssumption
<1>1. Busy(c) BY DEF Branching!RestoreMain, Busy, Branching!Idle
<1>2. /\ call[c] \in BranchCall /\ call[c].seen[main] \in BranchRecord
      /\ meant \in [Branches -> BranchRecord]
  BY <1>1, CallFields DEF BInv, BranchTypeOK
<1>3. /\ Branching!Write(c, main, call[c].seen[main], Branching!Idle)
      /\ UNCHANGED <<revs, detached, meant>> /\ call[c].at = "restoring"
  BY DEF Branching!RestoreMain, Branching!restored
<1>4. call'[c] = Branching!Idle BY <1>2, <1>3, WriteType DEF BInv
<1>5. main \notin excused /\ main \notin call[c].stale
        /\ (\A d \in Callers \ {c} : ~Restoring(d)) => meant[main] = call[c].seen[main]
  BY <1>1, <1>3 DEF BInv, CallIsRight, RestoredIsMeant, Restoring
<1> QED BY <1>1, <1>2, <1>3, <1>4, <1>5, IdleIsRight, RecordWritten

LEMMA BranchRestoreFails ==
  ASSUME BInv, NEW c \in Callers, Branching!RestoreFails(c) PROVE BInv'
<1>0. BranchTypeOK BY DEF BInv
<1>1. /\ call' = [call EXCEPT ![c] = Branching!Idle] /\ excused' = excused \cup {main}
      /\ UNCHANGED <<branch, draft, revs, detached, calls, meant>>
  BY DEF Branching!RestoreFails
<1>2. BranchTypeOK' BY <1>0, <1>1 DEF BranchTypeOK
<1>3. call'[c] = Branching!Idle /\ \A d \in Callers \ {c} : call'[d] = call[d]
  BY <1>0, <1>1 DEF BranchTypeOK
<1>4. CallIsRight(c)' BY <1>3, IdleIsRight
<1>5. \A d \in Callers \ {c} : CallIsRight(d)' BY <1>1, <1>3, OtherIsRight
<1>6. OthersAreAsAsked' /\ MainIsAsAsked'
  BY <1>1 DEF BInv, OthersAreAsAsked, MainIsAsAsked
<1> QED BY <1>2, <1>4, <1>5, <1>6 DEF BInv

LEMMA BranchStep ==
  ASSUME BInv, [Branching!Next]_Branching!vars PROVE BInv'
<1>1. CASE Branching!Next
  <2>1. CASE Branching!SaveDraft BY <2>1, BranchSaveDraft
  <2>2. CASE Branching!CreateRevision BY <2>2, BranchCreateRevision
  <2>3. ASSUME NEW c \in Callers,
               \/ Branching!Begin(c) \/ Branching!Refused(c) \/ Branching!WriteRecord(c)
               \/ Branching!AdvanceMain(c) \/ Branching!SyncDraft(c) \/ Branching!SyncFails(c)
               \/ Branching!RestoreMain(c) \/ Branching!RestoreFails(c)
               \/ Branching!CreateBundle(c) \/ Branching!CreateLink(c)
        PROVE  BInv'
    BY <2>3, BranchBegin, BranchRefused, BranchWriteRecord, BranchAdvanceMain, BranchSyncDraft,
       BranchSyncFails, BranchRestoreMain, BranchRestoreFails, BranchCreateBundle,
       BranchCreateLink
  <2> QED BY <1>1, <2>1, <2>2, <2>3 DEF Branching!Next
<1>2. CASE UNCHANGED Branching!vars
  BY <1>2
  DEF Branching!vars, BInv, BranchTypeOK, CallIsRight, IsStaged, ReadIsFresh, MainIsAdvanced,
      RestoredIsMeant, OthersAreAsAsked, MainIsAsAsked, Restoring, Busy
<1> QED BY <1>1, <1>2

\* Every call of BranchService leaves the branches as it was asked to or, when it fails,
\* as they were, also when makeMain fails between its two commits
\* (branch_service.ts:makeMain), unless it wrote a branch that others had changed.
THEOREM CallsHappenAsAWhole == Branching!Spec => []BranchesAreAsAsked
<1>1. Branching!Init => BInv BY BranchInitial
<1>2. BInv /\ [Branching!Next]_Branching!vars => BInv' BY BranchStep
<1>3. BInv => BranchesAreAsAsked
  <2> SUFFICES ASSUME BInv, NEW b \in Branches \ excused,
                      \A c \in Callers : call[c] # Branching!Idle => call[c].at # "restoring"
               PROVE  branch[b] = meant[b]
    BY DEF BranchesAreAsAsked, Branching!BranchesAreAsAsked
  <2> QED BY DEF BInv, OthersAreAsAsked, MainIsAsAsked, Restoring, Busy
<1> QED BY <1>1, <1>2, <1>3, PTL DEF Branching!Spec

-----------------------------------------------------------------------------
(* Empty items: for any items, operations and bounds.                      *)

Item == [parent : Nat \cup {None}, text : 0..1]
Ids == 1..created

Op == [kind : {"create", "move", "discard", "remove", "deleteEmptyRow", "restored"},
       ids : SUBSET Nat, at : {"flush", "sent", "answered", "nothing", "reload"},
       parent : Nat \cup {None}, text : 0..1, dirty : SUBSET Nat, typed : SUBSET Nat,
       entered : SUBSET (Nat \cup {None}), heard : BOOLEAN]

Outline(S) == S \in [DOMAIN S -> Item] /\ DOMAIN S \subseteq Ids

ItemTypeOK ==
  /\ created \in Nat /\ Outline(items) /\ Outline(snapshot)
  /\ tracked \subseteq Ids /\ handled \subseteq Ids
  /\ pendingIds \subseteq tracked \ unread /\ persisted \subseteq tracked
  /\ unwritten \subseteq tracked /\ unread \subseteq tracked
  /\ ops \subseteq Op /\ focus \in DOMAIN snapshot \cup {None}

\* What is known of an item whose text was blank at first.
OnlyWritten(S, id) == id \in DOMAIN S /\ S[id].text # 0 => id \in written
BornBlank(id) == OnlyWritten(items, id) /\ OnlyWritten(snapshot, id)
ParentsAreNested(S) == \A x \in DOMAIN S : S[x].parent \in nested \cup {None}

ItemsAreRight ==
  /\ ParentsAreNested(items) /\ ParentsAreNested(snapshot)
  /\ \A id \in tracked : BornBlank(id)
  /\ EmptyItems!UntouchedAreRemembered /\ EmptyItems!NothingIsLeftBehind

Discards(op) == op.kind \in {"discard", "restored"}
Waits(op) == op.at = "flush"
Sent(op) == op.at = "sent"
Served(op) == op.at \in {"answered", "nothing"}

\* Kept: what is still to be discarded is blank, as it is on screen and, unless it is
\* dirty, as it is saved.
FlushIsRight(op) ==
  Waits(op) /\ Discards(op) => \A id \in op.ids :
    /\ id \notin unread
    /\ id \in DOMAIN items => id \in DOMAIN snapshot
    /\ id \in DOMAIN snapshot \cap pendingIds =>
         /\ snapshot[id].text = 0
         /\ id \in DOMAIN items /\ items[id].text # 0 => id \in op.dirty

SentIsRight(op) ==
  Sent(op) /\ Discards(op) => \A id \in op.ids :
    /\ \/ id \in DOMAIN items /\ items[id].text # 0
       \/ id \in DOMAIN snapshot /\ snapshot[id].text # 0
       => id \in op.typed
    /\ op.kind = "restored" /\ focus = id => id \in op.entered

ServedIsRight(op) ==
  Served(op) => \A id \in op.ids :
    /\ op.kind = "create" => id \notin tracked
    /\ op.kind = "create" /\ op.text = 0 => BornBlank(id)
    /\ op.kind \notin {"create", "move"} /\ id \in DOMAIN items => id \in written \cup nested

KindIsRight(op) ==
  /\ op.ids \subseteq Ids
  /\ Waits(op) => op.kind \notin {"create", "move"}
  /\ op.kind \in {"discard", "remove", "deleteEmptyRow"} => \A x, y \in op.ids : x = y
  /\ Discards(op) => op.ids \subseteq tracked

OpIsRight(op) == KindIsRight(op) /\ FlushIsRight(op) /\ SentIsRight(op) /\ ServedIsRight(op)

CreatesDiffer ==
  \A op, other \in {o \in ops : o.kind = "create" /\ Served(o)} :
    op # other => op.ids \cap other.ids = {}

EInv == ItemTypeOK /\ ItemsAreRight /\ (\A op \in ops : OpIsRight(op)) /\ CreatesDiffer

-----------------------------------------------------------------------------
\* What an item is, stored or shown.
LEMMA ItemFields ==
  ASSUME ItemTypeOK
  PROVE  /\ \A id \in DOMAIN items : /\ id \in Ids /\ items[id] \in Item
                                     /\ items[id].parent \in Nat \cup {None}
                                     /\ items[id].text \in 0..1
         /\ \A id \in DOMAIN snapshot : /\ id \in Ids /\ snapshot[id] \in Item
                                        /\ snapshot[id].parent \in Nat \cup {None}
                                        /\ snapshot[id].text \in 0..1
BY DEF ItemTypeOK, Outline, Item

\* What stays remembered stays recorded, or is known not to be, and nothing but that is
\* ever recorded.
Recorded ==
  /\ pendingIds' \cap persisted \subseteq persisted'
  /\ pendingIds' \cap unwritten \subseteq unwritten' \cup persisted'
  /\ persisted' \subseteq tracked /\ unwritten' \subseteq tracked
  /\ unread' = unread

LEMMA ForgetEffect ==
  ASSUME ItemTypeOK, NEW ids, EmptyItems!Forget(ids)
  PROVE  pendingIds' = pendingIds \ ids /\ Recorded
<1>1. PICK left \in SUBSET (ids \cap pendingIds) :
        /\ persisted' = IF left = {} THEN persisted ELSE pendingIds \ left
        /\ pendingIds' = pendingIds \ ids
        /\ unwritten' = (unwritten \cap pendingIds') \ persisted'
        /\ UNCHANGED unread
  BY DEF EmptyItems!Forget, EmptyItems!Persists
<1> QED BY <1>1 DEF ItemTypeOK, Recorded

\* Nothing is remembered or forgotten.
LEMMA RemembersEffect ==
  ASSUME ItemTypeOK, EmptyItems!Remembers
  PROVE  /\ UNCHANGED <<pendingIds, persisted, unwritten, unread>> /\ Recorded
BY DEF EmptyItems!Remembers, EmptyItems!remembered, ItemTypeOK, Recorded

\* Nothing happens that an operation waiting, or on its way, need know.
Calm ==
  /\ created' \in Nat /\ created <= created'
  /\ snapshot' = snapshot /\ focus' = focus /\ tracked' = tracked
  /\ pendingIds' \subseteq pendingIds /\ Recorded
  /\ written' = written /\ nested \subseteq nested'
  /\ \A id \in DOMAIN items' \cap Ids :
       id \in DOMAIN items /\ items'[id].text = items[id].text

LEMMA IdsGrow ==
  ASSUME created \in Nat, created' \in Nat, created <= created' PROVE Ids \subseteq Ids'
BY DEF Ids

LEMMA CalmOp ==
  ASSUME ItemTypeOK, NEW op, OpIsRight(op), Calm
  PROVE  OpIsRight(op)'
<1>1. Ids \subseteq Ids' BY IdsGrow DEF ItemTypeOK, Calm
<1>2. KindIsRight(op)' /\ op.ids \subseteq Ids
  BY <1>1 DEF OpIsRight, KindIsRight, Calm, Waits, Discards
<1>3. FlushIsRight(op)'
  BY <1>2 DEF OpIsRight, FlushIsRight, Calm, Recorded, Waits, Discards
<1>4. SentIsRight(op)' BY <1>2 DEF OpIsRight, SentIsRight, Calm, Sent, Discards
<1>5. ServedIsRight(op)'
  BY <1>2 DEF OpIsRight, ServedIsRight, Calm, Served, BornBlank, OnlyWritten
<1> QED BY <1>2, <1>3, <1>4, <1>5 DEF OpIsRight

\* What the items still have to show for a calm step.
LEMMA CalmItems ==
  ASSUME ItemTypeOK, ItemsAreRight, Calm, ParentsAreNested(items)',
         \A id \in pendingIds \ pendingIds' : id \in DOMAIN items' => id \in written \cup nested',
         \A id \in handled' \ handled : id \in DOMAIN items' => id \in written \cup nested' \cup held',
         held \subseteq held', handled' \subseteq Ids, handled \subseteq Ids
  PROVE  ItemsAreRight'
<1>1. tracked \subseteq Ids BY DEF ItemTypeOK
<1>2. ParentsAreNested(snapshot)' BY DEF ItemsAreRight, ParentsAreNested, Calm
<1>3. \A id \in tracked' : BornBlank(id)'
  BY <1>1 DEF ItemsAreRight, BornBlank, OnlyWritten, Calm
<1>4. EmptyItems!UntouchedAreRemembered'
  BY <1>1 DEF ItemsAreRight, EmptyItems!UntouchedAreRemembered, Calm, Recorded
<1>5. EmptyItems!NothingIsLeftBehind'
  BY <1>1 DEF ItemsAreRight, EmptyItems!NothingIsLeftBehind, Calm
<1> QED BY <1>2, <1>3, <1>4, <1>5 DEF ItemsAreRight

LEMMA CreatesStay ==
  ASSUME CreatesDiffer,
         \A op \in ops' : op.kind = "create" /\ Served(op) => op \in ops
  PROVE  CreatesDiffer'
BY DEF CreatesDiffer, Served

-----------------------------------------------------------------------------
(* The steps of the user.                                                  *)

LEMMA EmptyInitial == ASSUME EmptyItems!Init PROVE EInv
<1>1. ItemTypeOK BY DEF EmptyItems!Init, ItemTypeOK, Outline, Ids
<1>2. ItemsAreRight
  BY DEF EmptyItems!Init, ItemsAreRight, ParentsAreNested, EmptyItems!UntouchedAreRemembered,
         EmptyItems!NothingIsLeftBehind
<1>3. CreatesDiffer BY DEF EmptyItems!Init, CreatesDiffer
<1> QED BY <1>1, <1>2, <1>3 DEF EmptyItems!Init, EInv

\* A new operation, as Call makes it.
LEMMA NewOp ==
  ASSUME ItemTypeOK,
         NEW kind \in {"create", "move", "discard", "remove", "deleteEmptyRow", "restored"},
         NEW ids \in SUBSET Ids, NEW at \in {"flush", "sent"}
  PROVE  LET op == EmptyItems!Call(kind, ids, at) IN
         /\ op \in Op /\ op.kind = kind /\ op.ids = ids /\ op.at = at
         /\ \A id \in ids \cap DOMAIN snapshot :
              id \notin op.dirty => id \in DOMAIN items /\ snapshot[id].text = items[id].text
<1>1. Ids \subseteq Nat BY DEF ItemTypeOK, Ids
<1> DEFINE D == {id \in ids \cap DOMAIN snapshot :
                   id \in DOMAIN items => snapshot[id].text # items[id].text}
<1>2. D \in SUBSET Nat BY <1>1
<1>3. \A id \in ids \cap DOMAIN snapshot :
        id \notin D => id \in DOMAIN items /\ snapshot[id].text = items[id].text
  OBVIOUS
<1>4. EmptyItems!Call(kind, ids, at) =
        [kind |-> kind, ids |-> ids, at |-> at, parent |-> None, text |-> 0,
         dirty |-> D, typed |-> {}, entered |-> {}, heard |-> TRUE]
  BY DEF EmptyItems!Call
<1> HIDE DEF D
<1> QED BY <1>1, <1>2, <1>3, <1>4 DEF Op

\* One operation more, and the rest as it was.
LEMMA Asked ==
  ASSUME EInv, NEW op, op \in Op, KindIsRight(op), ops' = ops \cup {op},
         op.at = "sent" => ~Discards(op), op.at = "flush" => FlushIsRight(op),
         op.at \in {"flush", "sent"},
         UNCHANGED <<items, EmptyItems!window, created, EmptyItems!ghosts>>
  PROVE  EInv'
<1>1. Calm
  BY DEF Calm, EInv, ItemTypeOK, Recorded, EmptyItems!window, EmptyItems!remembered,
         EmptyItems!ghosts
<1>2. ItemTypeOK'
  BY DEF EInv, ItemTypeOK, Outline, Ids, EmptyItems!window, EmptyItems!remembered,
         EmptyItems!ghosts
<1>3. ItemsAreRight'
  BY DEF EInv, ItemsAreRight, ParentsAreNested, BornBlank, OnlyWritten,
         EmptyItems!UntouchedAreRemembered,
         EmptyItems!NothingIsLeftBehind, EmptyItems!window, EmptyItems!remembered,
         EmptyItems!ghosts
<1>4. OpIsRight(op)
  BY DEF OpIsRight, FlushIsRight, SentIsRight, ServedIsRight, Waits, Sent, Served
<1>5. \A o \in ops' : OpIsRight(o)' BY <1>1, <1>4, CalmOp DEF EInv
<1>6. CreatesDiffer' BY CreatesStay DEF EInv, Served
<1> QED BY <1>2, <1>3, <1>5, <1>6 DEF EInv

LEMMA EmptyCreate == ASSUME EInv, EmptyItems!Create PROVE EInv'
<1>1. PICK under \in DOMAIN snapshot \cup {None}, text \in 0..1 :
        /\ ops' = ops \cup {[EmptyItems!Call("create", {}, "sent")
                               EXCEPT !.parent = under, !.text = text]}
        /\ UNCHANGED <<items, EmptyItems!window, created, EmptyItems!ghosts>>
  BY DEF EmptyItems!Create, EmptyItems!Asks
<1> DEFINE c == EmptyItems!Call("create", {}, "sent")
           op == [c EXCEPT !.parent = under, !.text = text]
<1>2. c \in Op /\ c.kind = "create" /\ c.ids = {} /\ c.at = "sent" BY NewOp DEF EInv
<1>3. under \in Nat \cup {None} BY DEF EInv, ItemTypeOK, Outline, Ids
<1>4. op \in Op /\ op.kind = "create" /\ op.ids = {} /\ op.at = "sent"
  <2> HIDE DEF c
  <2> QED BY <1>2, <1>3 DEF Op
<1>5. ops' = ops \cup {op} BY <1>1
<1> HIDE DEF op, c
<1> QED BY <1>1, <1>4, <1>5, Asked DEF KindIsRight, Discards, Waits

LEMMA EmptyIndent == ASSUME EInv, EmptyItems!Indent PROVE EInv'
<1>1. PICK id \in DOMAIN snapshot, under \in DOMAIN snapshot :
        /\ ops' = ops \cup {[EmptyItems!Call("move", {id}, "sent") EXCEPT !.parent = under]}
        /\ UNCHANGED <<items, EmptyItems!window, created, EmptyItems!ghosts>>
  BY DEF EmptyItems!Indent, EmptyItems!Asks
<1> DEFINE c == EmptyItems!Call("move", {id}, "sent")
           op == [c EXCEPT !.parent = under]
<1>2. id \in Ids /\ under \in Nat \cup {None} BY DEF EInv, ItemTypeOK, Outline, Ids
<1>3. c \in Op /\ c.kind = "move" /\ c.ids = {id} /\ c.at = "sent"
  BY <1>2, NewOp DEF EInv
<1>4. op \in Op /\ op.kind = "move" /\ op.ids = {id} /\ op.at = "sent"
  <2> HIDE DEF c
  <2> QED BY <1>2, <1>3 DEF Op
<1>5. ops' = ops \cup {op} BY <1>1
<1> HIDE DEF op, c
<1> QED BY <1>1, <1>2, <1>4, <1>5, Asked DEF KindIsRight, Discards, Waits

LEMMA EmptyRemove == ASSUME EInv, EmptyItems!Remove \/ EmptyItems!DeleteEmptyRow PROVE EInv'
<1>1. PICK id \in DOMAIN snapshot \cup {None}, kind \in {"remove", "deleteEmptyRow"} :
        /\ id \in DOMAIN snapshot
        /\ ops' = ops \cup {EmptyItems!Call(kind, {id}, "flush")}
        /\ UNCHANGED <<items, EmptyItems!window, created, EmptyItems!ghosts>>
  BY DEF EmptyItems!Remove, EmptyItems!DeleteEmptyRow, EmptyItems!Asks, EInv, ItemTypeOK
<1> DEFINE op == EmptyItems!Call(kind, {id}, "flush")
<1>2. id \in Ids BY <1>1 DEF EInv, ItemTypeOK, Outline
<1>3. op \in Op /\ op.kind = kind /\ op.ids = {id} /\ op.at = "flush"
  BY <1>2, NewOp DEF EInv
<1>4. ops' = ops \cup {op} BY <1>1
<1> HIDE DEF op
<1> QED BY <1>1, <1>2, <1>3, <1>4, Asked DEF KindIsRight, FlushIsRight, Discards, Waits

\* Operations that go on as they were but for what was typed, focused or saved meanwhile.
Resumed(op, next) ==
  /\ next \in Op /\ next.kind = op.kind /\ next.ids = op.ids /\ next.at = op.at
  /\ next.text = op.text
  /\ Served(op) /\ op.kind = "create" => next = op

LEMMA ResumedCreates ==
  ASSUME CreatesDiffer, \A next \in ops' : \E op \in ops : Resumed(op, next)
  PROVE  CreatesDiffer'
<1>1. \A next \in ops' : next.kind = "create" /\ Served(next) => next \in ops
  BY DEF Resumed, Served
<1> QED BY <1>1, CreatesStay

LEMMA EmptyType == ASSUME EInv, EmptyItems!Type PROVE EInv'
<1> DEFINE f(op) == IF op.at = "sent" THEN [op EXCEPT !.typed = @ \cup {focus}] ELSE op
<1>0. ItemTypeOK /\ ItemsAreRight /\ CreatesDiffer /\ \A op \in ops : OpIsRight(op)
  BY DEF EInv
<1>1. /\ focus # None /\ focus \in DOMAIN snapshot /\ focus \in Ids
      /\ snapshot' = [snapshot EXCEPT ![focus].text = 1 - @]
      /\ IF snapshot'[focus].text # 0 THEN EmptyItems!Forget({focus}) ELSE EmptyItems!Remembers
      /\ written' = written \cup {focus}
      /\ ops' = {f(op) : op \in ops}
      /\ UNCHANGED <<items, focus, current, created, tracked, nested, held, handled>>
  BY <1>0 DEF EmptyItems!Type, ItemTypeOK, Outline
<1>2. /\ DOMAIN snapshot' = DOMAIN snapshot
      /\ snapshot'[focus] = [snapshot[focus] EXCEPT !.text = 1 - snapshot[focus].text]
      /\ \A x \in DOMAIN snapshot \ {focus} : snapshot'[x] = snapshot[x]
  BY <1>0, <1>1 DEF ItemTypeOK, Outline
<1>3. snapshot[focus] \in Item /\ snapshot[focus].text \in 0..1 BY <1>0, <1>1, ItemFields
<1>4. /\ snapshot'[focus] \in Item /\ snapshot'[focus].parent = snapshot[focus].parent
      /\ snapshot'[focus].text = 1 - snapshot[focus].text
  BY <1>2, <1>3 DEF Item
<1>5. /\ pendingIds' \subseteq pendingIds /\ Recorded
      /\ \A x \in pendingIds \ {focus} : x \in pendingIds'
      /\ snapshot'[focus].text # 0 => focus \notin pendingIds'
  BY <1>0, <1>1, ForgetEffect, RemembersEffect
<1>6. \A op \in ops : /\ Resumed(op, f(op)) /\ f(op).dirty = op.dirty
                      /\ op.typed \subseteq f(op).typed /\ f(op).entered = op.entered
                      /\ Sent(op) => focus \in f(op).typed
  <2> SUFFICES ASSUME NEW op \in ops
               PROVE  /\ Resumed(op, f(op)) /\ f(op).dirty = op.dirty
                      /\ op.typed \subseteq f(op).typed /\ f(op).entered = op.entered
                      /\ Sent(op) => focus \in f(op).typed
    OBVIOUS
  <2>1. op \in Op /\ focus \in Nat BY <1>0, <1>1 DEF ItemTypeOK, Ids
  <2>2. CASE op.at = "sent"
    <3>1. f(op) = [op EXCEPT !.typed = op.typed \cup {focus}] BY <2>2
    <3> HIDE DEF f
    <3> QED BY <2>1, <2>2, <3>1 DEF Resumed, Served, Sent, Op
  <2>3. CASE op.at # "sent" BY <2>1, <2>3 DEF Resumed, Sent
  <2> QED BY <2>2, <2>3
<1>6a. ASSUME NEW next \in ops'
       PROVE  \E op \in ops : /\ Resumed(op, next) /\ next.dirty = op.dirty
                              /\ op.typed \subseteq next.typed /\ next.entered = op.entered
                              /\ Sent(op) => focus \in next.typed
  <2> HIDE DEF f
  <2>1. PICK op \in ops : next = f(op) BY <1>1
  <2> QED BY <1>6, <2>1
<1> HIDE DEF f
<1>7. Ids' = Ids BY <1>1 DEF Ids
<1>8. ItemTypeOK'
  <2>1. ops' \subseteq Op BY <1>6a DEF Resumed
  <2>2. snapshot' \in [DOMAIN snapshot' -> Item]
    BY <1>0, <1>1, <1>2, <1>4 DEF ItemTypeOK, Outline
  <2> QED BY <1>0, <1>1, <1>2, <1>5, <1>7, <2>1, <2>2 DEF ItemTypeOK, Outline, Recorded
<1>9. ItemsAreRight'
  <2>1. ParentsAreNested(snapshot)' /\ ParentsAreNested(items)'
    BY <1>0, <1>1, <1>2, <1>4 DEF ItemsAreRight, ParentsAreNested
  <2>2. \A id \in tracked' : BornBlank(id)'
    BY <1>0, <1>1, <1>2 DEF ItemsAreRight, BornBlank, OnlyWritten
  <2>3. EmptyItems!UntouchedAreRemembered'
    BY <1>0, <1>1, <1>5 DEF ItemsAreRight, EmptyItems!UntouchedAreRemembered, Recorded
  <2>4. EmptyItems!NothingIsLeftBehind' BY <1>0, <1>1 DEF ItemsAreRight,
                                                          EmptyItems!NothingIsLeftBehind
  <2> QED BY <2>1, <2>2, <2>3, <2>4 DEF ItemsAreRight
<1>10. ASSUME NEW next \in ops' PROVE OpIsRight(next)'
  <2>0. PICK op \in ops : /\ Resumed(op, next) /\ next.dirty = op.dirty
                          /\ op.typed \subseteq next.typed /\ next.entered = op.entered
                          /\ Sent(op) => focus \in next.typed
    BY <1>6a
  <2>1. OpIsRight(op) BY <1>0
  <2>2. KindIsRight(next)'
    BY <1>1, <1>7, <2>0, <2>1 DEF OpIsRight, KindIsRight, Resumed, Waits, Discards
  <2>3. FlushIsRight(next)'
    BY <1>1, <1>2, <1>3, <1>4, <1>5, <2>0, <2>1
    DEF OpIsRight, FlushIsRight, Resumed, Waits, Discards, Recorded
  <2>4. SentIsRight(next)'
    BY <1>1, <1>2, <2>0, <2>1 DEF OpIsRight, SentIsRight, Resumed, Sent, Discards
  <2>5. ServedIsRight(next)'
    BY <1>1, <1>2, <2>0, <2>1
    DEF OpIsRight, ServedIsRight, Resumed, Served, BornBlank, OnlyWritten
  <2> QED BY <2>2, <2>3, <2>4, <2>5 DEF OpIsRight
<1>11. CreatesDiffer' BY <1>0, <1>6a, ResumedCreates
<1> QED BY <1>8, <1>9, <1>10, <1>11 DEF EInv

\* A focus that moves to a row: no operation takes it, unless it was sent before.
LEMMA EmptyMoveFocus == ASSUME EInv, EmptyItems!MoveFocus PROVE EInv'
<1> USE NamesAssumption
<1>0. ItemTypeOK /\ ItemsAreRight /\ CreatesDiffer /\ \A op \in ops : OpIsRight(op)
  BY DEF EInv
<1>1. PICK id \in {None} \cup DOMAIN snapshot :
        LET empty == focus \in DOMAIN snapshot /\ snapshot[focus].text = 0
            on == {IF op.at = "sent" THEN [op EXCEPT !.entered = @ \cup {id}] ELSE op : op \in ops}
        IN  /\ focus' = id
            /\ IF focus \in pendingIds /\ empty
                 THEN /\ ops' = on \cup {EmptyItems!Call("discard", {focus}, "flush")}
                      /\ EmptyItems!Remembers
                 ELSE EmptyItems!Forget({focus}) /\ ops' = on
            /\ UNCHANGED <<items, snapshot, current, created, EmptyItems!ghosts>>
  BY DEF EmptyItems!MoveFocus
<1> DEFINE f(op) == IF op.at = "sent" THEN [op EXCEPT !.entered = @ \cup {id}] ELSE op
           new == EmptyItems!Call("discard", {focus}, "flush")
           empty == focus \in pendingIds /\ focus \in DOMAIN snapshot /\ snapshot[focus].text = 0
<1>2. /\ focus' = id /\ UNCHANGED <<items, snapshot, current, created, EmptyItems!ghosts>>
      /\ empty => ops' = {f(op) : op \in ops} \cup {new} /\ EmptyItems!Remembers
      /\ ~empty => ops' = {f(op) : op \in ops} /\ EmptyItems!Forget({focus})
  BY <1>1
<1>3. \A op \in ops : /\ Resumed(op, f(op)) /\ f(op).dirty = op.dirty
                      /\ f(op).typed = op.typed /\ op.entered \subseteq f(op).entered
                      /\ Sent(op) => id \in f(op).entered
  <2> SUFFICES ASSUME NEW op \in ops
               PROVE  /\ Resumed(op, f(op)) /\ f(op).dirty = op.dirty
                      /\ f(op).typed = op.typed /\ op.entered \subseteq f(op).entered
                      /\ Sent(op) => id \in f(op).entered
    OBVIOUS
  <2>1. op \in Op /\ id \in Nat \cup {None} BY <1>0 DEF ItemTypeOK, Outline, Ids
  <2>2. CASE op.at = "sent"
    <3>1. f(op) = [op EXCEPT !.entered = op.entered \cup {id}] BY <2>2
    <3> HIDE DEF f
    <3> QED BY <2>1, <2>2, <3>1 DEF Resumed, Served, Sent, Op
  <2>3. CASE op.at # "sent" BY <2>1, <2>3 DEF Resumed, Sent
  <2> QED BY <2>2, <2>3
<1>3a. ASSUME NEW next \in {f(op) : op \in ops}
       PROVE  \E op \in ops : /\ Resumed(op, next) /\ next.dirty = op.dirty
                              /\ next.typed = op.typed /\ op.entered \subseteq next.entered
                              /\ Sent(op) => id \in next.entered
  <2> HIDE DEF f
  <2>1. PICK op \in ops : next = f(op) OBVIOUS
  <2> QED BY <1>3, <2>1
<1>4. empty => /\ new \in Op /\ new.kind = "discard" /\ new.ids = {focus} /\ new.at = "flush"
               /\ focus \notin new.dirty =>
                    focus \in DOMAIN items /\ items[focus].text = 0
  BY <1>0, NewOp DEF ItemTypeOK, Outline
<1>5. /\ Recorded /\ pendingIds' \subseteq pendingIds
      /\ empty => pendingIds' = pendingIds
      /\ ~empty => pendingIds' = pendingIds \ {focus}
  BY <1>0, <1>2, ForgetEffect, RemembersEffect
<1> DEFINE on == {f(op) : op \in ops}
<1>5a. ops' = IF empty THEN on \cup {new} ELSE on BY <1>2
<1>5b. \A next \in on :
         \E op \in ops : /\ Resumed(op, next) /\ next.dirty = op.dirty
                         /\ next.typed = op.typed /\ op.entered \subseteq next.entered
                         /\ Sent(op) => id \in next.entered
  BY <1>3a
<1> HIDE DEF f, on
<1>5c. PICK asked : asked = new OBVIOUS
<1> HIDE DEF new
<1>6. /\ Ids' = Ids /\ UNCHANGED <<tracked, written, nested, held, handled>>
  BY <1>2 DEF Ids, EmptyItems!ghosts
<1>7. ItemTypeOK'
  <2>1. ops' \subseteq Op BY <1>4, <1>5a, <1>5b DEF Resumed
  <2>2. focus' \in DOMAIN snapshot' \cup {None} BY <1>2
  <2> HIDE DEF empty
  <2> QED BY <1>0, <1>2, <1>5, <1>6, <2>1, <2>2 DEF ItemTypeOK, Outline, Recorded
<1>8. ASSUME focus \in tracked \cap DOMAIN items, focus \notin written \cup nested \cup unread
      PROVE  empty
  <2>1. focus \in pendingIds
    BY <1>0, <1>8 DEF ItemsAreRight, EmptyItems!UntouchedAreRemembered
  <2>2. focus \in Ids BY <1>0, <1>8 DEF ItemTypeOK
  <2>3. None \notin Ids BY DEF Ids
  <2>4. focus \in DOMAIN snapshot BY <1>0, <2>2, <2>3 DEF ItemTypeOK
  <2> QED BY <1>0, <1>8, <2>1, <2>4 DEF ItemsAreRight, BornBlank, OnlyWritten
<1> HIDE DEF empty
<1>9. ItemsAreRight'
  <2>1. ParentsAreNested(snapshot)' /\ ParentsAreNested(items)'
    BY <1>0, <1>2, <1>6 DEF ItemsAreRight, ParentsAreNested
  <2>2. \A x \in tracked' : BornBlank(x)'
    BY <1>0, <1>2, <1>6 DEF ItemsAreRight, BornBlank, OnlyWritten
  <2>3. EmptyItems!UntouchedAreRemembered'
    BY <1>0, <1>2, <1>5, <1>6, <1>8
    DEF ItemsAreRight, EmptyItems!UntouchedAreRemembered, Recorded
  <2>4. EmptyItems!NothingIsLeftBehind' BY <1>0, <1>2, <1>6 DEF ItemsAreRight,
      EmptyItems!NothingIsLeftBehind
  <2> QED BY <2>1, <2>2, <2>3, <2>4 DEF ItemsAreRight
<1>10. ASSUME NEW next \in on PROVE OpIsRight(next)'
  <2>0. PICK op \in ops : /\ Resumed(op, next) /\ next.dirty = op.dirty
                          /\ next.typed = op.typed /\ op.entered \subseteq next.entered
                          /\ Sent(op) => id \in next.entered
    BY <1>5b
  <2>1. OpIsRight(op) BY <1>0
  <2>2. KindIsRight(next)'
    BY <1>6, <2>0, <2>1 DEF OpIsRight, KindIsRight, Resumed, Waits, Discards
  <2>3. FlushIsRight(next)'
    BY <1>2, <1>5, <2>0, <2>1 DEF OpIsRight, FlushIsRight, Resumed, Waits, Discards, Recorded
  <2>4. SentIsRight(next)'
    BY <1>2, <2>0, <2>1 DEF OpIsRight, SentIsRight, Resumed, Sent, Discards
  <2>5. ServedIsRight(next)'
    BY <1>2, <1>6, <2>0, <2>1
    DEF OpIsRight, ServedIsRight, Resumed, Served, BornBlank, OnlyWritten
  <2> QED BY <2>2, <2>3, <2>4, <2>5 DEF OpIsRight
<1>11. ASSUME empty PROVE OpIsRight(asked)'
  <2>1. focus \in tracked /\ focus \in Ids BY <1>0, <1>11 DEF empty, ItemTypeOK
  <2>2. /\ asked.kind = "discard" /\ asked.ids = {focus} /\ asked.at = "flush"
        /\ focus \notin asked.dirty => focus \in DOMAIN items /\ items[focus].text = 0
    BY <1>4, <1>5c, <1>11
  <2>3. KindIsRight(asked)' BY <1>6, <2>1, <2>2 DEF KindIsRight, Waits, Discards
  <2>4. FlushIsRight(asked)'
    BY <1>0, <1>2, <1>5, <1>11, <2>2
    DEF FlushIsRight, Waits, Discards, empty, ItemTypeOK, Recorded
  <2> QED BY <2>2, <2>3, <2>4 DEF OpIsRight, SentIsRight, ServedIsRight, Sent, Served
<1>12. CreatesDiffer'
  <2>1. \A next \in ops' : next.kind = "create" /\ Served(next) => next \in ops
    BY <1>4, <1>5a, <1>5b DEF Resumed, Served
  <2> QED BY <1>0, <2>1, CreatesStay
<1>13. \A next \in ops' : OpIsRight(next)' BY <1>5a, <1>5c, <1>10, <1>11
<1> QED BY <1>7, <1>9, <1>12, <1>13 DEF EInv

-----------------------------------------------------------------------------
(* Drafts.                                                                 *)

LEMMA EmptySave == ASSUME EInv, EmptyItems!Save PROVE EInv'
<1> DEFINE f(op, id) == [op EXCEPT !.dirty = @ \ {id}]
<1>0. ItemTypeOK /\ ItemsAreRight /\ CreatesDiffer /\ \A op \in ops : OpIsRight(op)
  BY DEF EInv
<1>1. PICK id \in DOMAIN snapshot :
        /\ items' = [x \in DOMAIN items |->
                       IF x = id THEN [items[x] EXCEPT !.text = snapshot[id].text] ELSE items[x]]
        /\ ops' = {f(op, id) : op \in ops}
        /\ UNCHANGED <<EmptyItems!window, created, user, EmptyItems!ghosts>>
  BY DEF EmptyItems!Save
<1>2. /\ Ids' = Ids
      /\ UNCHANGED <<snapshot, pendingIds, persisted, unwritten, unread, focus, tracked, written,
                     nested, held, handled>>
  BY <1>1 DEF Ids, EmptyItems!window, EmptyItems!remembered, EmptyItems!ghosts
<1>3. /\ DOMAIN items' = DOMAIN items
      /\ id \in DOMAIN items => items'[id] = [items[id] EXCEPT !.text = snapshot[id].text]
      /\ \A x \in DOMAIN items \ {id} : items'[x] = items[x]
  BY <1>1
<1>4. /\ \A x \in DOMAIN items : items'[x] \in Item /\ items'[x].parent = items[x].parent
      /\ id \in DOMAIN items => items'[id].text = snapshot[id].text
  <2>1. id \in DOMAIN items => /\ items'[id] \in Item /\ items'[id].parent = items[id].parent
                               /\ items'[id].text = snapshot[id].text
    BY <1>0, <1>3, ItemFields DEF Item
  <2>2. \A x \in DOMAIN items \ {id} : items'[x] \in Item /\ items'[x].parent = items[x].parent
    BY <1>0, <1>3, ItemFields
  <2> QED BY <2>1, <2>2
<1>5. \A op \in Op : LET g == f(op, id) IN
        /\ g \in Op /\ g.kind = op.kind /\ g.ids = op.ids /\ g.at = op.at /\ g.text = op.text
        /\ g.typed = op.typed /\ g.entered = op.entered /\ g.dirty = op.dirty \ {id}
  BY DEF Op
<1> DEFINE Cleaned(op, next) ==
      /\ next \in Op /\ next.kind = op.kind /\ next.ids = op.ids /\ next.at = op.at
      /\ next.text = op.text /\ next.typed = op.typed /\ next.entered = op.entered
      /\ next.dirty = op.dirty \ {id}
<1>6. \A op \in ops : Cleaned(op, f(op, id)) BY <1>0, <1>5 DEF ItemTypeOK
<1>7. \A next \in ops' : \E op \in ops : next = f(op, id) /\ Cleaned(op, next)
  <2> HIDE DEF f, Cleaned
  <2> QED BY <1>1, <1>6
<1>8. \A op, other \in ops : op = other => f(op, id) = f(other, id) OBVIOUS
<1> HIDE DEF f
<1>9. ItemTypeOK'
  <2>1. ops' \subseteq Op BY <1>7
  <2>2. items' \in [DOMAIN items' -> Item]
    <3>1. items' = [x \in DOMAIN items' |-> items'[x]] BY <1>1
    <3> QED BY <1>3, <1>4, <3>1
  <2> QED BY <1>0, <1>1, <1>2, <1>3, <2>1, <2>2 DEF ItemTypeOK, Outline, EmptyItems!window,
                                                    EmptyItems!ghosts
<1>10. ItemsAreRight'
  <2>1. ParentsAreNested(snapshot)' /\ ParentsAreNested(items)'
    BY <1>0, <1>2, <1>3, <1>4 DEF ItemsAreRight, ParentsAreNested
  <2>2. \A x \in tracked' : BornBlank(x)'
    BY <1>0, <1>2, <1>3, <1>4 DEF ItemsAreRight, BornBlank, OnlyWritten
  <2>3. EmptyItems!UntouchedAreRemembered'
    BY <1>0, <1>2, <1>3 DEF ItemsAreRight, EmptyItems!UntouchedAreRemembered
  <2>4. EmptyItems!NothingIsLeftBehind' BY <1>0, <1>2, <1>3 DEF ItemsAreRight,
      EmptyItems!NothingIsLeftBehind
  <2> QED BY <2>1, <2>2, <2>3, <2>4 DEF ItemsAreRight
<1>11. ASSUME NEW next \in ops' PROVE OpIsRight(next)'
  <2>0. PICK op \in ops : Cleaned(op, next) BY <1>7
  <2>1. OpIsRight(op) BY <1>0
  <2>2. KindIsRight(next)'
    BY <1>2, <2>0, <2>1 DEF OpIsRight, KindIsRight, Waits, Discards
  <2>3. FlushIsRight(next)'
    BY <1>2, <1>3, <1>4, <2>0, <2>1 DEF OpIsRight, FlushIsRight, Waits, Discards
  <2>4. SentIsRight(next)'
    BY <1>1, <1>2, <1>3, <1>4, <2>0, <2>1 DEF OpIsRight, SentIsRight, Sent, Discards
  <2>5. ServedIsRight(next)'
    BY <1>1, <1>2, <1>3, <1>4, <2>0, <2>1
    DEF OpIsRight, ServedIsRight, Served, BornBlank, OnlyWritten
  <2> QED BY <2>2, <2>3, <2>4, <2>5 DEF OpIsRight
<1>12. CreatesDiffer' BY <1>0, <1>7, <1>8 DEF CreatesDiffer, Served
<1> QED BY <1>9, <1>10, <1>11, <1>12 DEF EInv

LEMMA EmptyEnds ==
  ASSUME EInv, ops' \subseteq ops,
         UNCHANGED <<items, EmptyItems!window, created, EmptyItems!ghosts>>
  PROVE  EInv'
<1>1. Calm
  BY DEF Calm, EInv, ItemTypeOK, Recorded, EmptyItems!window, EmptyItems!remembered,
         EmptyItems!ghosts
<1>2. ItemTypeOK'
  BY DEF EInv, ItemTypeOK, Outline, Ids, EmptyItems!window, EmptyItems!remembered,
         EmptyItems!ghosts
<1>3. ItemsAreRight'
  BY DEF EInv, ItemsAreRight, ParentsAreNested, BornBlank, OnlyWritten,
         EmptyItems!UntouchedAreRemembered,
         EmptyItems!NothingIsLeftBehind, EmptyItems!window, EmptyItems!remembered,
         EmptyItems!ghosts
<1>4. \A o \in ops' : OpIsRight(o)' BY <1>1, CalmOp DEF EInv
<1>5. CreatesDiffer' BY CreatesStay DEF EInv
<1> QED BY <1>2, <1>3, <1>4, <1>5 DEF EInv

\* What is still remembered and not written in, when a flush has ended, is a leaf.
LEMMA RememberedIsLeaf ==
  ASSUME EInv, NEW op \in ops, op.at = "flush", Discards(op), NEW id \in op.ids,
         id \in DOMAIN items, id \notin written \cup nested
  PROVE  EmptyItems!isEmptyLeaf(snapshot, id) /\ id \in pendingIds
<1>0. ItemTypeOK /\ ItemsAreRight /\ OpIsRight(op) BY DEF EInv
<1>1. id \in tracked /\ id \in Ids BY <1>0 DEF OpIsRight, KindIsRight
<1>2. id \in DOMAIN snapshot /\ id \notin unread BY <1>0 DEF OpIsRight, FlushIsRight, Waits
<1>3. snapshot[id].text = 0 BY <1>0, <1>1, <1>2 DEF ItemsAreRight, BornBlank, OnlyWritten
<1>4. id # None BY <1>1, NamesAssumption DEF Ids
<1>5. EmptyItems!Children(snapshot, id) = {}
  BY <1>0, <1>4 DEF ItemsAreRight, ParentsAreNested, EmptyItems!Children
<1>6. id \in pendingIds
  BY <1>0, <1>1, <1>2 DEF ItemsAreRight, EmptyItems!UntouchedAreRemembered
<1> QED BY <1>2, <1>3, <1>5, <1>6 DEF EmptyItems!isEmptyLeaf

LEMMA EmptyAfterFlush == ASSUME EInv, EmptyItems!AfterFlush PROVE EInv'
<1> USE NamesAssumption
<1>0. ItemTypeOK /\ ItemsAreRight /\ CreatesDiffer /\ \A op \in ops : OpIsRight(op)
  BY DEF EInv
<1>1. PICK op \in ops :
        /\ op.at = "flush" /\ op.dirty = {}
        /\ IF op.kind = "restored" /\ ~current
             THEN EmptyItems!Ends(op) /\ EmptyItems!Remembers /\ UNCHANGED <<held, handled>>
             ELSE /\ EmptyItems!Forget(EmptyItems!dismissed(op))
                  /\ held' = IF op.kind = "restored" THEN held \cup ({focus} \cap op.ids) ELSE held
                  /\ IF EmptyItems!candidates(op) = {}
                       THEN /\ EmptyItems!Ends(op)
                            /\ handled' = IF op.kind = "restored" THEN handled \cup op.ids
                                          ELSE handled
                       ELSE /\ EmptyItems!Becomes(op,
                               [op EXCEPT !.at = "sent", !.ids = EmptyItems!candidates(op)])
                            /\ UNCHANGED handled
        /\ UNCHANGED <<items, snapshot, focus, current, created, user, tracked, written, nested>>
  BY DEF EmptyItems!AfterFlush
<1>2. CASE op.kind = "restored" /\ ~current
  BY <1>1, <1>2, EmptyEnds DEF EmptyItems!Ends, EmptyItems!Remembers, EmptyItems!window,
                               EmptyItems!ghosts
<1>3. CASE ~(op.kind = "restored" /\ ~current)
  <2>a. PICK cand : cand = EmptyItems!candidates(op) OBVIOUS
  <2> DEFINE next == [op EXCEPT !.at = "sent", !.ids = cand]
  <2>0. op \in Op /\ OpIsRight(op) /\ op.ids \subseteq Ids
    BY <1>0 DEF ItemTypeOK, OpIsRight, KindIsRight
  <2>1. /\ pendingIds' = pendingIds \ EmptyItems!dismissed(op) /\ Recorded
        /\ held \subseteq held'
        /\ UNCHANGED <<items, snapshot, focus, created, tracked, written, nested>>
    BY <1>0, <1>1, <1>3, ForgetEffect
  <2>2. Calm BY <1>0, <2>1 DEF Calm, ItemTypeOK
  <2>3. cand \subseteq op.ids BY <2>a DEF EmptyItems!candidates
  <2>4. /\ op.kind \in {"discard", "remove", "deleteEmptyRow", "restored"}
        /\ op.kind \in {"remove", "deleteEmptyRow"} <=> ~Discards(op)
    BY <1>1, <2>0 DEF OpIsRight, KindIsRight, Waits, Discards, Op
  <2>5. \/ ops' = ops \ {op}
        \/ ops' = (ops \ {op}) \cup {next}
    BY <1>1, <1>3, <2>a DEF EmptyItems!Ends, EmptyItems!Becomes
  <2>6. next \in Op /\ next.at = "sent" /\ next.ids = cand /\ next.kind = op.kind
    <3>1. cand \in SUBSET Nat BY <2>0, <2>3 DEF Op
    <3> QED BY <2>0, <3>1 DEF Op
  <2>7. OpIsRight(next)
    <3> HIDE DEF next
    <3>1. KindIsRight(next) BY <2>0, <2>3, <2>6 DEF OpIsRight, KindIsRight, Waits, Discards
    <3>2. SentIsRight(next)
      <4> SUFFICES ASSUME Discards(next), NEW id \in cand
                   PROVE  /\ ~(id \in DOMAIN items /\ items[id].text # 0)
                          /\ ~(id \in DOMAIN snapshot /\ snapshot[id].text # 0)
                          /\ ~(next.kind = "restored" /\ focus = id)
        BY <2>6 DEF SentIsRight
      <4>1. Discards(op) BY <2>6 DEF Discards
      <4>2. /\ id \in op.ids \cap pendingIds /\ EmptyItems!isEmptyLeaf(snapshot, id)
            /\ op.kind = "restored" => id # focus
        BY <2>a, <2>4, <4>1 DEF EmptyItems!candidates
      <4>3. ~(id \in DOMAIN items /\ items[id].text # 0)
        BY <1>1, <2>0, <4>1, <4>2 DEF OpIsRight, FlushIsRight, Waits, EmptyItems!isEmptyLeaf
      <4> QED BY <2>6, <4>2, <4>3 DEF EmptyItems!isEmptyLeaf
    <3> QED BY <2>6, <3>1, <3>2 DEF OpIsRight, FlushIsRight, ServedIsRight, Waits, Served
  <2> HIDE DEF next
  <2>8. PICK sent : sent = next OBVIOUS
  <2>9. OpIsRight(sent)' BY <1>0, <2>2, <2>7, <2>8, CalmOp
  <2>10. \A o \in ops' : OpIsRight(o)' BY <1>0, <2>2, <2>5, <2>8, <2>9, CalmOp
  <2>11. \A o \in ops' : o.kind = "create" /\ Served(o) => o \in ops
    BY <2>5, <2>6 DEF Served
  <2>12. ASSUME NEW id \in op.ids, id \in DOMAIN items, id \notin written \cup nested, Discards(op)
         PROVE  /\ id \notin EmptyItems!dismissed(op)
                /\ id \in cand \/ (op.kind = "restored" /\ id = focus)
    BY <1>1, <2>a, <2>4, <2>12, RememberedIsLeaf DEF EmptyItems!dismissed,
                                                     EmptyItems!candidates, EInv
  <2>13. ASSUME ~Discards(op) PROVE EmptyItems!dismissed(op) = {} BY <2>4,
      <2>13 DEF EmptyItems!dismissed
  <2>14. \A id \in pendingIds \ pendingIds' : id \in DOMAIN items' => id \in written \cup nested'
    <3>1. EmptyItems!dismissed(op) \subseteq op.ids BY DEF EmptyItems!dismissed
    <3> QED BY <2>1, <2>12, <2>13, <3>1
  <2>15. handled' = handled \/
         (handled' = handled \cup op.ids /\ cand = {} /\ op.kind = "restored"
            /\ held' = held \cup ({focus} \cap op.ids))
    BY <1>1, <1>3, <2>a
  <2>16. \A id \in handled' \ handled :
           id \in DOMAIN items' => id \in written \cup nested' \cup held'
    BY <2>1, <2>12, <2>15 DEF Discards
  <2>17. handled' \subseteq Ids /\ handled \subseteq Ids BY <1>0, <2>0, <2>15 DEF ItemTypeOK
  <2>18. ParentsAreNested(items)' BY <1>0, <2>1 DEF ItemsAreRight, ParentsAreNested
  <2>19. ItemsAreRight' BY <1>0, <2>1, <2>2, <2>14, <2>16, <2>17, <2>18, CalmItems
  <2>20. ItemTypeOK'
    BY <1>0, <2>1, <2>5, <2>6, <2>17 DEF ItemTypeOK, Outline, Ids, Recorded
  <2> QED BY <1>0, <2>10, <2>11, <2>19, <2>20, CreatesStay DEF EInv
<1> QED BY <1>2, <1>3

-----------------------------------------------------------------------------
(* The process, and its answers.                                           *)

LEMMA CalmStep ==
  ASSUME EInv, Calm, ItemTypeOK', ItemsAreRight', NEW next, ops' \subseteq ops \cup {next},
         OpIsRight(next)',
         next.kind = "create" /\ Served(next) =>
           \A o \in ops : o.kind = "create" /\ Served(o) => o.ids \cap next.ids = {}
  PROVE  EInv'
<1>1. \A o \in ops' : OpIsRight(o)' BY CalmOp DEF EInv
<1>2. CreatesDiffer' BY DEF EInv, CreatesDiffer, Served
<1> QED BY <1>1, <1>2 DEF EInv

\* What Answers leaves of an operation.
LEMMA AnswersEffect ==
  ASSUME NEW op \in Op, NEW at \in {"answered", "nothing"}, NEW ids \in SUBSET Nat,
         EmptyItems!Answers(op, at, ids)
  PROVE  \E next \in Op :
           /\ ops' \subseteq ops \cup {next} /\ next.at = at /\ next.ids = ids
           /\ next.kind = op.kind /\ next.text = op.text
<1> DEFINE next == [op EXCEPT !.at = at, !.ids = ids]
<1>1. next \in Op /\ next.at = at /\ next.ids = ids /\ next.kind = op.kind /\ next.text = op.text
  BY DEF Op
<1>2. ops' \subseteq ops \cup {next} BY DEF EmptyItems!Answers, EmptyItems!Becomes,
                                            EmptyItems!Ends
<1> HIDE DEF next
<1> QED BY <1>1, <1>2

\* An operation that was served, all of whose items are gone or more than empty ones.
LEMMA AnsweredIsRight ==
  ASSUME NEW op, OpIsRight(op), NEW next, next.at \in {"answered", "nothing"},
         next.kind = op.kind, next.ids = op.ids, op.kind # "create",
         Ids \subseteq Ids', tracked' = tracked,
         op.kind # "move" => \A id \in op.ids :
           id \in DOMAIN items' => id \in (written \cup nested)'
  PROVE  OpIsRight(next)'
<1>1. KindIsRight(next)' BY DEF OpIsRight, KindIsRight, Waits, Discards
<1>2. FlushIsRight(next)' /\ SentIsRight(next)' BY DEF FlushIsRight, SentIsRight, Waits, Sent
<1>3. ServedIsRight(next)' BY DEF ServedIsRight
<1> QED BY <1>1, <1>2, <1>3 DEF OpIsRight

LEMMA EmptyServeCreate == ASSUME EInv, EmptyItems!ServeCreate PROVE EInv'
<1>0. ItemTypeOK /\ ItemsAreRight BY DEF EInv
<1>1. PICK op \in ops :
        /\ op.at = "sent" /\ op.kind = "create"
        /\ created' = created + 1
        /\ items' = [id \in DOMAIN items \cup {created'} |->
                       IF id = created' THEN [parent |-> op.parent, text |-> op.text]
                       ELSE items[id]]
        /\ nested' = nested \cup ({op.parent} \ {None})
        /\ EmptyItems!Answers(op, "answered", {created'})
        /\ UNCHANGED <<EmptyItems!window, user, tracked, written, held, handled>>
  BY DEF EmptyItems!ServeCreate
<1>2. op \in Op /\ op.parent \in Nat \cup {None} /\ op.text \in 0..1
  BY <1>0 DEF ItemTypeOK, Op
<1>3. /\ created' \in Nat /\ created' \notin Ids /\ Ids \subseteq Ids' /\ created' \in Ids'
      /\ created <= created'
  BY <1>0, <1>1 DEF ItemTypeOK, Ids
<1>4. /\ UNCHANGED <<snapshot, pendingIds, persisted, unwritten, unread, focus, tracked, written,
                     held, handled>>
      /\ Recorded
  BY <1>0, <1>1, RemembersEffect DEF EmptyItems!window, EmptyItems!Remembers
<1> DEFINE v == [parent |-> op.parent, text |-> op.text]
<1>5. v \in Item /\ v.parent = op.parent /\ v.text = op.text BY <1>2 DEF Item
<1>6. /\ DOMAIN items' = DOMAIN items \cup {created'} /\ items'[created'] = v
      /\ \A x \in DOMAIN items : items'[x] = items[x]
      /\ items' = [x \in DOMAIN items' |-> items'[x]]
  BY <1>0, <1>1, <1>3 DEF ItemTypeOK, Outline
<1> HIDE DEF v
<1>7. Calm BY <1>0, <1>1, <1>3, <1>4, <1>6 DEF Calm
<1>8. PICK next \in Op : /\ ops' \subseteq ops \cup {next} /\ next.at = "answered"
                         /\ next.ids = {created'} /\ next.kind = "create" /\ next.text = op.text
  BY <1>1, <1>2, <1>3, AnswersEffect
<1>9. ItemTypeOK'
  <2>1. items' \in [DOMAIN items' -> Item] BY <1>0, <1>5, <1>6, ItemFields
  <2>2. snapshot' \in [DOMAIN snapshot' -> Item] BY <1>0, <1>4 DEF ItemTypeOK, Outline
  <2> QED BY <1>0, <1>3, <1>4, <1>6, <1>8, <2>1, <2>2 DEF ItemTypeOK, Outline
<1>10. ParentsAreNested(items)'
  BY <1>0, <1>1, <1>5, <1>6 DEF ItemsAreRight, ParentsAreNested
<1>11. ItemsAreRight'
  BY <1>0, <1>4, <1>7, <1>10, CalmItems DEF ItemTypeOK
<1>12. OpIsRight(next)'
  <2>1. created' \notin tracked /\ created' \notin DOMAIN snapshot
    BY <1>0, <1>3 DEF ItemTypeOK, Outline
  <2>2. KindIsRight(next)' BY <1>3, <1>8 DEF KindIsRight, Waits, Discards
  <2>3. ServedIsRight(next)'
    BY <1>4, <1>5, <1>6, <1>8, <2>1 DEF ServedIsRight, BornBlank, OnlyWritten
  <2> QED BY <1>8, <2>2, <2>3 DEF OpIsRight, FlushIsRight, SentIsRight, Waits, Sent
<1>13. \A o \in ops : o.ids \cap next.ids = {}
  BY <1>3, <1>8 DEF EInv, OpIsRight, KindIsRight
<1> QED BY <1>7, <1>8, <1>9, <1>11, <1>12, <1>13, CalmStep

LEMMA EmptyServeMove == ASSUME EInv, EmptyItems!ServeMove PROVE EInv'
<1>0. ItemTypeOK /\ ItemsAreRight BY DEF EInv
<1>1. PICK op \in ops, id \in DOMAIN items :
        /\ op.at = "sent" /\ op.kind = "move" /\ id \in op.ids
        /\ items' = [items EXCEPT ![id].parent = op.parent]
        /\ nested' = nested \cup {op.parent}
        /\ EmptyItems!Answers(op, "answered", op.ids)
        /\ UNCHANGED <<EmptyItems!window, created, user, tracked, written, held, handled>>
  BY DEF EmptyItems!ServeMove
<1>2. op \in Op /\ op.parent \in Nat \cup {None} /\ op.ids \in SUBSET Nat /\ OpIsRight(op)
  BY <1>0 DEF ItemTypeOK, Op, EInv
<1>3. Ids' = Ids /\ created \in Nat BY <1>0, <1>1 DEF Ids, ItemTypeOK
<1>4. /\ UNCHANGED <<snapshot, pendingIds, persisted, unwritten, unread, focus, tracked, written,
                     held, handled>>
      /\ Recorded
  BY <1>0, <1>1, RemembersEffect DEF EmptyItems!window, EmptyItems!Remembers
<1>5. /\ DOMAIN items' = DOMAIN items
      /\ items'[id] = [items[id] EXCEPT !.parent = op.parent]
      /\ \A x \in DOMAIN items \ {id} : items'[x] = items[x]
      /\ items' = [x \in DOMAIN items' |-> items'[x]]
  BY <1>0, <1>1 DEF ItemTypeOK, Outline
<1>6. items'[id] \in Item /\ items'[id].parent = op.parent /\ items'[id].text = items[id].text
  BY <1>0, <1>2, <1>5, ItemFields DEF Item
<1>7. Calm BY <1>0, <1>1, <1>3, <1>4, <1>5, <1>6 DEF Calm
<1>8. PICK next \in Op : /\ ops' \subseteq ops \cup {next} /\ next.at = "answered"
                         /\ next.ids = op.ids /\ next.kind = "move"
  BY <1>1, <1>2, AnswersEffect
<1>9. ItemTypeOK'
  <2>1. items' \in [DOMAIN items' -> Item] BY <1>0, <1>5, <1>6, ItemFields
  <2>2. snapshot' \in [DOMAIN snapshot' -> Item] BY <1>0, <1>4 DEF ItemTypeOK, Outline
  <2> QED BY <1>0, <1>1, <1>3, <1>4, <1>5, <1>8, <2>1, <2>2 DEF ItemTypeOK, Outline
<1>10. ParentsAreNested(items)'
  BY <1>0, <1>1, <1>5, <1>6 DEF ItemsAreRight, ParentsAreNested
<1>11. ItemsAreRight' BY <1>0, <1>4, <1>7, <1>10, CalmItems DEF ItemTypeOK
<1>12. OpIsRight(next)' BY <1>1, <1>2, <1>3, <1>4, <1>8, AnsweredIsRight
<1> QED BY <1>7, <1>8, <1>9, <1>11, <1>12, CalmStep

LEMMA EmptyServeDelete == ASSUME EInv, EmptyItems!ServeDelete PROVE EInv'
<1>0. ItemTypeOK /\ ItemsAreRight BY DEF EInv
<1>1. PICK op \in ops, id \in Nat :
        /\ op.at = "sent" /\ op.kind \in {"discard", "remove", "deleteEmptyRow"} /\ id \in op.ids
        /\ IF id \in DOMAIN items
             THEN /\ items' = EmptyItems!deleteOccurrenceWithPromotion(id)
                  /\ nested' = IF EmptyItems!Children(items, id) = {} THEN nested
                               ELSE nested \cup ({items[id].parent} \ {None})
             ELSE UNCHANGED <<items, nested>>
        /\ EmptyItems!Answers(op, "answered", op.ids)
        /\ UNCHANGED <<EmptyItems!window, created, user, tracked, written, held, handled>>
  BY DEF EmptyItems!ServeDelete
<1>2. op \in Op /\ op.ids \in SUBSET Nat /\ OpIsRight(op) BY <1>0 DEF ItemTypeOK, Op, EInv
<1>3. Ids' = Ids /\ created \in Nat BY <1>0, <1>1 DEF Ids, ItemTypeOK
<1>4. /\ UNCHANGED <<snapshot, pendingIds, persisted, unwritten, unread, focus, tracked, written,
                     held, handled>>
      /\ Recorded
  BY <1>0, <1>1, RemembersEffect DEF EmptyItems!window, EmptyItems!Remembers
<1>5. op.ids = {id} BY <1>1, <1>2 DEF OpIsRight, KindIsRight
<1>6. /\ DOMAIN items' = DOMAIN items \ {id} /\ nested \subseteq nested'
      /\ \A x \in DOMAIN items' :
           /\ items'[x] \in Item /\ items'[x].text = items[x].text
           /\ items'[x].parent \in nested' \cup {None}
      /\ items' = [x \in DOMAIN items' |-> items'[x]]
  <2>1. CASE id \in DOMAIN items
    <3>1. items' = [x \in DOMAIN items \ {id} |->
            IF items[x].parent = id THEN [items[x] EXCEPT !.parent = items[id].parent]
            ELSE items[x]]
      BY <1>1, <2>1 DEF EmptyItems!deleteOccurrenceWithPromotion
    <3>2. DOMAIN items' = DOMAIN items \ {id} /\ nested \subseteq nested' BY <1>1, <2>1, <3>1
    <3>3. ASSUME NEW x \in DOMAIN items'
          PROVE  /\ items'[x] \in Item /\ items'[x].text = items[x].text
                 /\ items'[x].parent \in nested' \cup {None}
      <4>0. x \in DOMAIN items /\ x # id BY <3>2
      <4>1. CASE items[x].parent = id
        <5>1. items'[x] = [items[x] EXCEPT !.parent = items[id].parent] BY <3>1, <3>2, <4>1
        <5>2. items[x] \in Item /\ items[id].parent \in Nat \cup {None}
          BY <1>0, <2>1, <4>0, ItemFields
        <5>3. /\ items'[x] \in Item /\ items'[x].text = items[x].text
              /\ items'[x].parent = items[id].parent
          BY <5>1, <5>2 DEF Item
        <5>4. x \in EmptyItems!Children(items, id) BY <4>0, <4>1 DEF EmptyItems!Children
        <5>5. items[id].parent \in nested' \cup {None} BY <1>1, <2>1, <5>4
        <5> QED BY <5>3, <5>5
      <4>2. CASE items[x].parent # id
        <5>1. items'[x] = items[x] BY <3>1, <3>2, <4>2
        <5> QED BY <1>0, <3>2, <4>0, <5>1, ItemFields DEF ItemsAreRight, ParentsAreNested
      <4> QED BY <4>1, <4>2
    <3>4. items' = [x \in DOMAIN items' |-> items'[x]] BY <3>1
    <3> QED BY <3>2, <3>3, <3>4
  <2>2. CASE id \notin DOMAIN items
    <3>1. items' = items /\ nested' = nested BY <1>1, <2>2
    <3>2. items = [x \in DOMAIN items |-> items[x]] BY <1>0 DEF ItemTypeOK, Outline
    <3> QED BY <1>0, <2>2, <3>1, <3>2, ItemFields DEF ItemsAreRight, ParentsAreNested
  <2> QED BY <2>1, <2>2
<1>7. Calm BY <1>1, <1>3, <1>4, <1>6 DEF Calm
<1>8. PICK next \in Op : /\ ops' \subseteq ops \cup {next} /\ next.at = "answered"
                         /\ next.ids = op.ids /\ next.kind = op.kind
  BY <1>1, <1>2, AnswersEffect
<1>9. ItemTypeOK'
  <2>1. items' \in [DOMAIN items' -> Item] BY <1>6
  <2>2. snapshot' \in [DOMAIN snapshot' -> Item] BY <1>0, <1>4 DEF ItemTypeOK, Outline
  <2> QED BY <1>0, <1>1, <1>3, <1>4, <1>6, <1>8, <2>1, <2>2 DEF ItemTypeOK, Outline
<1>10. ParentsAreNested(items)' BY <1>6 DEF ParentsAreNested
<1>11. ItemsAreRight' BY <1>0, <1>4, <1>7, <1>10, CalmItems DEF ItemTypeOK
<1>12. OpIsRight(next)'
  <2>1. \A x \in op.ids : x \notin DOMAIN items' BY <1>5, <1>6
  <2>2. next.kind = op.kind /\ op.kind # "create" /\ next.at = "answered" BY <1>1, <1>8
  <2>3. Ids \subseteq Ids' /\ tracked' = tracked /\ next.ids = op.ids BY <1>3, <1>4, <1>8
  <2> QED BY <1>2, <2>1, <2>2, <2>3, AnsweredIsRight
<1> QED BY <1>1, <1>7, <1>8, <1>9, <1>11, <1>12, CalmStep

LEMMA EmptyServeDiscard == ASSUME EInv, EmptyItems!ServeDiscard PROVE EInv'
<1> USE NamesAssumption
<1>0. ItemTypeOK /\ ItemsAreRight BY DEF EInv
<1>1. PICK op \in ops :
        LET deleted == EmptyItems!toDelete(op.ids) IN
        /\ op.at = "sent" /\ op.kind = "restored"
        /\ items' = [id \in DOMAIN items \ deleted |-> items[id]]
        /\ EmptyItems!Answers(op, IF deleted = {} THEN "nothing" ELSE "answered", op.ids)
        /\ UNCHANGED <<EmptyItems!window, created, user, EmptyItems!ghosts>>
  BY DEF EmptyItems!ServeDiscard
<1>2. op \in Op /\ op.ids \in SUBSET Nat /\ OpIsRight(op) BY <1>0 DEF ItemTypeOK, Op, EInv
<1>3. Ids' = Ids /\ created \in Nat BY <1>0, <1>1 DEF Ids, ItemTypeOK
<1>4. /\ UNCHANGED <<snapshot, pendingIds, persisted, unwritten, unread, focus, tracked, written,
                     nested, held, handled>>
      /\ Recorded
  BY <1>0, <1>1, RemembersEffect DEF EmptyItems!window, EmptyItems!Remembers, EmptyItems!ghosts
<1>5. PICK deleted : deleted = EmptyItems!toDelete(op.ids) OBVIOUS
<1>6. /\ DOMAIN items' = DOMAIN items \ deleted
      /\ \A x \in DOMAIN items' : items'[x] = items[x]
      /\ items' = [x \in DOMAIN items' |-> items'[x]]
  BY <1>1, <1>5
<1>7. Calm BY <1>1, <1>3, <1>4, <1>6 DEF Calm
<1>8. PICK next \in Op : /\ ops' \subseteq ops \cup {next} /\ next.at \in {"answered", "nothing"}
                         /\ next.ids = op.ids /\ next.kind = "restored"
  <2>1. PICK at \in {"answered", "nothing"} : EmptyItems!Answers(op, at, op.ids) BY <1>1
  <2> QED BY <1>1, <1>2, <2>1, AnswersEffect
<1>9. ItemTypeOK'
  <2>1. items' \in [DOMAIN items' -> Item] BY <1>0, <1>6, ItemFields
  <2>2. snapshot' \in [DOMAIN snapshot' -> Item] BY <1>0, <1>4 DEF ItemTypeOK, Outline
  <2> QED BY <1>0, <1>1, <1>3, <1>4, <1>6, <1>8, <2>1, <2>2 DEF ItemTypeOK, Outline
<1>10. ParentsAreNested(items)' BY <1>0, <1>4, <1>6 DEF ItemsAreRight, ParentsAreNested
<1>11. ItemsAreRight' BY <1>0, <1>4, <1>7, <1>10, CalmItems DEF ItemTypeOK
<1>12. ASSUME NEW id \in op.ids, id \in DOMAIN items' PROVE id \in (written \cup nested)'
  <2>1. id \in DOMAIN items /\ ~EmptyItems!isEmptyLeaf(items, id) BY <1>5, <1>6,
      <1>12 DEF EmptyItems!toDelete
  <2>2. id \in tracked BY <1>1, <1>2 DEF OpIsRight, KindIsRight, Discards
  <2>3. items[id].text # 0 => id \in written
    BY <1>0, <2>1, <2>2 DEF ItemsAreRight, BornBlank, OnlyWritten
  <2>4. ASSUME NEW x \in EmptyItems!Children(items, id) PROVE id \in nested \cup {None}
    BY <1>0 DEF ItemsAreRight, ParentsAreNested, EmptyItems!Children
  <2>5. id \in Nat BY <1>2
  <2> QED BY <1>4, <2>1, <2>3, <2>4, <2>5 DEF EmptyItems!isEmptyLeaf
<1>13. OpIsRight(next)'
  <2>1. next.kind = op.kind /\ op.kind # "create" BY <1>1, <1>8
  <2>2. \A id \in op.ids :
           id \in DOMAIN items' => id \in (written \cup nested)' BY <1>12
  <2>3. /\ Ids \subseteq Ids' /\ tracked' = tracked /\ next.ids = op.ids
        /\ next.at \in {"answered", "nothing"}
    BY <1>3, <1>4, <1>8
  <2> QED BY <1>2, <2>1, <2>2, <2>3, AnsweredIsRight
<1> QED BY <1>7, <1>8, <1>9, <1>11, <1>13, CalmStep

\* An answer to anything but a new empty item: what it was about is forgotten.
LEMMA EmptyForgets ==
  ASSUME EInv, NEW op \in ops, op.at \in {"answered", "nothing"},
         op.kind \notin {"create", "move"} => EmptyItems!Forget(op.ids),
         op.kind \in {"create", "move"} => EmptyItems!Remembers,
         UNCHANGED tracked,
         ops' \subseteq ops \cup {[op EXCEPT !.at = "reload"]},
         handled' = IF op.kind = "restored" THEN handled \cup op.ids ELSE handled,
         UNCHANGED <<items, snapshot, focus, current, created, user, written, nested, held>>
  PROVE  EInv'
<1>0. ItemTypeOK /\ ItemsAreRight /\ op \in Op /\ OpIsRight(op) BY DEF EInv, ItemTypeOK
<1>1. /\ Recorded /\ pendingIds' \subseteq pendingIds
      /\ \A id \in pendingIds \ pendingIds' : id \in op.ids /\ op.kind \notin {"create", "move"}
  BY <1>0, ForgetEffect, RemembersEffect
<1>2. Calm BY <1>0, <1>1 DEF Calm, ItemTypeOK
<1>3. \A id \in op.ids :
        op.kind \notin {"create", "move"} /\ id \in DOMAIN items => id \in written \cup nested
  BY <1>0 DEF OpIsRight, ServedIsRight, Served
<1>4. Ids' = Ids BY DEF Ids
<1>5. op.ids \subseteq Ids BY <1>0 DEF OpIsRight, KindIsRight
<1>6. PICK next : next = [op EXCEPT !.at = "reload"] OBVIOUS
<1>7. next \in Op /\ next.at = "reload" /\ next.ids = op.ids /\ next.kind = op.kind
  BY <1>0, <1>6 DEF Op
<1>8. OpIsRight(next)'
  <2>1. KindIsRight(next)'
    BY <1>0, <1>4, <1>7 DEF OpIsRight, KindIsRight, Waits, Discards
  <2> QED BY <1>7, <2>1 DEF OpIsRight, FlushIsRight, SentIsRight, ServedIsRight, Waits, Sent,
                            Served
<1>9. ParentsAreNested(items)' BY <1>0 DEF ItemsAreRight, ParentsAreNested
<1>10. handled' \subseteq Ids /\ handled \subseteq Ids BY <1>0, <1>5 DEF ItemTypeOK
<1>11. ItemsAreRight'
  <2>1. \A id \in pendingIds \ pendingIds' : id \in DOMAIN items' => id \in written \cup nested'
    BY <1>1, <1>3
  <2>2. \A id \in handled' \ handled :
          id \in DOMAIN items' => id \in written \cup nested' \cup held'
    BY <1>3
  <2> QED BY <1>0, <1>1, <1>2, <1>9, <1>10, <2>1, <2>2, CalmItems
<1>12. ItemTypeOK' BY <1>0, <1>1, <1>4, <1>6, <1>7, <1>10 DEF ItemTypeOK, Outline, Recorded
<1> QED BY <1>2, <1>6, <1>7, <1>8, <1>11, <1>12, CalmStep DEF Served

\* A new empty item is remembered from the moment it is known.
LEMMA EmptyRemembers ==
  ASSUME EInv, NEW op \in ops, op.at \in {"answered", "nothing"}, op.kind = "create", op.text = 0,
         EmptyItems!Track(op.ids), tracked' = tracked \cup op.ids,
         ops' \subseteq (ops \ {op}) \cup {[op EXCEPT !.at = "reload"]},
         UNCHANGED <<items, snapshot, focus, current, created, user, written, nested, held,
                     handled>>
  PROVE  EInv'
<1>0. ItemTypeOK /\ ItemsAreRight /\ op \in Op /\ OpIsRight(op) BY DEF EInv, ItemTypeOK
<1>1. Ids' = Ids BY DEF Ids
<1>2. op.ids \subseteq Ids /\ op.ids \cap tracked = {} /\ \A id \in op.ids : BornBlank(id)
  BY <1>0 DEF OpIsRight, KindIsRight, ServedIsRight, Served
<1>3. PICK next : next = [op EXCEPT !.at = "reload"] OBVIOUS
<1>4. next \in Op /\ next.at = "reload" /\ next.ids = op.ids /\ next.kind = op.kind
  BY <1>0, <1>3 DEF Op
<1>5. ItemTypeOK'
  BY <1>0, <1>1, <1>2, <1>3, <1>4 DEF ItemTypeOK, Outline, EmptyItems!Track
<1>6. ItemsAreRight'
  <2>1. ParentsAreNested(snapshot)' /\ ParentsAreNested(items)'
    BY <1>0 DEF ItemsAreRight, ParentsAreNested
  <2>2. \A x \in tracked' : BornBlank(x)'
    BY <1>0, <1>2 DEF ItemsAreRight, BornBlank, OnlyWritten
  <2>3. EmptyItems!UntouchedAreRemembered'
    BY <1>0 DEF ItemsAreRight, EmptyItems!UntouchedAreRemembered, EmptyItems!Track
  <2>4. EmptyItems!NothingIsLeftBehind' BY <1>0 DEF ItemsAreRight,
                                                    EmptyItems!NothingIsLeftBehind
  <2> QED BY <2>1, <2>2, <2>3, <2>4 DEF ItemsAreRight
<1>7. OpIsRight(next)'
  <2>1. KindIsRight(next)'
    BY <1>0, <1>1, <1>4 DEF OpIsRight, KindIsRight, Waits, Discards
  <2> QED BY <1>4, <2>1 DEF OpIsRight, FlushIsRight, SentIsRight, ServedIsRight, Waits, Sent,
                            Served
<1>8. ASSUME NEW o \in ops, o # op PROVE OpIsRight(o)'
  <2>1. OpIsRight(o) BY DEF EInv
  <2>2. KindIsRight(o)' BY <1>1, <2>1 DEF OpIsRight, KindIsRight, Waits, Discards
  <2>3. Discards(o) => op.ids \cap o.ids = {} BY <1>2, <2>1 DEF OpIsRight, KindIsRight
  <2>4. FlushIsRight(o)'
    BY <2>1, <2>3 DEF OpIsRight, FlushIsRight, Waits, Discards, EmptyItems!Track
  <2>5. SentIsRight(o)' BY <2>1 DEF OpIsRight, SentIsRight, Sent, Discards
  <2>6. o.kind = "create" /\ Served(o) => op.ids \cap o.ids = {}
    BY <1>8 DEF EInv, CreatesDiffer, Served
  <2>7. ServedIsRight(o)'
    BY <2>1, <2>6 DEF OpIsRight, ServedIsRight, Served, BornBlank, OnlyWritten
  <2> QED BY <2>2, <2>4, <2>5, <2>7 DEF OpIsRight
<1>9. CreatesDiffer'
  <2>1. \A o \in ops' : o.kind = "create" /\ Served(o) => o \in ops BY <1>3, <1>4 DEF Served
  <2> QED BY <2>1, CreatesStay DEF EInv
<1>10. \A o \in ops' : OpIsRight(o)' BY <1>3, <1>7, <1>8
<1> QED BY <1>5, <1>6, <1>9, <1>10 DEF EInv

LEMMA EmptyAnswered == ASSUME EInv, EmptyItems!Answered PROVE EInv'
<1>1. PICK op \in ops :
        /\ op.at \in {"answered", "nothing"}
        /\ CASE op.kind = "create" /\ op.text = 0 ->
                  EmptyItems!Track(op.ids) /\ tracked' = tracked \cup op.ids
             [] op.kind \notin {"create", "move"} ->
                  EmptyItems!Forget(op.ids) /\ UNCHANGED tracked
             [] OTHER -> EmptyItems!Remembers /\ UNCHANGED tracked
        /\ IF op.at = "nothing" \/ (op.kind = "restored" /\ ~current)
             THEN EmptyItems!Ends(op) ELSE EmptyItems!Becomes(op, [op EXCEPT !.at = "reload"])
        /\ handled' = IF op.kind = "restored" THEN handled \cup op.ids ELSE handled
        /\ UNCHANGED <<items, snapshot, focus, current, created, user, written, nested, held>>
  BY DEF EmptyItems!Answered
<1>2. ops' \subseteq (ops \ {op}) \cup {[op EXCEPT !.at = "reload"]}
  BY <1>1 DEF EmptyItems!Ends, EmptyItems!Becomes
<1>3. CASE op.kind = "create" /\ op.text = 0 BY <1>1, <1>2, <1>3, EmptyRemembers
<1>4. CASE op.kind = "create" /\ op.text # 0
  BY <1>1, <1>2, <1>4, EmptyForgets
<1>5. CASE op.kind = "move" BY <1>1, <1>2, <1>5, EmptyForgets
<1>6. CASE op.kind \notin {"create", "move"} BY <1>1, <1>2, <1>6, EmptyForgets
<1> QED BY <1>3, <1>4, <1>5, <1>6

LEMMA EmptyReload == ASSUME EInv, EmptyItems!Reload PROVE EInv'
<1> USE NamesAssumption
<1>0. ItemTypeOK /\ ItemsAreRight BY DEF EInv
<1>1. PICK op \in ops, succeeds \in BOOLEAN :
        /\ op.at = "reload" /\ EmptyItems!Ends(op)
        /\ current' = (current /\ op.kind \in {"discard", "restored"})
        /\ IF succeeds /\ (op.kind = "restored" => current)
             THEN /\ snapshot' = [id \in DOMAIN items |->
                       IF id \in DOMAIN snapshot THEN [items[id] EXCEPT !.text = snapshot[id].text]
                       ELSE items[id]]
                  /\ focus' = IF focus \in DOMAIN items THEN focus ELSE None
             ELSE UNCHANGED <<snapshot, focus>>
        /\ UNCHANGED <<items, EmptyItems!remembered, created, user, EmptyItems!ghosts>>
  BY DEF EmptyItems!Reload
<1>2. /\ ops' \subseteq ops
      /\ UNCHANGED <<items, pendingIds, persisted, unwritten, unread, created, tracked, written,
                     nested, held, handled>>
      /\ Recorded
  BY <1>0, <1>1, RemembersEffect DEF EmptyItems!Ends, EmptyItems!Remembers, EmptyItems!ghosts
<1>3. Ids' = Ids BY <1>2 DEF Ids
<1>4. CreatesDiffer' BY <1>2, CreatesStay DEF EInv
<1>5. CASE UNCHANGED <<snapshot, focus>>
  <2>1. Calm BY <1>0, <1>2, <1>5 DEF Calm, ItemTypeOK
  <2>2. ItemTypeOK' BY <1>0, <1>2, <1>3, <1>5 DEF ItemTypeOK, Outline
  <2>3. ItemsAreRight'
    BY <1>0, <1>2, <1>5
    DEF ItemsAreRight, ParentsAreNested, BornBlank, OnlyWritten,
        EmptyItems!UntouchedAreRemembered,
        EmptyItems!NothingIsLeftBehind
  <2>4. \A o \in ops' : OpIsRight(o)' BY <1>2, <2>1, CalmOp DEF EInv
  <2> QED BY <1>4, <2>2, <2>3, <2>4 DEF EInv
<1>6. CASE /\ snapshot' = [id \in DOMAIN items |->
                 IF id \in DOMAIN snapshot THEN [items[id] EXCEPT !.text = snapshot[id].text]
                 ELSE items[id]]
           /\ focus' = IF focus \in DOMAIN items THEN focus ELSE None
  <2>1. /\ DOMAIN snapshot' = DOMAIN items
        /\ \A x \in DOMAIN items : /\ snapshot'[x] \in Item
                                   /\ snapshot'[x].parent = items[x].parent
                                   /\ snapshot'[x].text = IF x \in DOMAIN snapshot
                                                          THEN snapshot[x].text ELSE items[x].text
        /\ snapshot' = [x \in DOMAIN snapshot' |-> snapshot'[x]]
    <3>1. ASSUME NEW x \in DOMAIN items, x \in DOMAIN snapshot
          PROVE  /\ snapshot'[x] \in Item /\ snapshot'[x].parent = items[x].parent
                 /\ snapshot'[x].text = snapshot[x].text
      <4>1. snapshot'[x] = [items[x] EXCEPT !.text = snapshot[x].text] BY <1>6, <3>1
      <4> QED BY <1>0, <3>1, <4>1, ItemFields DEF Item
    <3>2. ASSUME NEW x \in DOMAIN items, x \notin DOMAIN snapshot
          PROVE  snapshot'[x] = items[x] /\ items[x] \in Item
      BY <1>0, <1>6, <3>2, ItemFields
    <3>3. DOMAIN snapshot' = DOMAIN items /\ snapshot' = [x \in DOMAIN snapshot' |-> snapshot'[x]]
      BY <1>6
    <3> QED BY <3>1, <3>2, <3>3
  <2>2. focus' \in DOMAIN snapshot' \cup {None} /\ (focus' = focus \/ focus' = None)
    BY <1>6, <2>1
  <2>3. ItemTypeOK'
    <3>1. snapshot' \in [DOMAIN snapshot' -> Item] BY <2>1
    <3> QED BY <1>0, <1>2, <1>3, <2>1, <2>2, <3>1 DEF ItemTypeOK, Outline
  <2>4. ItemsAreRight'
    <3>1. ParentsAreNested(snapshot)' /\ ParentsAreNested(items)'
      BY <1>0, <1>2, <2>1 DEF ItemsAreRight, ParentsAreNested
    <3>2. \A x \in tracked' : BornBlank(x)'
      BY <1>0, <1>2, <2>1 DEF ItemsAreRight, BornBlank, OnlyWritten
    <3>3. EmptyItems!UntouchedAreRemembered' BY <1>0, <1>2 DEF ItemsAreRight,
        EmptyItems!UntouchedAreRemembered
    <3>4. EmptyItems!NothingIsLeftBehind' BY <1>0, <1>2 DEF ItemsAreRight,
                                                            EmptyItems!NothingIsLeftBehind
    <3> QED BY <3>1, <3>2, <3>3, <3>4 DEF ItemsAreRight
  <2>5. ASSUME NEW o \in ops PROVE OpIsRight(o)'
    <3>1. OpIsRight(o) /\ o.ids \subseteq Nat BY <1>0 DEF EInv, ItemTypeOK, Op
    <3>2. KindIsRight(o)' BY <1>2, <1>3, <3>1 DEF OpIsRight, KindIsRight, Waits, Discards
    <3>3. FlushIsRight(o)'
      BY <1>2, <2>1, <3>1 DEF OpIsRight, FlushIsRight, Waits, Discards
    <3>4. SentIsRight(o)'
      BY <1>2, <2>1, <2>2, <3>1 DEF OpIsRight, SentIsRight, Sent, Discards
    <3>5. ServedIsRight(o)'
      BY <1>2, <2>1, <3>1 DEF OpIsRight, ServedIsRight, Served, BornBlank, OnlyWritten
    <3> QED BY <3>2, <3>3, <3>4, <3>5 DEF OpIsRight
  <2> QED BY <1>2, <1>4, <2>3, <2>4, <2>5 DEF EInv
<1> QED BY <1>1, <1>5, <1>6

-----------------------------------------------------------------------------
(* The window starts again.                                                *)

LEMMA EmptyRestart == ASSUME EInv, EmptyItems!Restart PROVE EInv'
<1> USE NamesAssumption
<1>0. ItemTypeOK /\ ItemsAreRight BY DEF EInv
<1>a. PICK loaded \in {persisted, {}}, sent \in SUBSET {op \in ops : op.at = "sent"} :
        LET left == {id \in loaded : id \in DOMAIN items /\ items[id].text = 0} IN
        /\ snapshot' = items /\ focus' = None /\ current' = TRUE
        /\ pendingIds' = left /\ EmptyItems!Persists(loaded, loaded \ left)
        /\ unwritten' = {} /\ unread' = (unread \cup unwritten \cup persisted) \ loaded
        /\ ops' = {[op EXCEPT !.heard = FALSE] : op \in sent}
                    \cup {[kind |-> "restored", ids |-> left, at |-> "flush", parent |-> None,
                           text |-> 0, dirty |-> {}, typed |-> {}, entered |-> {},
                           heard |-> TRUE]}
        /\ UNCHANGED <<items, created, EmptyItems!ghosts>>
  BY DEF EmptyItems!Restart
<1> DEFINE left == {id \in loaded : id \in DOMAIN items /\ items[id].text = 0}
           unheard(op) == [op EXCEPT !.heard = FALSE]
           new == [kind |-> "restored", ids |-> left, at |-> "flush", parent |-> None,
                   text |-> 0, dirty |-> {}, typed |-> {}, entered |-> {}, heard |-> TRUE]
<1>1. /\ snapshot' = items /\ focus' = None /\ current' = TRUE
      /\ pendingIds' = left /\ EmptyItems!Persists(loaded, loaded \ left)
      /\ unwritten' = {} /\ unread' = (unread \cup unwritten \cup persisted) \ loaded
      /\ ops' = {unheard(op) : op \in sent} \cup {new}
      /\ UNCHANGED <<items, created, EmptyItems!ghosts>>
  BY <1>a
<1>2. Ids' = Ids /\ UNCHANGED <<items, tracked, written, nested, held, handled>>
  BY <1>1 DEF Ids, EmptyItems!ghosts
<1>3. /\ left \subseteq loaded /\ left \subseteq tracked /\ left \subseteq Ids
      /\ left \in SUBSET Nat
  <2>1. left \subseteq loaded OBVIOUS
  <2>2. loaded \subseteq tracked /\ tracked \subseteq Ids BY <1>0 DEF ItemTypeOK
  <2>3. Ids \subseteq Nat BY DEF Ids
  <2> HIDE DEF left
  <2> QED BY <2>1, <2>2, <2>3
<1>3a. left \subseteq persisted' \/ left = {}
  <2> HIDE DEF left
  <2> QED BY <1>1, <1>3 DEF EmptyItems!Persists
<1>3b. persisted' \subseteq tracked
  <2> HIDE DEF left
  <2> QED BY <1>0, <1>1 DEF EmptyItems!Persists, ItemTypeOK
<1>4. ASSUME NEW op \in Op
      PROVE  /\ unheard(op) \in Op /\ unheard(op).kind = op.kind /\ unheard(op).ids = op.ids
             /\ unheard(op).at = op.at /\ unheard(op).typed = op.typed
             /\ unheard(op).entered = op.entered
  BY DEF Op
<1>5. ASSUME NEW o \in {unheard(op) : op \in sent}
      PROVE  \E op \in ops : /\ op.at = "sent" /\ o \in Op /\ o.kind = op.kind /\ o.ids = op.ids
                             /\ o.at = "sent" /\ o.typed = op.typed /\ o.entered = op.entered
  <2> HIDE DEF unheard
  <2>1. PICK op \in sent : o = unheard(op) OBVIOUS
  <2>2. op \in ops /\ op.at = "sent" /\ op \in Op BY <1>0 DEF ItemTypeOK
  <2> QED BY <1>4, <2>1, <2>2
<1> DEFINE others == {unheard(op) : op \in sent}
<1>6. PICK asked : asked = new OBVIOUS
<1>7. PICK kept : kept = left OBVIOUS
<1>8. /\ asked \in Op /\ asked.kind = "restored" /\ asked.ids = kept /\ asked.at = "flush"
  BY <1>3, <1>6, <1>7 DEF Op
<1>9. ops' = others \cup {asked} BY <1>1, <1>6
<1> HIDE DEF unheard, new, others
<1>10. ItemTypeOK'
  <2>1. ops' \subseteq Op BY <1>5, <1>8, <1>9 DEF others
  <2>2. snapshot' \in [DOMAIN snapshot' -> Item] /\ DOMAIN snapshot' \subseteq Ids
    BY <1>0, <1>1 DEF ItemTypeOK, Outline
  <2> HIDE DEF left
  <2> QED BY <1>0, <1>1, <1>2, <1>3, <1>3b, <2>1, <2>2 DEF ItemTypeOK, Outline
<1>11. ItemsAreRight'
  <2>1. ParentsAreNested(snapshot)' /\ ParentsAreNested(items)'
    BY <1>0, <1>1, <1>2 DEF ItemsAreRight, ParentsAreNested
  <2>2. \A x \in tracked' : BornBlank(x)'
    BY <1>0, <1>1, <1>2 DEF ItemsAreRight, BornBlank, OnlyWritten
  <2>3. EmptyItems!UntouchedAreRemembered'
    BY <1>0, <1>1, <1>2, <1>3a
    DEF ItemsAreRight, EmptyItems!UntouchedAreRemembered, BornBlank, OnlyWritten
  <2>4. EmptyItems!NothingIsLeftBehind' BY <1>0, <1>2 DEF ItemsAreRight,
                                                          EmptyItems!NothingIsLeftBehind
  <2> QED BY <2>1, <2>2, <2>3, <2>4 DEF ItemsAreRight
<1>12. ASSUME NEW o \in others PROVE OpIsRight(o)'
  <2>1. PICK op \in ops : /\ op.at = "sent" /\ o.kind = op.kind /\ o.ids = op.ids
                          /\ o.at = "sent" /\ o.typed = op.typed /\ o.entered = op.entered
    BY <1>5 DEF others
  <2>2. OpIsRight(op) /\ op.ids \subseteq Nat BY <1>0 DEF EInv, ItemTypeOK, Op
  <2>3. KindIsRight(o)' BY <1>2, <2>1, <2>2 DEF OpIsRight, KindIsRight, Waits, Discards
  <2>4. SentIsRight(o)'
    BY <1>1, <1>2, <2>1, <2>2 DEF OpIsRight, SentIsRight, Sent, Discards
  <2> QED BY <2>1, <2>3, <2>4 DEF OpIsRight, FlushIsRight, ServedIsRight, Waits, Served
<1>13. OpIsRight(asked)'
  <2>1. KindIsRight(asked)' BY <1>2, <1>3, <1>7, <1>8 DEF KindIsRight, Waits, Discards
  <2>2. FlushIsRight(asked)' BY <1>1, <1>2, <1>3, <1>7, <1>8 DEF FlushIsRight, Waits, Discards
  <2> QED BY <1>8, <2>1, <2>2 DEF OpIsRight, SentIsRight, ServedIsRight, Sent, Served
<1>14. CreatesDiffer'
  <2>1. \A o \in ops' : ~Served(o) BY <1>5, <1>8, <1>9 DEF Served, others
  <2> QED BY <2>1 DEF CreatesDiffer, Served
<1>15. \A o \in ops' : OpIsRight(o)' BY <1>9, <1>12, <1>13
<1> QED BY <1>10, <1>11, <1>14, <1>15 DEF EInv

LEMMA EmptyStep == ASSUME EInv, [EmptyItems!Next]_EmptyItems!vars PROVE EInv'
<1>1. CASE EmptyItems!Next
  <2>1. CASE EmptyItems!FlushFails \/ EmptyItems!ServeFails
    BY <2>1, EmptyEnds DEF EmptyItems!FlushFails, EmptyItems!ServeFails, EmptyItems!Ends
  <2> QED
    BY <1>1, <2>1, EmptyCreate, EmptyIndent, EmptyType, EmptyMoveFocus, EmptyRemove, EmptySave,
       EmptyAfterFlush, EmptyServeCreate, EmptyServeMove, EmptyServeDelete, EmptyServeDiscard,
       EmptyAnswered, EmptyReload, EmptyRestart
    DEF EmptyItems!Next
<1>2. CASE UNCHANGED EmptyItems!vars BY <1>2, EmptyEnds DEF EmptyItems!vars
<1> QED BY <1>1, <1>2

\* No text is discarded with its item, unless it is typed while the request is on its way;
\* an item that nobody has written in is remembered until a start does not get its record
\* back from the browser, which may not have taken it; and what a start dealt with is gone,
\* or in use: with any items, any operations under way and any failing writes
\* (pending_empty_item_controller.svelte.ts, occurrence_operations.ts:discardEmptyItems).
THEOREM EmptyItemsGo == EmptyItems!Spec => []EmptyItemsAreDiscarded
<1>1. EmptyItems!Init => EInv BY EmptyInitial
<1>2. EInv /\ [EmptyItems!Next]_EmptyItems!vars => EInv' BY EmptyStep
<1>3. EInv => EmptyItemsAreDiscarded
  BY DEF EInv, ItemsAreRight, OpIsRight, SentIsRight, Sent, Discards, EmptyItemsAreDiscarded,
         EmptyItems!TypedItemsStay, EmptyItems!UntouchedAreRemembered,
         EmptyItems!NothingIsLeftBehind
<1> QED BY <1>1, <1>2, <1>3, PTL DEF EmptyItems!Spec
================================================================================
