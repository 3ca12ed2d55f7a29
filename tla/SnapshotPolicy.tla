---------------------------- MODULE SnapshotPolicy ----------------------------
(***************************************************************************)
(* DefaultSnapshotPolicy: when a recovery snapshot of a working copy is    *)
(* due, and which snapshots are kept as they grow old.  The policy is a    *)
(* pure library; whoever applies it may ask at any time, so that the       *)
(* caller here edits, asks, names and prunes whenever it likes.            *)
(*                                                                         *)
(* The snapshots are of one working copy (a scope of the buckets);         *)
(* contents are numbers.                                                   *)
(***************************************************************************)
EXTENDS SnapshotSpans, FiniteSets

CONSTANTS
  Contents,
  MaxSnapshots  \* bound of the instances

VARIABLES
  clock,
  copy,       \* the working copy: its content, and when it was written
  snapshots,  \* the snapshots that are left
  taken       \* all that were ever taken

vars == <<clock, copy, snapshots, taken>>

Init ==
  /\ clock = 0 /\ snapshots = {} /\ taken = {}
  /\ copy \in [content : Contents, at : {0}]

-----------------------------------------------------------------------------
\* compareSnapshotOrder: by time, then by id.
Before(s, t) == s.at < t.at \/ (s.at = t.at /\ s.id < t.id)

Last(S) == CHOOSE s \in S : \A t \in S \ {s} : Before(t, s)

\* shouldCreate: content first, then the two spans.
ShouldCreate ==
  /\ snapshots # {} => Last(snapshots).content # copy.content
  /\ clock - copy.at >= EditIdle
  /\ snapshots # {} => clock - Last(snapshots).at >= MinimumInterval

\* A name, or a protection without an end.
Forever == LastHour + 1

\* isProtected: until is when the protection expires, 0 if there is none.
IsProtected(s) == s.until > clock

Age(s) == clock - s.at

\* retentionBucket: the period of the calendar at the granularity of the age.
Bucket(s) ==
  IF Age(s) <= HourlyRetention THEN <<"hour", s.at \div Hour>>
  ELSE IF Age(s) <= DailyRetention THEN <<"day", s.at \div Day>>
  ELSE <<"month", s.at \div Month>>

\* What is kept without representing a bucket.
KeptAsIs(s) == IsProtected(s) \/ Age(s) <= KeepAll

\* Faulty: the first of a bucket stands for it.
RepresentsAsFirst(s, S) ==
  ~KeptAsIs(s) /\ \A t \in S \ {s} : ~KeptAsIs(t) /\ Bucket(t) = Bucket(s) => Before(s, t)

\* The last of its bucket stands for it.
Represents(s, S) ==
  ~KeptAsIs(s) /\ \A t \in S \ {s} : ~KeptAsIs(t) /\ Bucket(t) = Bucket(s) => Before(t, s)

\* decideRetention
Keep(S) == {s \in S : KeptAsIs(s) \/ Represents(s, S)}

-----------------------------------------------------------------------------
Tick ==
  /\ clock < LastHour /\ clock' = clock + 1
  /\ UNCHANGED <<copy, snapshots, taken>>

Edit(c) ==
  /\ c # copy.content /\ copy' = [content |-> c, at |-> clock]
  /\ UNCHANGED <<clock, snapshots, taken>>

Taken(until) ==
  [id |-> Cardinality(taken), at |-> clock, content |-> copy.content, until |-> until]

Take(until) ==
  /\ Cardinality(taken) < MaxSnapshots
  /\ snapshots' = snapshots \cup {Taken(until)} /\ taken' = taken \cup {Taken(until)}
  /\ UNCHANGED <<clock, copy>>

TakeWhenDue == ShouldCreate /\ Take(0)

\* Before a restore, an import or another operation, whatever the policy says: with a
\* name, or protected for some time.
TakeAtOperation == \E until \in {clock + Protection, Forever} : Take(until)

\* applyRecoverySnapshotPromotion: the snapshot is the source of a revision.
Promote(s) ==
  LET protected == [s EXCEPT !.until = Forever] IN
  /\ s.until # Forever
  /\ snapshots' = (snapshots \ {s}) \cup {protected}
  /\ taken' = (taken \ {s}) \cup {protected}
  /\ UNCHANGED <<clock, copy>>

Prune ==
  /\ snapshots' = Keep(snapshots)
  /\ UNCHANGED <<clock, copy, taken>>

Next ==
  \/ Tick \/ TakeWhenDue \/ TakeAtOperation \/ Prune
  \/ \E c \in Contents : Edit(c)
  \/ \E s \in snapshots : Promote(s)

Spec == Init /\ [][Next]_vars

-----------------------------------------------------------------------------
\* The period that s belongs to at the granularity of its age, whatever the age of t.
SamePeriod(s, t) ==
  LET length == IF Age(s) <= HourlyRetention THEN Hour
                ELSE IF Age(s) <= DailyRetention THEN Day ELSE Month
  IN  s.at \div length = t.at \div length

\* However often and whenever it is pruned, everything of the last days and
\* everything that is protected is there, and for every other snapshot ever taken
\* one at least as new of the same hour, day or month by its age.
NothingIsLostUnrepresented ==
  \A s \in taken :
    \/ s \in snapshots
    \/ /\ ~KeptAsIs(s)
       /\ \E t \in snapshots : Before(s, t) /\ SamePeriod(s, t)
=============================================================================
