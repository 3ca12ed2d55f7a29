----------------------------- MODULE StorageProofs -----------------------------
(***************************************************************************)
(* What holds of the storage before and after bootstrapStorage, for all    *)
(* constants:                                                              *)
(*                                                                         *)
(* - LegacyMigration, for any number of versions, edits and losses, and    *)
(*   wherever the tool or Radiora is when the other moves.  The tool takes *)
(*   the fingerprint before the copy, so that what the marker vouches for  *)
(*   is never newer than what was imported with it; and unless a database  *)
(*   was made beside the marker of an earlier one, it is what the marker   *)
(*   says was imported.                                                    *)
(* - JsonPersistence: what a failure leaves of memory and file.  Unless an *)
(*   ordinary call has failed or the file was torn since the last save,    *)
(*   the savepoint of the running call is what the file holds until it is  *)
(*   truncated.  That rests on the queue: nobody but its head runs.        *)
(***************************************************************************)
EXTENDS MCStorage, Sequences, TLAPS

-----------------------------------------------------------------------------
(* The migration.                                                          *)

\* A missing file is neither a version nor a file, and there is a legacy version
\* to migrate.
Bounds ==
  /\ MaxVersion \in Nat \ {0} /\ MaxEdits \in Nat /\ MaxLosses \in Nat
  /\ None \notin Nat /\ None \notin [from : Nat, edits : Nat]
  /\ None \notin [fingerprint : Nat, imported : Nat]

\* A marker vouches for legacy data, and for no more than was imported with it.
MarkerIsOld(m) == m # None => m.fingerprint \in 1..m.imported

\* A database holds what the marker beside it says, unless it was made beside it.
FilesFit ==
  /\ MarkerIsOld(marker) /\ MarkerIsOld(lost.marker)
  /\ marker # None /\ target # None /\ ~unvouched => target.from = marker.imported

\* What the tool has at each of its steps: the copy is no older than the fingerprint.
ToolOrder ==
  /\ tool.at # "idle" => source # 0
  /\ tool.at \in {"fingerprinted", "copied", "importing", "renamed"} =>
       tool.fingerprint \in 1..source
  /\ tool.at \in {"copied", "importing", "renamed"} => tool.copy \in tool.fingerprint..source
  /\ tool.at = "importing" => ~tool.found
  /\ tool.at = "renamed" => target # None /\ target.from = tool.copy

\* What Radiora has found at each of its steps.
AppOrder ==
  /\ app.at \in {"required", "hasMarker"} => source # 0
  /\ app.at = "hasMarker" /\ app.marker # None => marker # None
  /\ app.at \in {"allowed", "open"} /\ source # 0 => target # None /\ marker # None
  /\ app.at = "open" => target # None

MigrationInv == TypeOK /\ FilesFit /\ ToolOrder /\ AppOrder

LEMMA MigrationInitial ==
  ASSUME Bounds, Init
  PROVE  MigrationInv
<1>1. TypeOK
  <2>1. newest \in Versions /\ source \in 0..newest /\ losses \in 0..MaxLosses
    BY DEF Bounds, Init, Versions
  <2>2. tool \in [at : {"idle", "started", "fingerprinted", "copied", "importing", "renamed"},
                  fingerprint : {None} \cup Versions, copy : {None} \cup Versions,
                  found : BOOLEAN]
    BY DEF Init, Idle
  <2>3. /\ target \in {None} \cup Databases /\ marker \in {None} \cup Markers
        /\ lost \in [target : {None} \cup Databases, marker : {None} \cup Markers]
        /\ app \in [at : {"closed", "required", "hasMarker", "allowed", "open"},
                    marker : {None} \cup Markers]
        /\ unvouched \in BOOLEAN
    BY DEF Init
  <2> QED BY <2>1, <2>2, <2>3 DEF TypeOK
<1>2. FilesFit BY DEF Init, FilesFit, MarkerIsOld
<1>3. ToolOrder /\ AppOrder BY DEF Init, ToolOrder, AppOrder, Idle
<1> QED BY <1>1, <1>2, <1>3 DEF MigrationInv

\* What is made of the fields.
LEMMA FileShape ==
  ASSUME Bounds
  PROVE  /\ 0 \in Versions /\ Versions \subseteq Nat
         /\ None \notin Databases /\ None \notin Markers
         /\ \A v \in Versions : Imported(v) \in Databases
         /\ \A v \in Nat : Imported(v) # None
         /\ \A v, w \in Versions : [fingerprint |-> v, imported |-> w] \in Markers
         /\ \A v, w \in Nat : [fingerprint |-> v, imported |-> w] # None
         /\ \A d \in Databases : d.from \in Nat /\ d.edits \in Nat
         /\ \A m \in Markers : m.fingerprint \in Nat /\ m.imported \in Nat
<1>1. 0 \in Versions /\ Versions \subseteq Nat BY DEF Bounds, Versions
<1>2. Databases \subseteq [from : Nat, edits : Nat]
  <2>1. 0..MaxEdits \subseteq Nat BY DEF Bounds
  <2> QED BY <1>1, <2>1 DEF Databases
<1>3. Markers \subseteq [fingerprint : Nat, imported : Nat] BY <1>1 DEF Markers
<1>4. 0 \in 0..MaxEdits BY DEF Bounds
<1>5. \A v \in Versions : Imported(v) \in Databases BY <1>4 DEF Imported, Databases
<1>6. \A v \in Nat : Imported(v) \in [from : Nat, edits : Nat] BY DEF Imported
<1>7. \A v, w \in Versions : [fingerprint |-> v, imported |-> w] \in Markers BY DEF Markers
<1>8. \A v, w \in Nat :
        [fingerprint |-> v, imported |-> w] \in [fingerprint : Nat, imported : Nat]
  OBVIOUS
<1>9. /\ \A d \in Databases : d.from \in Nat /\ d.edits \in Nat
      /\ \A m \in Markers : m.fingerprint \in Nat /\ m.imported \in Nat
  BY <1>2, <1>3
<1> QED BY <1>1, <1>2, <1>3, <1>5, <1>6, <1>7, <1>8, <1>9 DEF Bounds

\* The fields of a state, as the steps use them.
LEMMA MigrationShape ==
  ASSUME Bounds, TypeOK
  PROVE  /\ source \in Nat /\ newest \in Nat /\ source <= newest /\ source \in Versions
         /\ marker # None => marker.fingerprint \in Nat /\ marker.imported \in Nat
         /\ target # None => target.from \in Nat /\ target.edits \in Nat
<1>1. source \in Nat /\ newest \in Nat /\ source <= newest /\ source \in Versions
  BY DEF Bounds, TypeOK, Versions
<1> QED BY <1>1, FileShape DEF TypeOK

\* An edit is one more edit of the same database.
LEMMA EditShape ==
  ASSUME Bounds, MigrationInv, EditData
  PROVE  /\ target # None /\ target' \in Databases
         /\ target'.from = target.from /\ target'.edits = target.edits + 1
<1>1. target \in Databases BY DEF EditData, MigrationInv, TypeOK, AppOrder
<1>2. /\ target.edits + 1 \in 0..MaxEdits /\ target.from \in Versions
      /\ target \in [from : Versions, edits : 0..MaxEdits]
  BY <1>1 DEF Databases, EditData, Bounds
<1>3. target' = [target EXCEPT !.edits = @ + 1] BY DEF EditData
<1>4. target' \in Databases BY <1>2, <1>3 DEF Databases
<1>5. target'.from = target.from /\ target'.edits = target.edits + 1 BY <1>2, <1>3
<1> QED BY <1>1, <1>4, <1>5, FileShape

\* Which steps touch what.
LEMMA Untouched ==
  ASSUME [Next]_vars
  PROVE  /\ LegacyChanges \/ LegacyMoves \/ UNCHANGED legacy
         /\ LoseFile \/ UNCHANGED losses
         /\ \/ ImportRenames \/ WriteMarker \/ OpenDatabase \/ EditData \/ LoseFile \/ PutBack
            \/ UNCHANGED files
         /\ \/ ToolStarts \/ Fingerprint \/ Copy \/ CheckTarget \/ ImportRenames \/ WriteMarker
            \/ ToolStops \/ UNCHANGED tool
         /\ \/ AppStarts \/ ReadMarker \/ RequireMigration \/ OpenDatabase \/ AppCloses
            \/ UNCHANGED app
<1>1. CASE \/ ToolStarts \/ Fingerprint \/ Copy \/ CheckTarget \/ ImportRenames \/ WriteMarker
           \/ ToolStops
  BY <1>1 DEF ToolStarts, ToolStep, Fingerprint, Copy, CheckTarget, ImportRenames,
     WriteMarker, ToolStops
<1>2. CASE \/ AppStarts \/ ReadMarker \/ RequireMigration \/ OpenDatabase \/ EditData
           \/ AppCloses
  BY <1>2 DEF AppStarts, ReadMarker, RequireMigration, OpenDatabase, EditData, AppCloses
<1>3. CASE LegacyChanges \/ LegacyMoves \/ LoseFile \/ PutBack
  BY <1>3 DEF LegacyChanges, LegacyMoves, LoseFile, PutBack
<1>4. CASE UNCHANGED vars BY <1>4 DEF vars
<1> QED BY <1>1, <1>2, <1>3, <1>4 DEF Next

\* What the tool holds when it writes.
LEMMA ToolShape ==
  ASSUME Bounds, MigrationInv
  PROVE  /\ tool.at \in {"fingerprinted", "copied", "importing", "renamed"} =>
              tool.fingerprint \in Nat /\ tool.fingerprint >= 1
         /\ tool.at \in {"copied", "importing", "renamed"} =>
              /\ tool.copy \in Nat /\ tool.fingerprint <= tool.copy
              /\ tool.copy \in Versions /\ tool.fingerprint \in Versions
<1>1. source \in Nat /\ newest \in Nat /\ source <= newest /\ newest <= MaxVersion
  BY MigrationShape DEF MigrationInv, TypeOK, Versions
<1> QED BY <1>1 DEF Bounds, MigrationInv, ToolOrder, Versions

LEMMA TypeStep ==
  ASSUME Bounds, MigrationInv, [Next]_vars
  PROVE  TypeOK'
<1>0. TypeOK BY DEF MigrationInv
<1>1. newest' \in Versions /\ source' \in 0..newest'
  <2>1. newest \in Nat /\ newest <= MaxVersion /\ source \in 0..newest
    BY <1>0 DEF TypeOK, Versions, Bounds
  <2>2. CASE LegacyChanges
    BY <2>1, <2>2 DEF LegacyChanges, Bounds, Versions
  <2>3. CASE LegacyMoves BY <2>1, <2>3 DEF LegacyMoves, Bounds, Versions
  <2>4. CASE UNCHANGED legacy BY <1>0, <2>4 DEF TypeOK, legacy
  <2> QED BY <2>2, <2>3, <2>4, Untouched
<1>2. losses' \in 0..MaxLosses
  <2>1. losses \in 0..MaxLosses BY <1>0 DEF TypeOK
  <2>2. CASE LoseFile BY <2>1, <2>2 DEF LoseFile, Bounds
  <2> QED BY <2>1, <2>2, Untouched
<1>3. /\ target' \in {None} \cup Databases /\ marker' \in {None} \cup Markers
      /\ lost' \in [target : {None} \cup Databases, marker : {None} \cup Markers]
      /\ unvouched' \in BOOLEAN
  <2>1. /\ target \in {None} \cup Databases /\ marker \in {None} \cup Markers
        /\ lost \in [target : {None} \cup Databases, marker : {None} \cup Markers]
        /\ unvouched \in BOOLEAN
    BY <1>0 DEF TypeOK
  <2>2. CASE ImportRenames
    BY <2>1, <2>2, ToolShape, FileShape DEF ImportRenames, ToolStep, Exists
  <2>3. CASE WriteMarker
    BY <2>1, <2>3, ToolShape, FileShape DEF WriteMarker, recorded
  <2>4. CASE OpenDatabase BY <2>1, <2>4, FileShape DEF OpenDatabase, Exists, files
  <2>5. CASE EditData BY <2>1, <2>5, EditShape DEF EditData
  <2>6. CASE LoseFile BY <2>1, <2>6 DEF LoseFile
  <2>7. CASE PutBack BY <2>1, <2>7 DEF PutBack
  <2>8. CASE UNCHANGED files BY <2>1, <2>8 DEF files
  <2> QED BY <2>2, <2>3, <2>4, <2>5, <2>6, <2>7, <2>8, Untouched
<1>4. tool' \in [at : {"idle", "started", "fingerprinted", "copied", "importing", "renamed"},
                 fingerprint : {None} \cup Versions, copy : {None} \cup Versions,
                 found : BOOLEAN]
  <2>1. /\ tool \in [at : {"idle", "started", "fingerprinted", "copied", "importing", "renamed"},
                     fingerprint : {None} \cup Versions, copy : {None} \cup Versions,
                     found : BOOLEAN]
        /\ source \in Versions
    BY <1>0, MigrationShape DEF TypeOK
  <2>2. CASE ToolStarts BY <2>1, <2>2 DEF ToolStarts
  <2>3. CASE Fingerprint BY <2>1, <2>3 DEF Fingerprint, ToolStep
  <2>4. CASE Copy BY <2>1, <2>4 DEF Copy, ToolStep
  <2>5. CASE CheckTarget BY <2>1, <2>5 DEF CheckTarget, ToolStep, Exists
  <2>6. CASE ImportRenames BY <2>1, <2>6 DEF ImportRenames, ToolStep
  <2>7. CASE WriteMarker \/ ToolStops
    <3>1. tool' = [at |-> "idle", fingerprint |-> None, copy |-> None, found |-> FALSE]
      BY <2>7 DEF WriteMarker, ToolStops, Idle
    <3> QED BY ONLY <3>1
  <2> QED BY <2>1, <2>2, <2>3, <2>4, <2>5, <2>6, <2>7, Untouched
<1>5. app' \in [at : {"closed", "required", "hasMarker", "allowed", "open"},
                marker : {None} \cup Markers]
  <2>1. /\ app \in [at : {"closed", "required", "hasMarker", "allowed", "open"},
                    marker : {None} \cup Markers]
        /\ marker \in {None} \cup Markers
    BY <1>0 DEF TypeOK
  <2> QED BY <2>1, Untouched
          DEF AppStarts, ReadMarker, RequireMigration, OpenDatabase, AppCloses
<1> QED BY <1>1, <1>2, <1>3, <1>4, <1>5 DEF TypeOK

LEMMA FilesFitStep ==
  ASSUME Bounds, MigrationInv, [Next]_vars
  PROVE  FilesFit'
<1>0. TypeOK /\ FilesFit BY DEF MigrationInv
<1> USE DEF FilesFit, MarkerIsOld
<1>1. CASE ImportRenames BY <1>0, <1>1 DEF ImportRenames, Exists
<1>2. CASE WriteMarker
  <2>1. /\ marker' = [fingerprint |-> tool.fingerprint, imported |-> tool.copy]
        /\ target' = target /\ lost' = lost
    BY <1>2 DEF WriteMarker, recorded
  <2>2. /\ tool.fingerprint \in 1..tool.copy /\ target.from = tool.copy
    BY <1>2, ToolShape DEF WriteMarker, MigrationInv, ToolOrder
  <2> QED BY <1>0, <2>1, <2>2
<1>3. CASE OpenDatabase
  <2>1. CASE Exists(target) BY <1>0, <1>3, <2>1 DEF OpenDatabase, files
  <2>2. CASE ~Exists(target)
    <3>1. source = 0 BY <1>3, <2>2 DEF OpenDatabase, MigrationInv, AppOrder, Exists
    <3> QED BY <1>0, <1>3, <2>2, <3>1 DEF OpenDatabase, Exists
  <2> QED BY <2>1, <2>2
<1>4. CASE EditData BY <1>0, <1>4, EditShape DEF EditData
<1>5. CASE LoseFile
  <2>1. lost \in [target : {None} \cup Databases, marker : {None} \cup Markers]
    BY <1>0 DEF TypeOK
  <2>2. lost'.marker \in {lost.marker, marker} /\ marker' \in {marker, None}
    BY <1>5, <2>1 DEF LoseFile
  <2>3. target' = None \/ marker' = None BY <1>5 DEF LoseFile
  <2> QED BY <1>0, <2>2, <2>3
<1>6. CASE PutBack BY <1>0, <1>6 DEF PutBack, Match, Exists
<1>7. CASE UNCHANGED files BY <1>0, <1>7 DEF files
<1> QED BY <1>1, <1>2, <1>3, <1>4, <1>5, <1>6, <1>7, Untouched

LEMMA ToolOrderStep ==
  ASSUME Bounds, MigrationInv, [Next]_vars
  PROVE  ToolOrder'
<1>0. /\ ToolOrder /\ source \in Nat /\ newest \in Nat /\ source <= newest
      /\ tool \in [at : {"idle", "started", "fingerprinted", "copied", "importing", "renamed"},
                   fingerprint : {None} \cup Versions, copy : {None} \cup Versions,
                   found : BOOLEAN]
  BY MigrationShape DEF MigrationInv, TypeOK
<1> USE DEF ToolOrder
<1>1. CASE ToolStarts BY <1>0, <1>1 DEF ToolStarts, Complete, legacy
<1>2. CASE Fingerprint BY <1>0, <1>2 DEF Fingerprint, ToolStep, legacy
<1>3. CASE Copy BY <1>0, <1>3 DEF Copy, ToolStep, legacy
<1>4. CASE CheckTarget
  BY <1>0, <1>4 DEF CheckTarget, ToolStep, occupied, Exists, legacy
<1>5. CASE ImportRenames
  <2>1. tool.copy \in Nat BY <1>5, ToolShape DEF ImportRenames, ToolStep
  <2>2. /\ tool'.at = "renamed" /\ tool'.fingerprint = tool.fingerprint
        /\ tool'.copy = tool.copy /\ tool.at = "importing" /\ source' = source
    BY <1>0, <1>5 DEF ImportRenames, ToolStep, legacy
  <2>3. target' # None /\ target'.from = tool.copy
    BY <1>5, <2>1, FileShape DEF ImportRenames, Imported
  <2> QED BY <1>0, <2>2, <2>3
<1>6. CASE WriteMarker \/ ToolStops BY <1>6 DEF WriteMarker, ToolStops, Idle
<1>7. CASE UNCHANGED tool
  <2>1. CASE LegacyChanges BY <1>0, <1>7, <2>1 DEF LegacyChanges, files
  <2>2. CASE LegacyMoves BY <1>0, <1>7, <2>2 DEF LegacyMoves, NothingRuns
  <2>3. CASE UNCHANGED legacy /\ tool.at = "renamed"
    <3>1. target' # None /\ target'.from = target.from
      <4>1. target # None BY <1>0, <2>3
      <4>2. CASE EditData BY <4>2, EditShape, FileShape DEF EditData
      <4>3. CASE \/ ImportRenames \/ WriteMarker \/ OpenDatabase \/ LoseFile \/ PutBack
                 \/ UNCHANGED files
        BY <1>0, <1>7, <2>3, <4>1, <4>3 DEF ImportRenames, ToolStep, WriteMarker, Idle,
           OpenDatabase, LoseFile, NothingRuns, PutBack, Exists, files
      <4> QED BY <4>2, <4>3, Untouched
    <3> QED BY <1>0, <1>7, <2>3, <3>1 DEF legacy
  <2>4. CASE UNCHANGED legacy /\ tool.at # "renamed" BY <1>0, <1>7, <2>4 DEF legacy
  <2> QED BY <2>1, <2>2, <2>3, <2>4, Untouched
<1> QED BY <1>1, <1>2, <1>3, <1>4, <1>5, <1>6, <1>7, Untouched

LEMMA AppOrderStep ==
  ASSUME Bounds, MigrationInv, [Next]_vars
  PROVE  AppOrder'
<1>0. /\ AppOrder
      /\ app \in [at : {"closed", "required", "hasMarker", "allowed", "open"},
                  marker : {None} \cup Markers]
  BY DEF MigrationInv, TypeOK
<1> USE DEF AppOrder
<1>1. app.at # "closed" => /\ target # None => target' # None
                           /\ marker # None => marker' # None
  <2>1. CASE ImportRenames
    BY <2>1, ToolShape, FileShape DEF ImportRenames, ToolStep, Imported
  <2>2. CASE WriteMarker BY <2>2, ToolShape, FileShape DEF WriteMarker, recorded
  <2>3. CASE OpenDatabase BY <2>3 DEF OpenDatabase, Exists, files
  <2>4. CASE EditData BY <2>4, EditShape, FileShape DEF EditData
  <2>5. CASE LoseFile \/ PutBack BY <2>5 DEF LoseFile, NothingRuns, PutBack
  <2>6. CASE UNCHANGED files BY <2>6 DEF files
  <2> QED BY <2>1, <2>2, <2>3, <2>4, <2>5, <2>6, Untouched
<1>2. app.at # "closed" => UNCHANGED source
  BY Untouched DEF LegacyChanges, LegacyMoves, NothingRuns, legacy
<1>3. CASE AppStarts BY <1>0, <1>3 DEF AppStarts, legacy
<1>4. CASE ReadMarker BY <1>0, <1>4 DEF ReadMarker, legacy, files
<1>5. CASE RequireMigration
  BY <1>0, <1>5 DEF RequireMigration, requirement, Exists, legacy, files
<1>6. CASE OpenDatabase
  BY <1>0, <1>6, FileShape DEF OpenDatabase, Imported, Exists, legacy, files
<1>7. CASE AppCloses BY <1>0, <1>7 DEF AppCloses
<1>8. CASE UNCHANGED app BY <1>0, <1>1, <1>2, <1>8
<1> QED BY <1>3, <1>4, <1>5, <1>6, <1>7, <1>8, Untouched

LEMMA MigrationStep ==
  ASSUME Bounds, MigrationInv, [Next]_vars
  PROVE  MigrationInv'
BY TypeStep, FilesFitStep, ToolOrderStep, AppOrderStep DEF MigrationInv

LEMMA MigrationInvariance == Bounds /\ Spec => []MigrationInv
<1> SUFFICES ASSUME Bounds PROVE Spec => []MigrationInv OBVIOUS
<1>1. Init => MigrationInv BY MigrationInitial
<1>2. MigrationInv /\ [Next]_vars => MigrationInv' BY MigrationStep
<1> QED BY <1>1, <1>2, PTL DEF Spec

-----------------------------------------------------------------------------
\* The state of the migration keeps its type, within any bounds.
THEOREM TypeCorrect ==
  ASSUME Bounds
  PROVE  Spec => []TypeOK
<1>1. MigrationInv => TypeOK BY DEF MigrationInv
<1> QED BY <1>1, MigrationInvariance, PTL

\* Radiora never opens a database that was made without the legacy data while there
\* is any, unless that database was created beside an old marker at a start without
\* legacy data: requiring a marker and a database is enough, because both are only
\* lost while neither program runs and only put back where they match.
THEOREM LegacyNeverShadowed ==
  ASSUME Bounds
  PROVE  Spec => []LegacyIsNeverShadowed
<1>1. MigrationInv => LegacyIsNeverShadowed
  BY MigrationShape DEF MigrationInv, AppOrder, FilesFit, MarkerIsOld, LegacyIsNeverShadowed
<1> QED BY <1>1, MigrationInvariance, PTL

\* The tool takes the fingerprint before it copies the source: what it calls
\* complete was imported from the present legacy data or a later state of it,
\* whenever the older version writes and whatever is put back, unless the database
\* was made beside the marker of an earlier one.
THEOREM CompleteIsImported ==
  ASSUME Bounds
  PROVE  Spec => []CompleteMeansImported
<1>1. ASSUME MigrationInv, Complete, source # 0, ~unvouched
      PROVE  target.from >= source
  <2>1. target # None /\ marker # None /\ marker.fingerprint = source
    BY <1>1 DEF Complete, Exists
  <2>2. target.from = marker.imported /\ source \in 1..marker.imported
    BY <1>1, <2>1 DEF MigrationInv, FilesFit, MarkerIsOld
  <2> QED BY <1>1, <2>1, <2>2, MigrationShape DEF MigrationInv
<1>2. MigrationInv => CompleteMeansImported BY <1>1 DEF CompleteMeansImported
<1> QED BY <1>2, MigrationInvariance, PTL

\* A migration that is run again replaces no database that was there when its import
\* began, and nothing else replaces one.
THEOREM EditsSurviveMigration ==
  ASSUME Bounds
  PROVE  Spec => NoEditIsOverwritten
<1> DEFINE Kept == Exists(target) /\ Exists(target') =>
                     \/ target'.from = target.from /\ target'.edits >= target.edits
                     \/ tool.at = "importing" /\ ~tool.found /\ tool'.at = "renamed"
<1>1. ASSUME MigrationInv, [Next]_vars, Exists(target), Exists(target')
      PROVE  \/ target'.from = target.from /\ target'.edits >= target.edits
             \/ tool.at = "importing" /\ ~tool.found /\ tool'.at = "renamed"
  <2>1. target.from \in Nat /\ target.edits \in Nat
    BY <1>1, MigrationShape DEF MigrationInv, Exists
  <2>2. CASE EditData BY <1>1, <2>1, <2>2, EditShape
  <2>3. CASE LoseFile BY <2>1, <2>3, <1>1 DEF LoseFile, Exists
  <2>4. CASE OpenDatabase BY <2>1, <2>4, <1>1 DEF OpenDatabase, files
  <2>5. CASE PutBack BY <2>1, <2>5, <1>1 DEF PutBack, Exists
  <2>6. CASE ImportRenames
    BY <1>1, <2>6 DEF ImportRenames, ToolStep, MigrationInv, ToolOrder, TypeOK
  <2>7. CASE WriteMarker \/ UNCHANGED files BY <2>1, <2>7 DEF WriteMarker, files
  <2> QED BY <1>1, <2>2, <2>3, <2>4, <2>5, <2>6, <2>7, Untouched
<1>2. MigrationInv /\ [Next]_vars => [Kept]_vars BY <1>1
<1> QED BY <1>2, MigrationInvariance, PTL DEF Spec, NoEditIsOverwritten

-----------------------------------------------------------------------------
(* The JSON store.                                                         *)

In(c, q) == \E i \in 1..Len(q) : q[i] = c

\* Nobody is in the queue twice.
NoneTwice(q) == \A i, j \in 1..Len(q) : q[i] = q[j] => i = j

Active(c) == call[c].phase \in {"running", "writing", "renaming"}

\* Those in the queue wait, but for its head.
QueueShape ==
  /\ NoneTwice(queue)
  /\ \A c \in Callers : Json!InQueue(c) <=> In(c, queue)
  /\ \A c \in Callers : Active(c) => c = queue[1]
  /\ ~Json!Up => queue = <<>>

\* Nothing has failed since the last save that memory or the file would show.
Unharmed == ~kept /\ ~damaged

\* While a call runs its savepoint is what the file holds, until it writes in place.
SavepointIsSaved ==
  /\ Json!Up /\ Unharmed /\ (\A c \in Callers : ~Active(c)) => mem = file
  /\ \A c \in Callers :
       /\ Unharmed /\ call[c].phase \in {"running", "renaming"} => before = file
       /\ call[c].phase = "writing" => call[c].kind \in Json!DirectKinds

JsonInv == Json!TypeOK /\ QueueShape /\ SavepointIsSaved /\ Json!FileIsWhole

Call == [phase : Json!Phases, kind : Json!Kinds, todo : SUBSET Keys]

-----------------------------------------------------------------------------
(* The queue.                                                              *)

\* An empty queue has nobody.
LEMMA NobodyIn == \A c : ~In(c, <<>>)
BY DEF In

\* The first caller leaves.
LEMMA Leaving ==
  ASSUME NEW q \in Seq(Callers), q # <<>>, NoneTwice(q)
  PROVE  /\ Tail(q) \in Seq(Callers) /\ NoneTwice(Tail(q)) /\ Head(q) = q[1]
         /\ \A d : In(d, Tail(q)) <=> In(d, q) /\ d # q[1]
<1>1. /\ Tail(q) \in Seq(Callers) /\ Head(q) = q[1]
      /\ Len(q) \in Nat /\ Len(q) > 0 /\ Len(Tail(q)) = Len(q) - 1
      /\ \A i \in 1..Len(q) - 1 : Tail(q)[i] = q[i + 1]
  OBVIOUS
<1> DEFINE t == Tail(q)
<1>2. /\ t \in Seq(Callers) /\ Head(q) = q[1] /\ Len(t) = Len(q) - 1
      /\ \A i \in 1..Len(t) : i + 1 \in 1..Len(q) /\ i + 1 # 1 /\ t[i] = q[i + 1]
  BY <1>1
<1> HIDE DEF t
<1>3. NoneTwice(t)
  <2> SUFFICES ASSUME NEW i \in 1..Len(t), NEW j \in 1..Len(t), t[i] = t[j] PROVE i = j
    BY DEF NoneTwice
  <2>1. i + 1 = j + 1 BY <1>2 DEF NoneTwice
  <2> QED BY <1>1, <1>2, <2>1
<1>4. ASSUME NEW d PROVE In(d, t) <=> In(d, q) /\ d # q[1]
  <2>1. ASSUME NEW i \in 1..Len(t), t[i] = d PROVE In(d, q) /\ d # q[1]
    <3>1. i + 1 \in 1..Len(q) /\ i + 1 # 1 /\ q[i + 1] = d BY <1>2, <2>1
    <3>2. 1 \in 1..Len(q) BY <1>1
    <3> QED BY <3>1, <3>2 DEF In, NoneTwice
  <2>2. ASSUME NEW i \in 1..Len(q), q[i] = d, d # q[1] PROVE In(d, t)
    <3>1. i - 1 \in 1..Len(t) /\ (i - 1) + 1 = i BY <1>1, <1>2, <2>2
    <3>2. t[i - 1] = q[(i - 1) + 1] BY <1>2, <3>1
    <3> QED BY <2>2, <3>1, <3>2 DEF In
  <2> QED BY <2>1, <2>2 DEF In
<1> QED BY <1>2, <1>3, <1>4 DEF t

\* A caller joins at the end.
LEMMA Joining ==
  ASSUME NEW q \in Seq(Callers), NEW c \in Callers, NoneTwice(q), ~In(c, q)
  PROVE  /\ Append(q, c) \in Seq(Callers) /\ NoneTwice(Append(q, c))
         /\ \A d : In(d, Append(q, c)) <=> In(d, q) \/ d = c
         /\ \A d : In(d, q) => Append(q, c)[1] = q[1]
<1> DEFINE a == Append(q, c)
<1>1. /\ a \in Seq(Callers) /\ Len(q) \in Nat /\ Len(a) = Len(q) + 1
      /\ \A i \in 1..Len(q) : i \in 1..Len(a) /\ a[i] = q[i]
      /\ Len(a) \in 1..Len(a) /\ a[Len(a)] = c
  OBVIOUS
<1> HIDE DEF a
<1>2. \A i \in 1..Len(a) : i \in 1..Len(q) \/ i = Len(a) BY <1>1
<1>3. NoneTwice(a)
  <2> SUFFICES ASSUME NEW i \in 1..Len(a), NEW j \in 1..Len(a), a[i] = a[j] PROVE i = j
    BY DEF NoneTwice
  <2> QED BY <1>1, <1>2 DEF NoneTwice, In
<1>4. \A d : In(d, a) <=> In(d, q) \/ d = c BY <1>1, <1>2 DEF In
<1>5. ASSUME NEW d, In(d, q) PROVE a[1] = q[1]
  <2>1. 1 \in 1..Len(q) BY <1>1, <1>5 DEF In
  <2> QED BY <1>1, <2>1
<1> QED BY <1>1, <1>3, <1>4, <1>5 DEF a

\* Whoever is active is the head.
LEMMA ActiveIsHead ==
  ASSUME Json!TypeOK, QueueShape, NEW c \in Callers, Active(c)
  PROVE  /\ queue # <<>> /\ c = queue[1] /\ Json!InQueue(c)
         /\ \A d \in Callers : d # c => ~Active(d)
<1>1. Json!InQueue(c) /\ In(c, queue) /\ c = queue[1] BY DEF QueueShape, Active, Json!InQueue
<1>2. queue # <<>> BY <1>1 DEF In
<1> QED BY <1>1, <1>2 DEF QueueShape

\* The answer of the head leaves nobody active.
LEMMA AnswerShape ==
  ASSUME Json!TypeOK, QueueShape, NEW c \in Callers, Active(c), Json!Up, life' = life,
         NEW result \in {"ok", "failed"}, Json!Answer(c, result)
  PROVE  /\ queue' \in Seq(Callers) /\ call' \in [Callers -> Call]
         /\ QueueShape' /\ \A d \in Callers : ~Active(d)'
<1>1. /\ queue \in Seq(Callers) /\ queue # <<>> /\ c = queue[1] /\ NoneTwice(queue)
      /\ \A d \in Callers : d # c => ~Active(d)
  BY ActiveIsHead DEF Json!TypeOK, QueueShape
<1>2. /\ queue' = Tail(queue) /\ call \in [Callers -> Call]
      /\ call' = [call EXCEPT ![c].phase = result]
  BY DEF Json!Answer, Json!Enter, Json!TypeOK, Call
<1>3. /\ queue' \in Seq(Callers) /\ NoneTwice(queue')
      /\ \A d : In(d, queue') <=> In(d, queue) /\ d # c
  BY <1>1, <1>2, Leaving
<1>4. /\ call' \in [Callers -> Call] /\ call'[c].phase = result
      /\ \A d \in Callers : d # c => call'[d] = call[d]
  BY <1>2 DEF Call, Json!Phases
<1>5. \A d \in Callers : ~Active(d)' BY <1>1, <1>4 DEF Active
<1>6. \A d \in Callers : Json!InQueue(d)' <=> In(d, queue')
  BY <1>3, <1>4 DEF QueueShape, Json!InQueue
<1>7. Json!Up' BY DEF Json!Up
<1> QED BY <1>3, <1>4, <1>5, <1>6, <1>7 DEF QueueShape

\* The head goes on without leaving the queue.
LEMMA HeadShape ==
  ASSUME Json!TypeOK, QueueShape, NEW c \in Callers, Json!InQueue(c), c = queue[1],
         queue' = queue, life' = life, call' \in [Callers -> Call], Active(c)',
         \A d \in Callers : d # c => call'[d] = call[d]
  PROVE  QueueShape' /\ \A d \in Callers : Active(d)' => d = c
<1>1. \A d \in Callers : Json!InQueue(d)' <=> Json!InQueue(d) BY DEF Json!InQueue, Active
<1>2. \A d \in Callers : Active(d)' => d = c
  BY DEF QueueShape, Active
<1>3. Json!Up' <=> Json!Up BY DEF Json!Up
<1> QED BY <1>1, <1>2, <1>3 DEF QueueShape

-----------------------------------------------------------------------------
(* The steps.                                                              *)

\* The store opens on what the file holds.
LEMMA InitKeeps ==
  ASSUME Json!InitAssumption, Json!Init
  PROVE  JsonInv
<1>1. /\ call \in [Callers -> Call] /\ \A c \in Callers : call[c].phase = "idle"
  BY DEF Json!Init, Call, Json!Phases, Json!Kinds, Json!DirectKinds
<1>2. Json!TypeOK
  <2>1. queue \in Seq(Callers) /\ life = "open" /\ kept = FALSE /\ damaged = FALSE
    BY DEF Json!Init
  <2>2. mem \in Json!States /\ file \in Json!States /\ before \in Json!States
    BY DEF Json!InitAssumption, Json!Init
  <2> QED BY <1>1, <2>1, <2>2 DEF Json!TypeOK, Call
<1>3. QueueShape BY <1>1
  DEF Json!Init, QueueShape, Json!InQueue, Active, In, NoneTwice, Json!Up
<1>4. SavepointIsSaved BY <1>1 DEF Json!Init, SavepointIsSaved
<1>5. Json!FileIsWhole BY DEF Json!InitAssumption, Json!Init, Json!FileIsWhole
<1> QED BY <1>2, <1>3, <1>4, <1>5 DEF JsonInv

\* A caller who is not in the queue joins it, or is told no.
LEMMA EnqueueKeeps ==
  ASSUME JsonInv, NEW c \in Callers, Json!Enqueue(c) \/ Json!EnqueueRefused(c)
  PROVE  JsonInv'
<1>1. /\ ~Json!InQueue(c) /\ UNCHANGED <<mem, file, before, life, kept, damaged>>
      /\ Json!TypeOK /\ QueueShape /\ ~In(c, queue) /\ ~Active(c) /\ ~Json!TearsFile(c)
  BY
  DEF Json!Enqueue, Json!EnqueueRefused, JsonInv, QueueShape, Json!InQueue, Active, Json!TearsFile
<1>2. call \in [Callers -> Call] /\ queue \in Seq(Callers) BY <1>1 DEF Json!TypeOK, Call
<1>3. /\ call' \in [Callers -> Call] /\ call'[c].phase \in {"queued", "failed"}
      /\ \A d \in Callers : d # c => call'[d] = call[d]
      /\ \/ call'[c].phase = "queued" /\ queue' = Append(queue, c) /\ life = "open"
         \/ call'[c].phase = "failed" /\ queue' = queue
  BY <1>2 DEF Json!Enqueue, Json!EnqueueRefused, Json!Enter, Call, Json!Phases
<1>4. /\ queue' \in Seq(Callers) /\ NoneTwice(queue')
      /\ \A d : In(d, queue') <=> In(d, queue) \/ (d = c /\ call'[c].phase = "queued")
      /\ \A d : In(d, queue) => queue'[1] = queue[1]
  <2>1. NoneTwice(queue) BY <1>1 DEF QueueShape
  <2>2. CASE queue' = Append(queue, c) /\ call'[c].phase = "queued"
    BY <1>1, <1>2, <2>1, <2>2, Joining
  <2>3. CASE queue' = queue /\ call'[c].phase = "failed"
    BY <1>2, <2>1, <2>3
  <2> QED BY <1>3, <2>2, <2>3
<1>5. Json!TypeOK' BY <1>1, <1>3, <1>4 DEF Json!TypeOK, Call
<1>6. /\ \A d \in Callers : Json!InQueue(d)' <=> In(d, queue')
      /\ \A d \in Callers : Active(d)' <=> Active(d)
      /\ \A d \in Callers : Active(d) => In(d, queue)
  BY <1>1, <1>3, <1>4 DEF QueueShape, Json!InQueue, Active
<1>7. Json!Up' = Json!Up BY <1>1 DEF Json!Up
<1>8. ~Json!Up => queue' = <<>> BY <1>1, <1>3 DEF QueueShape, Json!Up
<1>9. QueueShape' BY <1>1, <1>4, <1>6, <1>7, <1>8 DEF QueueShape
<1>10. SavepointIsSaved'
  BY <1>1, <1>3, <1>6, <1>7 DEF JsonInv, SavepointIsSaved, Unharmed
<1>11. Json!FileIsWhole' BY <1>1, <1>3 DEF JsonInv, Json!FileIsWhole, Json!TearsFile
<1> QED BY <1>5, <1>9, <1>10, <1>11 DEF JsonInv

\* The savepoint is memory as the last call left it.
LEMMA StartKeeps ==
  ASSUME JsonInv, NEW c \in Callers, Json!Start(c)
  PROVE  JsonInv'
<1>1. /\ Json!TypeOK /\ QueueShape /\ Json!Up /\ Json!InQueue(c) /\ call[c].phase = "queued"
      /\ before' = mem /\ UNCHANGED <<mem, file, queue, life, kept, damaged>>
      /\ queue # <<>> /\ c = Head(queue) /\ call' = [call EXCEPT ![c].phase = "running"]
  BY DEF JsonInv, Json!Start, Json!AtHead, Json!InQueue, Json!Enter
<1>2. call \in [Callers -> Call] /\ queue \in Seq(Callers) BY <1>1 DEF Json!TypeOK, Call
<1>3. c = queue[1] BY <1>1, <1>2
<1>4. \A d \in Callers : ~Active(d) BY <1>1, <1>3 DEF QueueShape, Active
<1>5. /\ call' \in [Callers -> Call] /\ call'[c].phase = "running"
      /\ \A d \in Callers : d # c => call'[d] = call[d]
  BY <1>1, <1>2 DEF Call, Json!Phases
<1>6. QueueShape' /\ \A d \in Callers : Active(d)' => d = c
  BY <1>1, <1>3, <1>5, HeadShape DEF Active
<1>7. Json!TypeOK' BY <1>1, <1>5 DEF Json!TypeOK, Call
<1>8. SavepointIsSaved'
  <2>1. Unharmed => mem = file BY <1>1, <1>4 DEF JsonInv, SavepointIsSaved
  <2> QED BY <1>1, <1>5, <1>6, <2>1 DEF SavepointIsSaved, Unharmed, Active
<1>9. Json!FileIsWhole' BY <1>1, <1>5 DEF JsonInv, Json!FileIsWhole, Json!TearsFile
<1> QED BY <1>6, <1>7, <1>8, <1>9 DEF JsonInv

\* A write of the operation changes memory alone.
LEMMA ExecuteKeeps ==
  ASSUME JsonInv, NEW c \in Callers, Json!Execute(c)
  PROVE  JsonInv'
<1>1. PICK k \in call[c].todo, v \in Values :
        /\ mem' = [mem EXCEPT ![k] = v] /\ call' = [call EXCEPT ![c].todo = @ \ {k}]
  BY DEF Json!Execute
<1>2. /\ Json!TypeOK /\ QueueShape /\ Json!Up /\ call[c].phase = "running" /\ Active(c)
      /\ UNCHANGED <<file, queue, before, life, kept, damaged>>
  BY DEF JsonInv, Json!Execute, Active
<1>3. c = queue[1] /\ Json!InQueue(c) BY <1>2, ActiveIsHead
<1>4. call \in [Callers -> Call] BY <1>2 DEF Json!TypeOK, Call
<1>5. /\ call' \in [Callers -> Call] /\ call'[c].phase = "running"
      /\ call'[c].kind = call[c].kind /\ \A d \in Callers : d # c => call'[d] = call[d]
  BY <1>1, <1>2, <1>4 DEF Call
<1>6. mem' \in Json!States
  <2>1. k \in Keys /\ mem \in Json!States BY <1>2, <1>4 DEF Call, Json!TypeOK
  <2> QED BY <1>1, <2>1 DEF Json!States
<1>7. Json!TypeOK' BY <1>2, <1>5, <1>6 DEF Json!TypeOK, Call
<1>8. QueueShape' /\ \A d \in Callers : Active(d)' => d = c
  BY <1>2, <1>3, <1>5, HeadShape DEF Active
<1>9. SavepointIsSaved'
  BY <1>2, <1>5, <1>8 DEF JsonInv, SavepointIsSaved, Unharmed, Active
<1>10. Json!FileIsWhole' BY <1>2, <1>5 DEF JsonInv, Json!FileIsWhole, Json!TearsFile
<1> QED BY <1>7, <1>8, <1>9, <1>10 DEF JsonInv

\* Only a direct call truncates the file.
LEMMA SaveKeeps ==
  ASSUME JsonInv, NEW c \in Callers, Json!Save(c)
  PROVE  JsonInv'
<1>1. /\ Json!TypeOK /\ QueueShape /\ Json!Up /\ call[c].phase = "running" /\ Active(c)
      /\ UNCHANGED <<mem, queue, before, life, kept, damaged>>
  BY DEF JsonInv, Json!Save, Active
<1>2. c = queue[1] /\ Json!InQueue(c) BY <1>1, ActiveIsHead
<1>3. call \in [Callers -> Call] BY <1>1 DEF Json!TypeOK, Call
<1>4. PICK phase \in {"writing", "renaming"} :
        /\ call' = [call EXCEPT ![c].phase = phase]
        /\ phase = "writing" => call[c].kind \in Json!DirectKinds /\ file' = Torn
        /\ phase = "renaming" => file' = file
  BY DEF Json!Save, Json!Enter, Json!inPlace
<1>5. /\ call' \in [Callers -> Call] /\ call'[c].phase = phase
      /\ call'[c].kind = call[c].kind /\ \A d \in Callers : d # c => call'[d] = call[d]
  BY <1>3, <1>4 DEF Call, Json!Phases
<1>6. Json!TypeOK' BY <1>1, <1>4, <1>5 DEF Json!TypeOK, Call
<1>7. QueueShape' /\ \A d \in Callers : Active(d)' => d = c
  BY <1>1, <1>2, <1>5, HeadShape DEF Active
<1>8. SavepointIsSaved'
  BY <1>1, <1>4, <1>5, <1>7 DEF JsonInv, SavepointIsSaved, Unharmed, Active
<1>9. Json!FileIsWhole'
  <2>1. CASE phase = "writing" BY <1>4, <1>5, <2>1 DEF Json!FileIsWhole, Json!TearsFile
  <2>2. CASE phase = "renaming"
    <3>1. file' = Torn => damaged \/ \E d \in Callers : Json!TearsFile(d)
      BY <1>4, <2>2 DEF JsonInv, Json!FileIsWhole
    <3>2. \A d \in Callers : Json!TearsFile(d) => Json!TearsFile(d)' BY <1>1, <1>5
      DEF Json!TearsFile
    <3> QED BY <1>1, <3>1, <3>2 DEF Json!FileIsWhole
  <2> QED BY <2>1, <2>2
<1> QED BY <1>6, <1>7, <1>8, <1>9 DEF JsonInv

\* A save mends the file, whatever it was.
LEMMA SaveSucceedsKeeps ==
  ASSUME Json!InitAssumption, JsonInv, NEW c \in Callers, Json!SaveSucceeds(c)
  PROVE  JsonInv'
<1>1. /\ Json!TypeOK /\ QueueShape /\ Json!Up /\ Active(c) /\ Json!Answer(c, "ok")
      /\ file' = mem /\ kept' = FALSE /\ damaged' = FALSE /\ UNCHANGED <<mem, before, life>>
  BY DEF JsonInv, Json!SaveSucceeds, Active
<1>2. /\ queue' \in Seq(Callers) /\ call' \in [Callers -> Call]
      /\ QueueShape' /\ \A d \in Callers : ~Active(d)'
  BY <1>1, AnswerShape
<1>3. Json!TypeOK' BY <1>1, <1>2 DEF Json!TypeOK, Call
<1>4. SavepointIsSaved' BY <1>1, <1>2 DEF SavepointIsSaved, Active
<1>5. Json!FileIsWhole' BY <1>1 DEF Json!InitAssumption, Json!TypeOK, Json!FileIsWhole
<1> QED BY <1>2, <1>3, <1>4, <1>5 DEF JsonInv

\* A failure puts memory back to the file, or is remembered.
LEMMA FailsKeeps ==
  ASSUME JsonInv, NEW c \in Callers, Json!Fails(c)
  PROVE  JsonInv'
<1>1. /\ Json!TypeOK /\ QueueShape /\ Json!Up /\ Active(c) /\ Json!Answer(c, "failed")
      /\ mem' = (IF call[c].kind = "ordinary" THEN mem ELSE before)
      /\ kept' = (kept \/ call[c].kind = "ordinary")
      /\ damaged' = (damaged \/ Json!TearsFile(c)) /\ UNCHANGED <<file, before, life>>
  BY DEF JsonInv, Json!Fails, Active, Json!afterFailure
<1>2. /\ queue' \in Seq(Callers) /\ call' \in [Callers -> Call]
      /\ QueueShape' /\ \A d \in Callers : ~Active(d)'
  BY <1>1, AnswerShape
<1>3. \A d \in Callers : d # c => ~Json!TearsFile(d)
  BY <1>1, ActiveIsHead DEF Json!TearsFile, Active
<1>4. Json!TypeOK'
  <2>1. mem' \in Json!States BY <1>1 DEF Json!TypeOK
  <2>2. kept' \in BOOLEAN /\ damaged' \in BOOLEAN BY <1>1
  <2> QED BY <1>1, <1>2, <2>1, <2>2 DEF Json!TypeOK, Call
<1>5. SavepointIsSaved'
  <2>1. ASSUME Unharmed' PROVE mem' = file'
    <3>1. Unharmed /\ call[c].kind # "ordinary" /\ ~Json!TearsFile(c)
      BY <1>1, <2>1 DEF Unharmed
    <3>2. call[c].phase \in {"running", "renaming"}
      BY <1>1, <3>1 DEF JsonInv, SavepointIsSaved, Json!TearsFile, Active
    <3> QED BY <1>1, <3>1, <3>2 DEF JsonInv, SavepointIsSaved
  <2> QED BY <1>2, <2>1 DEF SavepointIsSaved, Active
<1>6. Json!FileIsWhole' BY <1>1, <1>3 DEF JsonInv, Json!FileIsWhole
<1> QED BY <1>2, <1>4, <1>5, <1>6 DEF JsonInv

\* A crash in a write in place is remembered; a start reads what the file holds.
LEMMA LifeKeeps ==
  ASSUME JsonInv, Json!Close \/ Json!FinishClose \/ Json!Crash \/ Json!Restart
  PROVE  JsonInv'
<1>1. Json!TypeOK /\ QueueShape /\ SavepointIsSaved /\ Json!FileIsWhole BY DEF JsonInv
<1>2. CASE Json!Close \/ Json!FinishClose
  <2>1. /\ UNCHANGED <<mem, file, queue, call, before, kept, damaged>> /\ Json!Up
        /\ life' \in {"closing", "closed"} /\ (~Json!Up' => queue = <<>>)
    BY <1>2 DEF Json!Close, Json!FinishClose, Json!Up
  <2>2. Json!TypeOK' BY <1>1, <2>1 DEF Json!TypeOK
  <2>3. QueueShape' BY <1>1, <2>1 DEF QueueShape, Json!InQueue, Active
  <2>4. SavepointIsSaved' BY <1>1, <2>1 DEF SavepointIsSaved, Unharmed, Active
  <2>5. Json!FileIsWhole' BY <1>1, <2>1 DEF Json!FileIsWhole, Json!TearsFile
  <2> QED BY <2>2, <2>3, <2>4, <2>5 DEF JsonInv
<1>3. CASE Json!Crash
  <2>1. /\ queue' = <<>> /\ life' = "down" /\ UNCHANGED <<mem, file, before, kept>>
        /\ damaged' = (damaged \/ \E c \in Callers : Json!TearsFile(c))
        /\ call' = [c \in Callers |-> [call[c] EXCEPT !.phase = "idle"]]
    BY <1>3 DEF Json!Crash
  <2>2. call' \in [Callers -> Call] /\ \A c \in Callers : call'[c].phase = "idle"
    BY <1>1, <2>1 DEF Json!TypeOK, Call, Json!Phases
  <2>3. Json!TypeOK'
    <3>1. queue' \in Seq(Callers) /\ damaged' \in BOOLEAN BY <2>1
    <3> QED BY <1>1, <2>1, <2>2, <3>1 DEF Json!TypeOK, Call
  <2>4. QueueShape'
    <3>1. \A c \in Callers : ~Json!InQueue(c)' /\ ~Active(c)' BY <2>2 DEF Json!InQueue, Active
    <3>2. NoneTwice(queue') BY <2>1 DEF NoneTwice
    <3> QED BY <2>1, <3>1, <3>2, NobodyIn DEF QueueShape
  <2>5. SavepointIsSaved' BY <2>1, <2>2 DEF SavepointIsSaved, Json!Up
  <2>6. Json!FileIsWhole' BY <1>1, <2>1 DEF Json!FileIsWhole
  <2> QED BY <2>3, <2>4, <2>5, <2>6 DEF JsonInv
<1>4. CASE Json!Restart
  <2>1. /\ life = "down" /\ file # Torn /\ life' = "open" /\ mem' = file /\ kept' = FALSE
        /\ UNCHANGED <<file, queue, call, before, damaged>>
    BY <1>4 DEF Json!Restart
  <2>2. queue = <<>> /\ \A c \in Callers : ~Json!InQueue(c)
    BY <1>1, <2>1, NobodyIn DEF QueueShape, Json!Up
  <2>3. Json!TypeOK' BY <1>1, <2>1 DEF Json!TypeOK
  <2>4. QueueShape' BY <1>1, <2>1, <2>2 DEF QueueShape, Json!InQueue, Active
  <2>5. SavepointIsSaved' BY <2>1, <2>2 DEF SavepointIsSaved, Json!InQueue
  <2>6. Json!FileIsWhole' BY <2>1 DEF Json!FileIsWhole
  <2> QED BY <2>3, <2>4, <2>5, <2>6 DEF JsonInv
<1> QED BY <1>2, <1>3, <1>4

\* The savepoint of the running call is what the file holds, until it is truncated.
THEOREM JsonInvariance ==
  ASSUME Json!InitAssumption
  PROVE  Json!Spec => []JsonInv
<1>1. Json!Init => JsonInv BY InitKeeps
<1>2. JsonInv /\ [Json!Next]_(Json!vars) => JsonInv'
  <2> SUFFICES ASSUME JsonInv, [Json!Next]_(Json!vars) PROVE JsonInv' OBVIOUS
  <2>1. ASSUME NEW c \in Callers, Json!Step(c) PROVE JsonInv'
    BY <2>1, StartKeeps, ExecuteKeeps, SaveKeeps, SaveSucceedsKeeps, FailsKeeps DEF Json!Step
  <2>2. CASE UNCHANGED Json!vars
    <3>1. Json!TypeOK' BY <2>2 DEF Json!vars, JsonInv, Json!TypeOK
    <3>2. QueueShape' BY <2>2 DEF Json!vars, JsonInv, QueueShape, Json!InQueue, Active, Json!Up
    <3>3. SavepointIsSaved'
      BY <2>2 DEF Json!vars, JsonInv, SavepointIsSaved, Unharmed, Active, Json!Up
    <3>4. Json!FileIsWhole' BY <2>2 DEF Json!vars, JsonInv, Json!FileIsWhole, Json!TearsFile
    <3> QED BY <3>1, <3>2, <3>3, <3>4 DEF JsonInv
  <2> QED BY <2>1, <2>2, LifeKeeps, EnqueueKeeps DEF Json!Next
<1> QED BY <1>1, <1>2, PTL DEF Json!Spec

\* No batch and no restore tears the file, whenever it fails and whenever the process
\* dies; only a write in place does, until the next save mends it.
THEOREM OnlyDirectWritesTear ==
  ASSUME Json!InitAssumption
  PROVE  Json!Spec => []FileIsWhole
<1>1. JsonInv => FileIsWhole BY DEF JsonInv, FileIsWhole
<1> QED BY <1>1, JsonInvariance, PTL

\* Between two calls memory is what the file holds, unless an ordinary call failed or
\* the file was torn.
THEOREM MemoryFollowsFile ==
  ASSUME Json!InitAssumption
  PROVE  Json!Spec => []MemoryIsSaved
<1>1. JsonInv => MemoryIsSaved
  <2> SUFFICES ASSUME JsonInv, Json!Up, queue = <<>>, ~kept, ~damaged PROVE mem = file
    BY DEF MemoryIsSaved, Json!MemoryIsSaved
  <2>1. \A c \in Callers : ~Active(c) BY NobodyIn DEF JsonInv, QueueShape, Json!InQueue, Active
  <2> QED BY <2>1 DEF JsonInv, SavepointIsSaved, Unharmed
<1> QED BY <1>1, JsonInvariance, PTL
=============================================================================
