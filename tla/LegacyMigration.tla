--------------------------- MODULE LegacyMigration ---------------------------
(***************************************************************************)
(* The one-way migration of a SurrealDB database of an older Radiora into  *)
(* SQLite: the standalone tool (migrateLegacyStorageToTurso), what startup *)
(* requires of its result (requireCompletedLegacyMigration) and the user,  *)
(* who may still run the older version, kill the tool, take the legacy     *)
(* database away and put any version of it back, lose the new database or  *)
(* its marker, and put these back as the message of startup says.          *)
(*                                                                         *)
(* A database is the version of the legacy data it was imported from, and  *)
(* how many edits Radiora has made to it since; version 0 is no legacy     *)
(* data at all.  A fingerprint tells versions apart (the schema version of *)
(* the source is part of it here).  Working copies, backups and temporary  *)
(* databases have fresh names: a crash leaves them behind without effect.  *)
(*                                                                         *)
(* Abstracted: files are taken away while neither program runs, and an     *)
(* open database is not replaced (Windows refuses the rename).             *)
(***************************************************************************)
EXTENDS Naturals

CONSTANTS
  None,
  MaxVersion,  \* a bound on the versions of the legacy data
  MaxEdits,    \* a bound on the edits of a database
  MaxLosses    \* a bound on the files the user loses

VARIABLES
  source,    \* the version of the legacy database, 0 if there is none
  newest,    \* the newest version there has been
  target,    \* radiora.db
  marker,    \* radiora.db.migration.json: the fingerprint of the source, and the
             \* version that was imported (the hash of the snapshot)
  lost,      \* the files of these two names that the user lost last
  unvouched, \* the database was made while the marker of an earlier one lay there
  tool,      \* the migration tool: where it is, and what it holds
  app,       \* Radiora: where it is in its bootstrap
  losses

legacy == <<source, newest>>
files == <<target, marker, lost, unvouched>>
vars == <<legacy, files, tool, app, losses>>

Idle == [at |-> "idle", fingerprint |-> None, copy |-> None, found |-> FALSE]

Init ==
  /\ source \in {0, 1} /\ newest = source
  /\ target = None /\ marker = None
  /\ lost = [target |-> None, marker |-> None] /\ unvouched = FALSE
  /\ tool = Idle /\ app = [at |-> "closed", marker |-> None] /\ losses = 0

Imported(v) == [from |-> v, edits |-> 0]

Exists(path) == path # None

-----------------------------------------------------------------------------
(* The migration tool.                                                     *)

\* isLegacyStorageMigrationComplete
Complete == source = 0 \/ (Exists(target) /\ Exists(marker) /\ marker.fingerprint = source)

\* Faulty: an incomplete migration is started over.
startOver == FALSE

\* The target is never an existing file, complete or not.
occupied == Exists(target)

\* migrateLegacyStorageToTurso up to its first write.
ToolStarts ==
  /\ tool.at = "idle" /\ ~Complete /\ ~occupied
  /\ tool' = [tool EXCEPT !.at = "started"]
  /\ UNCHANGED <<legacy, files, app, losses>>

ToolStep(at, next, t) ==
  /\ tool.at = at /\ tool' = [t EXCEPT !.at = next]
  /\ UNCHANGED <<legacy, app, losses>>

Fingerprint ==
  /\ ToolStep("started", "fingerprinted", [tool EXCEPT !.fingerprint = source])
  /\ UNCHANGED files

\* createColdBackup and the working copy: the source may change until it is copied.
Copy ==
  /\ ToolStep("fingerprinted", "copied", [tool EXCEPT !.copy = source])
  /\ UNCHANGED files

\* The export from the copy, its validation, and the second look at the target.
CheckTarget ==
  /\ ~occupied
  /\ ToolStep("copied", "importing", [tool EXCEPT !.found = Exists(target)])
  /\ UNCHANGED files

\* The import into a temporary database, the comparison of the hashes, and the
\* rename, which replaces whatever is there by then.
ImportRenames ==
  /\ app.at # "open"
  /\ ToolStep("importing", "renamed", tool)
  /\ target' = Imported(tool.copy) /\ unvouched' = Exists(marker)
  /\ UNCHANGED <<marker, lost>>

\* Faulty: the fingerprint is taken when the marker is written.
late == source

\* The source as it was before it was copied.
recorded == tool.fingerprint

WriteMarker ==
  /\ tool.at = "renamed" /\ tool' = Idle
  /\ marker' = [fingerprint |-> recorded, imported |-> tool.copy] /\ unvouched' = FALSE
  /\ UNCHANGED <<legacy, target, lost, app, losses>>

\* An error of a step, or the death of the process.
ToolStops ==
  /\ tool.at # "idle" /\ tool' = Idle
  /\ UNCHANGED <<legacy, files, app, losses>>

-----------------------------------------------------------------------------
(* Startup in the mode "sqlite".                                           *)

\* Without a source there is nothing to require.
AppStarts ==
  /\ app.at = "closed"
  /\ app' = [app EXCEPT !.at = IF source = 0 THEN "allowed" ELSE "required"]
  /\ UNCHANGED <<legacy, files, tool, losses>>

ReadMarker ==
  /\ app.at = "required"
  /\ app' = [at |-> "hasMarker", marker |-> marker]
  /\ UNCHANGED <<legacy, files, tool, losses>>

\* Faulty: the marker alone is enough.
trustMarker(m) == Exists(m)

\* requireCompletedLegacyMigration: neither the fingerprint nor the database is
\* compared with the marker.
requirement(m) == Exists(m) /\ Exists(target)

RequireMigration ==
  /\ app.at = "hasMarker"
  /\ app' = [at |-> IF requirement(app.marker) THEN "allowed" ELSE "closed", marker |-> None]
  /\ UNCHANGED <<legacy, files, tool, losses>>

\* SqliteGraphStore.initialize opens the database or creates it.
OpenDatabase ==
  /\ app.at = "allowed" /\ app' = [app EXCEPT !.at = "open"]
  /\ IF Exists(target) THEN UNCHANGED files
     ELSE /\ target' = Imported(0)
          /\ unvouched' = (source = 0 /\ Exists(marker))
          /\ UNCHANGED <<marker, lost>>
  /\ UNCHANGED <<legacy, tool, losses>>

EditData ==
  /\ app.at = "open" /\ target.edits < MaxEdits
  /\ target' = [target EXCEPT !.edits = @ + 1]
  /\ UNCHANGED <<legacy, marker, lost, unvouched, tool, app, losses>>

AppCloses ==
  /\ app.at = "open" /\ app' = [app EXCEPT !.at = "closed"]
  /\ UNCHANGED <<legacy, files, tool, losses>>

-----------------------------------------------------------------------------
(* The user.                                                               *)

\* The older version is run, on the data that is there or on none.
LegacyChanges ==
  /\ app.at = "closed" /\ newest < MaxVersion
  /\ newest' = newest + 1 /\ source' = newest'
  /\ UNCHANGED <<files, tool, app, losses>>

NothingRuns == app.at = "closed" /\ tool.at = "idle"

\* The legacy database is taken away, or any version of it is put back.
LegacyMoves == NothingRuns /\ source' \in 0..newest /\ UNCHANGED <<newest, files, tool, app, losses>>

LoseFile ==
  /\ NothingRuns /\ losses < MaxLosses /\ losses' = losses + 1
  /\ \/ /\ Exists(target) /\ target' = None /\ UNCHANGED marker
        /\ lost' = [lost EXCEPT !.target = target]
     \/ /\ Exists(marker) /\ marker' = None /\ UNCHANGED target
        /\ lost' = [lost EXCEPT !.marker = marker]
  /\ unvouched' = FALSE
  /\ UNCHANGED <<legacy, tool, app>>

Match(db, m) == Exists(db) /\ Exists(m) => db.from = m.imported

\* "restore the matching migration marker or SQLite from backup", while the tool
\* may be running.
PutBack ==
  /\ app.at = "closed"
  /\ \/ /\ ~Exists(target) /\ Exists(lost.target) /\ Match(lost.target, marker)
        /\ target' = lost.target /\ UNCHANGED marker
     \/ /\ ~Exists(marker) /\ Exists(lost.marker) /\ Match(target, lost.marker)
        /\ marker' = lost.marker /\ UNCHANGED target
  /\ UNCHANGED <<legacy, lost, unvouched, tool, app, losses>>

Next ==
  \/ ToolStarts \/ Fingerprint \/ Copy \/ CheckTarget \/ ImportRenames \/ WriteMarker
  \/ ToolStops
  \/ AppStarts \/ ReadMarker \/ RequireMigration \/ OpenDatabase \/ EditData \/ AppCloses
  \/ LegacyChanges \/ LegacyMoves \/ LoseFile \/ PutBack

Spec == Init /\ [][Next]_vars

-----------------------------------------------------------------------------
Versions == 0..MaxVersion

Databases == [from : Versions, edits : 0..MaxEdits]
Markers == [fingerprint : Versions, imported : Versions]

TypeOK ==
  /\ newest \in Versions /\ source \in 0..newest
  /\ target \in {None} \cup Databases /\ marker \in {None} \cup Markers
  /\ lost \in [target : {None} \cup Databases, marker : {None} \cup Markers]
  /\ unvouched \in BOOLEAN
  /\ tool \in [at : {"idle", "started", "fingerprinted", "copied", "importing", "renamed"},
               fingerprint : {None} \cup Versions, copy : {None} \cup Versions,
               found : BOOLEAN]
  /\ app \in [at : {"closed", "required", "hasMarker", "allowed", "open"},
              marker : {None} \cup Markers]
  /\ losses \in 0..MaxLosses

\* Where legacy data exists, Radiora never works on a database that was made
\* without any: after a crash of the tool between its rename and its marker, after
\* the loss of either file, it refuses to start and preserves both.  One loss is
\* not covered: a marker says nothing of the database beside it (storage_bootstrap.ts
\* line 91), so that a database created beside an old marker while there was no
\* legacy data is taken for the migrated one when the data is put back.
LegacyIsNeverShadowed ==
  app.at = "open" /\ source # 0 => target.from # 0 \/ unvouched

\* When the tool says that the migration is complete, the database was imported
\* from the present legacy data or a later state of it, also when the older version
\* was writing during the migration: the fingerprint is older than the copy.  A
\* database made beside the marker of an earlier one is not covered, as above.
CompleteMeansImported ==
  Complete /\ source # 0 => target.from >= source \/ unvouched

\* The tool replaces no database that was there when its import began, and nobody
\* else replaces one: the only edits that can be lost are those of a database put
\* back while the import was running (turso_migration.ts line 174).
NoEditIsOverwritten ==
  [][Exists(target) /\ Exists(target') =>
       \/ target'.from = target.from /\ target'.edits >= target.edits
       \/ tool.at = "importing" /\ ~tool.found /\ tool'.at = "renamed"]_vars
=============================================================================
