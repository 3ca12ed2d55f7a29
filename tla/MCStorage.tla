----------------------------- MODULE MCStorage -----------------------------
(***************************************************************************)
(* What lies behind bootstrapStorage, on small instances: the JSON backend, *)
(* the SQLite backend (one record, for liveness) or the migration that      *)
(* precedes its first use.  storageMode is chosen once, as the bootstrap    *)
(* does; the two backends keep their queue, memory and file in the same     *)
(* variables, and the machine that is not chosen stands still.              *)
(***************************************************************************)
EXTENDS LegacyMigration

CONSTANTS k1, Callers, Keys, Values, InitState, Torn

VARIABLES storageMode, mem, file, queue, call, before, life, kept, damaged

MCKey == {k1}
MCInit == [k \in {k1} |-> 0]

Sqlite == INSTANCE SqlitePersistence WITH disk <- file, ValidStates <- {InitState}

Json == INSTANCE JsonPersistence

ASSUME BackendAssumption == Json!InitAssumption

backend == <<mem, file, queue, call, before, life, kept, damaged>>
mcvars == <<backend, vars, storageMode>>

MigrationRests == Init /\ source = 0

MCSpecInit ==
  \/ storageMode = "json" /\ Json!Init /\ MigrationRests
  \/ storageMode = "sqlite" /\ Sqlite!Init /\ kept = FALSE /\ damaged = FALSE /\ MigrationRests
  \/ storageMode = "migrating" /\ Json!Init /\ Init

JsonRuns == storageMode = "json" /\ Json!Next /\ UNCHANGED <<vars, storageMode>>

SqliteRuns ==
  /\ storageMode = "sqlite" /\ Sqlite!Next
  /\ UNCHANGED <<kept, damaged, vars, storageMode>>

MigrationRuns ==
  /\ storageMode = "migrating" /\ Next
  /\ UNCHANGED <<backend, storageMode>>

MCNext == JsonRuns \/ SqliteRuns \/ MigrationRuns

Rest == UNCHANGED <<kept, damaged, vars, storageMode>>

\* The fairness of either backend: the event loop runs what is ready.
MCFairness ==
  /\ WF_mcvars(storageMode = "sqlite" /\ Sqlite!CloseDatabase /\ Rest)
  /\ \A c \in Callers :
       /\ WF_mcvars(storageMode = "sqlite" /\ Sqlite!Step(c) /\ Rest)
       /\ WF_mcvars(storageMode = "json" /\ Json!Step(c) /\ UNCHANGED <<vars, storageMode>>)

MCSpec == MCSpecInit /\ [][MCNext]_mcvars /\ MCFairness

-----------------------------------------------------------------------------
Waits(c) == Json!InQueue(c) \/ Sqlite!InQueue(c)

\* Every call is answered by either backend, whatever fails, unless the process
\* dies first, and closing the SQLite store comes to an end: no call waits for the
\* close that waits for it.
EverythingIsAnswered ==
  /\ \A c \in Callers : Waits(c) ~> ~Waits(c)
  /\ storageMode = "sqlite" => Sqlite!CloseEnds

\* See JsonPersistence.
FileIsWhole == storageMode = "json" => Json!FileIsWhole
MemoryIsSaved == storageMode = "json" => Json!MemoryIsSaved
=============================================================================
