--------------------------- MODULE JsonPersistence ---------------------------
(***************************************************************************)
(* The other backend of bootstrapStorage: JsonPersistence keeps the whole  *)
(* graph in one JSON file.  Calls queue behind promise gates as in the     *)
(* SQLite backend, but what a failure leaves behind depends on the kind of *)
(* the call:                                                               *)
(*   "ordinary" (mutate)             memory is kept, the file is written   *)
(*                                   in place                              *)
(*   "rollback" (mutateWithRollback) memory is put back, the file is       *)
(*                                   written in place                      *)
(*   "batch", "restore"              memory is put back, the file is       *)
(*                                   replaced by a rename                  *)
(* Calls nested in the operation of a call are part of its operation.      *)
(***************************************************************************)
EXTENDS Sequences, Naturals

CONSTANTS
  Callers, Keys, Values, InitState,
  Torn     \* a file that was being written when its writer failed

VARIABLES
  mem,      \* the arrays of MemoryGraphStore
  file,     \* the JSON file
  queue,    \* the chain of mutationQueue gates: the callers in order
  call,     \* for each caller its last call
  before,   \* the savepoint of the call at the head
  life,     \* "open", "closing", "closed", or "down" (no process)
  kept,     \* an ordinary call has failed since the last save
  damaged   \* a write in place has failed since the last save

vars == <<mem, file, queue, call, before, life, kept, damaged>>

States == [Keys -> Values]

InitAssumption == InitState \in States /\ Torn \notin States

DirectKinds == {"ordinary", "rollback"}

Kinds == DirectKinds \cup {"batch", "restore"}

Phases == {"idle", "queued", "running", "writing", "renaming", "ok", "failed"}

InQueue(c) == call[c].phase \in {"queued", "running", "writing", "renaming"}

Up == life \in {"open", "closing"}

AtHead(c) == queue # <<>> /\ c = Head(queue)

Enter(c, phase) == call' = [call EXCEPT ![c].phase = phase]

\* finally: the gate of the next call is resolved.
Answer(c, result) ==
  /\ Enter(c, result)
  /\ queue' = Tail(queue)

Init ==
  /\ mem = InitState /\ file = InitState /\ before = InitState
  /\ queue = <<>> /\ life = "open" /\ kept = FALSE /\ damaged = FALSE
  /\ call = [c \in Callers |-> [phase |-> "idle", kind |-> "ordinary", todo |-> {}]]

-----------------------------------------------------------------------------
\* enqueue: a call joins the chain, unless the store is closing.
Enqueue(c) == \E kind \in Kinds, K \in SUBSET Keys :
  /\ life = "open" /\ ~InQueue(c)
  /\ call' = [call EXCEPT ![c] = [phase |-> "queued", kind |-> kind, todo |-> K]]
  /\ queue' = Append(queue, c)
  /\ UNCHANGED <<mem, file, before, life, kept, damaged>>

EnqueueRefused(c) ==
  /\ life \in {"closing", "closed"} /\ ~InQueue(c)
  /\ Enter(c, "failed")
  /\ UNCHANGED <<mem, file, queue, before, life, kept, damaged>>

Start(c) ==
  /\ Up /\ AtHead(c) /\ call[c].phase = "queued"
  /\ before' = mem /\ Enter(c, "running")
  /\ UNCHANGED <<mem, file, queue, life, kept, damaged>>

\* One write of the operation, to memory.
Execute(c) ==
  /\ Up /\ call[c].phase = "running"
  /\ \E k \in call[c].todo, v \in Values :
       /\ mem' = [mem EXCEPT ![k] = v]
       /\ call' = [call EXCEPT ![c].todo = @ \ {k}]
  /\ UNCHANGED <<file, queue, before, life, kept, damaged>>

\* Faulty: a batch writes the file like any other call.
alwaysInPlace(c) == TRUE

\* writeDirect, against a temporary file that is renamed.
inPlace(c) == call[c].kind \in DirectKinds

\* The operation returns and the graph is exported; writing in place truncates
\* the file.
Save(c) ==
  /\ Up /\ call[c].phase = "running" /\ call[c].todo = {}
  /\ IF inPlace(c) THEN Enter(c, "writing") /\ file' = Torn
                   ELSE Enter(c, "renaming") /\ UNCHANGED file
  /\ UNCHANGED <<mem, queue, before, life, kept, damaged>>

SaveSucceeds(c) ==
  /\ Up /\ call[c].phase \in {"writing", "renaming"}
  /\ file' = mem /\ kept' = FALSE /\ damaged' = FALSE
  /\ Answer(c, "ok")
  /\ UNCHANGED <<mem, before, life>>

\* A call that is known to leave a torn file if it ends now.
TearsFile(c) == call[c].phase = "writing" /\ call[c].kind \in DirectKinds

\* Faulty: memory keeps what the failed call wrote.
keepMemory(c) == mem

\* "Ordinary saves retain mutated memory"; the other kinds roll it back.
afterFailure(c) == IF call[c].kind = "ordinary" THEN mem ELSE before

\* The operation throws, or the file cannot be written.
Fails(c) ==
  /\ Up /\ call[c].phase \in {"running", "writing", "renaming"}
  /\ mem' = afterFailure(c)
  /\ kept' = (kept \/ call[c].kind = "ordinary")
  /\ damaged' = (damaged \/ TearsFile(c))
  /\ Answer(c, "failed")
  /\ UNCHANGED <<file, before, life>>

\* close waits for the last gate of the chain; inside a call it is refused.
Close ==
  /\ life = "open" /\ life' = "closing"
  /\ UNCHANGED <<mem, file, queue, call, before, kept, damaged>>

FinishClose ==
  /\ life = "closing" /\ queue = <<>> /\ life' = "closed"
  /\ UNCHANGED <<mem, file, queue, call, before, kept, damaged>>

Crash ==
  /\ Up /\ life' = "down" /\ queue' = <<>>
  /\ call' = [c \in Callers |-> [call[c] EXCEPT !.phase = "idle"]]
  /\ damaged' = (damaged \/ \E c \in Callers : TearsFile(c))
  /\ UNCHANGED <<mem, file, before, kept>>

\* initialize parses the file; a torn one stops the start.
Restart ==
  /\ life = "down" /\ file # Torn
  /\ life' = "open" /\ mem' = file /\ kept' = FALSE
  /\ UNCHANGED <<file, queue, call, before, damaged>>

Step(c) == Start(c) \/ Execute(c) \/ Save(c) \/ SaveSucceeds(c) \/ Fails(c)

Next ==
  \/ Close \/ FinishClose \/ Crash \/ Restart
  \/ \E c \in Callers : Enqueue(c) \/ EnqueueRefused(c) \/ Step(c)

Spec == Init /\ [][Next]_vars

-----------------------------------------------------------------------------
TypeOK ==
  /\ mem \in States /\ file \in States \cup {Torn} /\ before \in States
  /\ queue \in Seq(Callers)
  /\ call \in [Callers -> [phase : Phases, kind : Kinds, todo : SUBSET Keys]]
  /\ life \in {"open", "closing", "closed", "down"}
  /\ kept \in BOOLEAN /\ damaged \in BOOLEAN

\* The file can be loaded, except while a call writes it in place and after such
\* a write has failed: no batch and no restore can tear it, whenever the process
\* dies, and any later save mends it.
FileIsWhole ==
  file = Torn => damaged \/ \E c \in Callers : TearsFile(c)

\* Between two calls memory, which answers every read, is what the file holds,
\* unless an ordinary call failed or the file was torn; the next save that
\* succeeds writes what the failed call had left in memory.
MemoryIsSaved == Up /\ queue = <<>> /\ ~kept /\ ~damaged => mem = file
=============================================================================
