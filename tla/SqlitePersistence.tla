-------------------------- MODULE SqlitePersistence --------------------------
(***************************************************************************)
(* How SqlitePersistence commits the mutations of an in-memory store:      *)
(* concurrent calls queue behind promise gates, the call at the head runs  *)
(* against memory, and its effect is written in one SQLite transaction or  *)
(* taken back from memory.                                                 *)
(*                                                                         *)
(* A call is "full" (mutate), "batch" (batch: a full mutation whose nested *)
(* calls run inside its context) or "targeted" (mutateTargeted: one record *)
(* is validated, written and, on failure, put back alone).  The graph is a *)
(* function from Keys, the records, to values; what a service asks for is  *)
(* a function from the records it writes.  A single await separates every  *)
(* two actions, so other callers may come between them.  The process may   *)
(* die at any point; SQLite itself commits a transaction or does not.      *)
(*                                                                         *)
(* The checks of the planTargeted functions on one record are abstracted   *)
(* as: the state that results is valid.                                    *)
(***************************************************************************)
EXTENDS Sequences, Naturals

CONSTANTS Callers, Keys, Values, ValidStates, InitState

States == [Keys -> Values]

Requests == UNION {[K -> Values] : K \in (SUBSET Keys) \ {{}}}

ASSUME StatesAssumption == ValidStates \subseteq States /\ InitState \in ValidStates

VARIABLES
  mem,     \* the arrays of MemoryGraphStore
  disk,    \* the rows of the SQLite file
  queue,   \* the chain of mutationQueue gates: the callers in order
  call,    \* for each caller its last call
  before,  \* the state exported, or the record kept, for the rollback
  life     \* of the store: "open", "closing", "closed", or "down" (no process)

vars == <<mem, disk, queue, call, before, life>>

Kinds == {"full", "batch", "targeted"}

\* "queued"      waits for the gate of the call before it
\* "running"     its operation is under way (a batch context is active)
\* "persisting"  the operation is done, the write is not
\* "failing"     it threw; memory is not yet put back
\* "stuck"       waits for a promise that waits for it
Phases == {"idle", "queued", "running", "persisting", "failing", "stuck", "ok", "failed"}

InQueue(c) == call[c].phase \in {"queued", "running", "persisting", "failing", "stuck"}

Up == life \in {"open", "closing"}

Apply(s, W) == [k \in DOMAIN s |-> IF k \in DOMAIN W THEN W[k] ELSE s[k]]

\* Only records that the operation changed are written.
calculateSqliteDiff(s, from, to) ==
  [k \in DOMAIN s |-> IF to[k] # from[k] THEN to[k] ELSE s[k]]

AtHead(c) == queue # <<>> /\ c = Head(queue)

Enter(c, phase) == call' = [call EXCEPT ![c].phase = phase]

\* Faulty: the gate of the next call stays shut after a failure.
keepGate(c, result) ==
  /\ Enter(c, result)
  /\ queue' = IF result = "ok" THEN Tail(queue) ELSE queue

\* finally: the gate of the next call is resolved.
Answer(c, result) ==
  /\ Enter(c, result)
  /\ queue' = Tail(queue)

Init ==
  /\ mem = InitState /\ disk = InitState /\ before = InitState
  /\ queue = <<>> /\ life = "open"
  /\ call \in [Callers -> [phase : {"idle"}, kind : {"full"}, late : {FALSE},
                           writes : Requests, todo : {{}}]]

-----------------------------------------------------------------------------
\* enqueue: a call joins the chain, unless the store is closing or closed.
Enqueue(c) == \E kind \in Kinds, W \in Requests :
  /\ life = "open" /\ ~InQueue(c)
  /\ kind = "targeted" => \E k \in Keys : DOMAIN W = {k}
  /\ call' = [call EXCEPT ![c] = [phase |-> "queued", kind |-> kind, late |-> FALSE,
                                  writes |-> W, todo |-> DOMAIN W]]
  /\ queue' = Append(queue, c)
  /\ UNCHANGED <<mem, disk, before, life>>

EnqueueRefused(c) ==
  /\ life \in {"closing", "closed"} /\ ~InQueue(c)
  /\ Enter(c, "failed")
  /\ UNCHANGED <<mem, disk, queue, before, life>>

\* The gate of the previous call opens.  A full mutation exports the state for
\* its rollback; a targeted one validates its record and keeps the old one.
Start(c) ==
  /\ Up /\ AtHead(c) /\ call[c].phase = "queued"
  /\ before' = mem
  /\ IF call[c].kind = "targeted" /\ Apply(mem, call[c].writes) \notin ValidStates
       THEN Answer(c, "failed")
       ELSE Enter(c, "running") /\ UNCHANGED queue
  /\ UNCHANGED <<mem, disk, life>>

\* One write of the operation.
Execute(c) ==
  /\ Up /\ call[c].phase = "running"
  /\ \E k \in call[c].todo :
       /\ mem' = [mem EXCEPT ![k] = call[c].writes[k]]
       /\ call' = [call EXCEPT ![c].todo = @ \ {k}]
  /\ UNCHANGED <<disk, queue, before, life>>

\* The operation throws between two of its writes.
OperationThrows(c) ==
  /\ Up /\ call[c].phase = "running" /\ call[c].kind # "targeted"
  /\ Enter(c, "failing")
  /\ UNCHANGED <<mem, disk, queue, before, life>>

\* The operation returns; the context of a batch expires.
OperationReturns(c) ==
  /\ Up /\ call[c].phase = "running" /\ call[c].todo = {}
  /\ Enter(c, "persisting")
  /\ UNCHANGED <<mem, disk, queue, before, life>>

\* The state a commit writes: a targeted one its record, a full one the
\* records that differ from the state before.
ToWrite(c) ==
  IF call[c].kind = "targeted" THEN Apply(disk, call[c].writes)
                               ELSE calculateSqliteDiff(disk, before, mem)

\* Faulty: only calls of one record are validated.
anythingGoes(c) == TRUE

\* persistSqliteDiff validates the state of a full mutation once more.
Accepted(c) == call[c].kind = "targeted" \/ mem \in ValidStates

Persist(c) ==
  /\ Up /\ call[c].phase = "persisting" /\ Accepted(c)
  /\ disk' = ToWrite(c)
  /\ Answer(c, "ok")
  /\ UNCHANGED <<mem, before, life>>

\* The state is not valid, or SQLite reports an error and rolls back.
PersistFails(c) ==
  /\ Up /\ call[c].phase = "persisting"
  /\ Enter(c, "failing")
  /\ UNCHANGED <<mem, disk, queue, before, life>>

\* Faulty: memory keeps what the failed call wrote.
keepMemory(c) == mem

\* What memory is put back to: all of it, or the record of a targeted call.
rolledBack(c) ==
  IF call[c].kind = "targeted"
    THEN [k \in Keys |-> IF k \in DOMAIN call[c].writes THEN before[k] ELSE mem[k]]
    ELSE before

Rollback(c) ==
  /\ Up /\ call[c].phase = "failing"
  /\ mem' = rolledBack(c)
  /\ Answer(c, "failed")
  /\ UNCHANGED <<disk, before, life>>

\* Faulty: a context that was active once stays so.
everInBatch(c) == call[c].kind = "batch"

inBatch(c) == call[c].kind = "batch" /\ call[c].phase = "running"

\* Work that a batch left behind calls the store in the context of the batch,
\* after its operation has returned or thrown: the context is expired.
LateWrite(c) == \E k \in Keys, v \in Values :
  /\ Up /\ call[c].kind = "batch" /\ ~call[c].late
  /\ call[c].phase \in {"persisting", "failing", "ok", "failed"}
  /\ call' = [call EXCEPT ![c].late = TRUE]
  /\ mem' = IF inBatch(c) THEN [mem EXCEPT ![k] = v] ELSE mem
  /\ UNCHANGED <<disk, queue, before, life>>

Close ==
  /\ life = "open" /\ life' = "closing"
  /\ UNCHANGED <<mem, disk, queue, call, before>>

\* Faulty: nobody is refused.
neverRefused(c) == FALSE

closeRefused(c) == inBatch(c)

\* The operation of a batch closes the store: it is refused, and throws.
CloseInBatch(c) ==
  /\ life = "open" /\ call[c].kind = "batch" /\ call[c].phase = "running"
  /\ IF closeRefused(c) THEN Enter(c, "failing") /\ UNCHANGED life
                        ELSE Enter(c, "stuck") /\ life' = "closing"
  /\ UNCHANGED <<mem, disk, queue, before>>

\* close waits for the last gate of the chain.
CloseDatabase ==
  /\ life = "closing" /\ queue = <<>>
  /\ life' = "closed"
  /\ UNCHANGED <<mem, disk, queue, call, before>>

\* The process dies, and its calls with it.
Crash ==
  /\ life # "down" /\ life' = "down"
  /\ queue' = <<>>
  /\ call' = [c \in Callers |-> [call[c] EXCEPT !.phase = "idle"]]
  /\ UNCHANGED <<mem, disk, before>>

\* initialize reads the rows back; it throws if they are not a valid state.
Restart ==
  /\ life = "down" /\ disk \in ValidStates
  /\ life' = "open" /\ mem' = disk
  /\ UNCHANGED <<disk, queue, call, before>>

Step(c) ==
  Start(c) \/ Execute(c) \/ OperationReturns(c) \/ Persist(c) \/ PersistFails(c) \/ Rollback(c)

Next ==
  \/ Close \/ CloseDatabase \/ Crash \/ Restart
  \/ \E c \in Callers :
       \/ Enqueue(c) \/ EnqueueRefused(c) \/ Step(c)
       \/ OperationThrows(c) \/ LateWrite(c) \/ CloseInBatch(c)

\* The event loop runs every continuation that is ready.
Fairness == WF_vars(CloseDatabase) /\ \A c \in Callers : WF_vars(Step(c))

Spec == Init /\ [][Next]_vars

FairSpec == Spec /\ Fairness

-----------------------------------------------------------------------------
CallRecs == [phase : Phases, kind : Kinds, late : BOOLEAN,
             writes : Requests, todo : SUBSET Keys]

TypeOK ==
  /\ mem \in States /\ disk \in States /\ before \in States
  /\ queue \in Seq(Callers)
  /\ call \in [Callers -> CallRecs]
  /\ life \in {"open", "closing", "closed", "down"}

\* The file always holds a state that passes validation, so that the next start
\* can load it: also after a crash in the middle of a batch, and although a
\* targeted write validates one record only.
DiskIsValid == disk \in ValidStates

\* Between two calls memory, which answers every read, is what a restart would
\* load: no failed call leaves a write behind in memory, and none that was
\* answered is missing from the file.
MemoryIsDurable == Up /\ queue = <<>> => mem = disk

\* Calls run one at a time, in the order they came.
OneAtATime ==
  \A c \in Callers :
    call[c].phase \in {"running", "persisting", "failing"} => AtHead(c)

Durable == INSTANCE DurableStore WITH
  stored <- disk,
  line <- queue,
  asked <- [c \in Callers |-> call[c].writes],
  answer <- [c \in Callers |->
               IF call[c].phase \in {"ok", "failed"} THEN call[c].phase ELSE "none"]

\* Every call takes effect as a whole and for good or fails without a trace, in
\* the order of the calls, whatever fails or dies in between.
ImplementsDurableStore == Durable!Spec

\* Every call is answered, unless the process dies first.
EveryCallIsAnswered ==
  \A c \in Callers : InQueue(c) ~> ~InQueue(c)

\* Closing comes to an end: no call waits for the close that waits for it.
CloseEnds == life = "closing" ~> life # "closing"
=============================================================================
