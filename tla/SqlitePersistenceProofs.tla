----------------------- MODULE SqlitePersistenceProofs -----------------------
(***************************************************************************)
(* SqlitePersistence implements DurableStore, for any callers, records,    *)
(* values and validity of states.                                          *)
(*                                                                         *)
(* The inductive invariant says where memory stands between a commit and   *)
(* the next: while a call runs, memory is the file with those writes of    *)
(* the call that are done, and the state kept for the rollback is the      *)
(* file.  Both rest on the queue: nobody but its head runs.                *)
(***************************************************************************)
EXTENDS SqlitePersistence, TLAPS

Active(c) == call[c].phase \in {"running", "persisting", "failing"}

\* Nobody is in the queue twice; those in it wait, but for the head.
QueueShape ==
  /\ \A i, j \in 1..Len(queue) : queue[i] = queue[j] => i = j
  /\ \A c \in Callers : InQueue(c) <=> \E i \in 1..Len(queue) : queue[i] = c
  /\ \A c \in Callers : Active(c) => queue # <<>> /\ c = queue[1]
  /\ \A c \in Callers : call[c].phase # "stuck"
  /\ \A c \in Callers : call[c].phase = "queued" => call[c].todo = DOMAIN call[c].writes

\* Without a process nobody waits.
DownIsQuiet == ~Up => queue = <<>>

\* What has been written of a call, on top of the file.
Written(c) ==
  [k \in Keys |-> IF k \in DOMAIN call[c].writes \ call[c].todo
                    THEN call[c].writes[k] ELSE disk[k]]

MemoryShape ==
  /\ Up /\ (\A c \in Callers : ~Active(c)) => mem = disk
  /\ \A c \in Callers : Active(c) =>
       /\ before = disk /\ mem = Written(c)
       /\ call[c].todo \subseteq DOMAIN call[c].writes
       /\ call[c].phase = "persisting" => call[c].todo = {}
       /\ call[c].kind = "targeted" => Apply(disk, call[c].writes) \in ValidStates

IInv == TypeOK /\ DiskIsValid /\ QueueShape /\ DownIsQuiet /\ MemoryShape

-----------------------------------------------------------------------------
LEMMA RequestDomain ==
  ASSUME NEW W \in Requests
  PROVE  DOMAIN W \subseteq Keys /\ \A k \in DOMAIN W : W[k] \in Values
<1>1. PICK K \in (SUBSET Keys) \ {{}} : W \in [K -> Values] BY DEF Requests
<1> QED BY <1>1

LEMMA ApplyType ==
  ASSUME NEW s \in States, NEW W \in Requests
  PROVE  Apply(s, W) \in States
BY RequestDomain DEF Apply, States

\* The first caller leaves the queue.
LEMMA TailFacts ==
  ASSUME NEW q \in Seq(Callers), q # <<>>
  PROVE  /\ Tail(q) \in Seq(Callers)
         /\ Len(Tail(q)) = Len(q) - 1
         /\ \A i \in 1..Len(q) - 1 : Tail(q)[i] = q[i + 1]
         /\ Head(q) = q[1] /\ 1 \in 1..Len(q)
OBVIOUS

LEMMA AppendFacts ==
  ASSUME NEW q \in Seq(Callers), NEW c \in Callers
  PROVE  /\ Append(q, c) \in Seq(Callers)
         /\ Len(Append(q, c)) = Len(q) + 1
         /\ \A i \in 1..Len(q) : Append(q, c)[i] = q[i]
         /\ Append(q, c)[Len(q) + 1] = c
OBVIOUS

LEMMA InitIInv == Init => IInv
<1> SUFFICES ASSUME Init PROVE IInv OBVIOUS
<1>1. call \in [Callers -> CallRecs] BY DEF Init, CallRecs, Phases, Kinds
<1>2. TypeOK BY <1>1, StatesAssumption DEF Init, TypeOK
<1>3. \A c \in Callers : call[c].phase = "idle" BY DEF Init
<1>4. DiskIsValid BY StatesAssumption DEF Init, DiskIsValid
<1>5. QueueShape BY <1>3 DEF Init, QueueShape, InQueue, Active
<1>6. DownIsQuiet BY DEF Init, DownIsQuiet
<1>7. MemoryShape BY <1>3 DEF Init, MemoryShape, Active
<1> QED BY <1>2, <1>4, <1>5, <1>6, <1>7 DEF IInv

\* A call that leaves the queue leaves the shape of the queue intact.
LEMMA AnswerKeepsShape ==
  ASSUME TypeOK, QueueShape, NEW c \in Callers, NEW result \in {"ok", "failed"},
         InQueue(c), AtHead(c), Answer(c, result)
  PROVE  /\ QueueShape' /\ queue' \in Seq(Callers)
         /\ call' \in [Callers -> CallRecs]
         /\ \A d \in Callers : ~Active(d)'
<1>1. queue \in Seq(Callers) /\ queue # <<>> /\ c = queue[1]
  BY TailFacts DEF TypeOK, AtHead
<1>2. queue' = Tail(queue) /\ call' = [call EXCEPT ![c].phase = result]
  BY DEF Answer, Enter
<1>3. /\ queue' \in Seq(Callers) /\ Len(queue') = Len(queue) - 1
      /\ \A i \in 1..Len(queue) - 1 : queue'[i] = queue[i + 1]
      /\ Len(queue) \in Nat /\ Len(queue) > 0
  BY <1>1, <1>2, TailFacts
<1>4. call' \in [Callers -> CallRecs]
  BY <1>2 DEF TypeOK, CallRecs, Phases
<1>5. /\ call'[c].phase = result
      /\ \A d \in Callers : d # c => call'[d] = call[d]
  BY <1>2 DEF TypeOK, CallRecs
<1>6. \A d \in Callers : ~Active(d)'
  BY <1>1, <1>5 DEF QueueShape, Active
<1>7. \A i, j \in 1..Len(queue') : queue'[i] = queue'[j] => i = j
  <2> TAKE i, j \in 1..Len(queue')
  <2>1. i + 1 \in 1..Len(queue) /\ j + 1 \in 1..Len(queue) BY <1>3
  <2> QED BY <1>3, <2>1 DEF QueueShape
<1>8. \A d \in Callers : InQueue(d)' <=> \E i \in 1..Len(queue') : queue'[i] = d
  <2> TAKE d \in Callers
  <2>1. CASE d = c
    <3>1. ~InQueue(c)' BY <1>5 DEF InQueue
    <3>2. \A i \in 1..Len(queue') : queue'[i] # c
      <4> TAKE i \in 1..Len(queue')
      <4>1. i + 1 \in 1..Len(queue) /\ i + 1 # 1 BY <1>3
      <4>2. 1 \in 1..Len(queue) BY <1>3
      <4> QED BY <1>1, <1>3, <4>1, <4>2 DEF QueueShape
    <3> QED BY <2>1, <3>1, <3>2
  <2>2. CASE d # c
    <3>1. InQueue(d)' <=> InQueue(d) BY <1>5, <2>2 DEF InQueue
    <3>2. InQueue(d) <=> \E i \in 1..Len(queue) : queue[i] = d BY DEF QueueShape
    <3>3. \A i \in 1..Len(queue) : queue[i] = d => i - 1 \in 1..Len(queue') /\ queue'[i - 1] = d
      <4> TAKE i \in 1..Len(queue)
      <4> HAVE queue[i] = d
      <4>1. i # 1 BY <1>1, <2>2
      <4>2. i - 1 \in 1..Len(queue) - 1 /\ (i - 1) + 1 = i BY <1>3, <4>1
      <4> QED BY <1>3, <4>2
    <3>4. \A i \in 1..Len(queue') : i + 1 \in 1..Len(queue) /\ queue'[i] = queue[i + 1]
      BY <1>3
    <3> QED BY <3>1, <3>2, <3>3, <3>4
  <2> QED BY <2>1, <2>2
<1>9. \A d \in Callers :
        /\ call'[d].phase # "stuck"
        /\ call'[d].phase = "queued" => call'[d].todo = DOMAIN call'[d].writes
  BY <1>5 DEF QueueShape
<1> QED BY <1>3, <1>4, <1>6, <1>7, <1>8, <1>9 DEF QueueShape

\* The head of the queue moves on without leaving it.
LEMMA HeadKeepsShape ==
  ASSUME TypeOK, QueueShape, NEW c \in Callers, InQueue(c), AtHead(c),
         queue' = queue, call' \in [Callers -> CallRecs],
         call'[c].phase \in {"running", "persisting", "failing"},
         \A d \in Callers : d # c => call'[d] = call[d]
  PROVE  QueueShape'
<1>1. queue # <<>> /\ c = queue[1] BY TailFacts DEF TypeOK, AtHead
<1>2. InQueue(c)' BY DEF InQueue
<1>3. \A d \in Callers : InQueue(d)' <=> InQueue(d) BY <1>2 DEF InQueue
<1>4. \A d \in Callers : Active(d)' => queue # <<>> /\ d = queue[1]
  BY <1>1 DEF QueueShape, Active
<1>5. \A d \in Callers :
        /\ call'[d].phase # "stuck"
        /\ call'[d].phase = "queued" => call'[d].todo = DOMAIN call'[d].writes
  BY DEF QueueShape
<1> QED BY <1>3, <1>4, <1>5 DEF QueueShape

\* Only one caller is active.
LEMMA OneActive ==
  ASSUME QueueShape, NEW c \in Callers, Active(c)
  PROVE  InQueue(c) /\ queue # <<>> /\ c = queue[1]
         /\ \A d \in Callers : d # c => ~Active(d)
BY DEF QueueShape, Active, InQueue

LEMMA EnqueueIInv ==
  ASSUME IInv, NEW c \in Callers, Enqueue(c)
  PROVE  IInv'
<1>1. PICK kind \in Kinds, W \in Requests :
        /\ life = "open" /\ ~InQueue(c)
        /\ call' = [call EXCEPT ![c] = [phase |-> "queued", kind |-> kind,
                      late |-> FALSE, writes |-> W, todo |-> DOMAIN W]]
        /\ queue' = Append(queue, c)
        /\ UNCHANGED <<mem, disk, before, life>>
  BY DEF Enqueue
<1>2. /\ queue' \in Seq(Callers) /\ Len(queue') = Len(queue) + 1
      /\ \A i \in 1..Len(queue) : queue'[i] = queue[i]
      /\ queue'[Len(queue) + 1] = c /\ Len(queue) \in Nat
  BY <1>1, AppendFacts DEF IInv, TypeOK
<1>3. TypeOK'
  BY <1>1, <1>2, RequestDomain DEF IInv, TypeOK, CallRecs, Phases
<1>4. /\ call'[c].phase = "queued" /\ call'[c].todo = DOMAIN call'[c].writes
      /\ \A d \in Callers : d # c => call'[d] = call[d]
  BY <1>1 DEF IInv, TypeOK
<1>5. \A d \in Callers : Active(d)' <=> Active(d)
  BY <1>1, <1>4 DEF Active, InQueue
<1>6. QueueShape'
  <2>1. \A i, j \in 1..Len(queue') : queue'[i] = queue'[j] => i = j
    <3>1. \A i \in 1..Len(queue) : queue[i] # c BY <1>1 DEF IInv, QueueShape
    <3>2. \A i \in 1..Len(queue') : i \in 1..Len(queue) \/ i = Len(queue) + 1 BY <1>2
    <3> QED BY <1>2, <3>1, <3>2 DEF IInv, QueueShape
  <2>2. \A d \in Callers : InQueue(d)' <=> \E i \in 1..Len(queue') : queue'[i] = d
    <3> TAKE d \in Callers
    <3>1. CASE d = c
      <4>1. InQueue(d)' BY <1>4, <3>1 DEF InQueue
      <4>2. Len(queue) + 1 \in 1..Len(queue') BY <1>2
      <4> QED BY <1>2, <3>1, <4>1, <4>2
    <3>2. CASE d # c
      <4>1. InQueue(d)' <=> InQueue(d) BY <1>4, <3>2 DEF InQueue
      <4>2. \A i \in 1..Len(queue) : i \in 1..Len(queue') BY <1>2
      <4>3. \A i \in 1..Len(queue') : i \in 1..Len(queue) \/ i = Len(queue) + 1 BY <1>2
      <4> QED BY <1>2, <3>2, <4>1, <4>2, <4>3 DEF IInv, QueueShape
    <3> QED BY <3>1, <3>2
  <2>3. \A d \in Callers : Active(d) => queue' # <<>> /\ d = queue'[1]
    <3> SUFFICES ASSUME NEW d \in Callers, Active(d) PROVE queue' # <<>> /\ d = queue'[1]
      OBVIOUS
    <3>1. queue # <<>> /\ d = queue[1] BY DEF IInv, QueueShape
    <3>2. queue \in Seq(Callers) BY DEF IInv, TypeOK
    <3>3. 1 \in 1..Len(queue) BY <3>1, <3>2, TailFacts
    <3>4. queue' # <<>> BY <1>2
    <3> QED BY <1>2, <3>1, <3>3, <3>4
  <2>4. \A d \in Callers :
          /\ call'[d].phase # "stuck"
          /\ call'[d].phase = "queued" => call'[d].todo = DOMAIN call'[d].writes
    BY <1>4 DEF IInv, QueueShape
  <2> QED BY <1>5, <2>1, <2>2, <2>3, <2>4 DEF QueueShape
<1>7. DiskIsValid' BY <1>1 DEF IInv, DiskIsValid
<1>8. DownIsQuiet' BY <1>1 DEF IInv, DownIsQuiet, Up
<1>9. MemoryShape'
  <2>1. \A d \in Callers : Active(d) => d # c BY <1>1 DEF Active, InQueue
  <2>2. \A d \in Callers : d # c => Written(d)' = Written(d) BY <1>1, <1>4 DEF Written
  <2>3. Up' <=> Up BY <1>1 DEF Up
  <2> QED BY <1>1, <1>4, <1>5, <2>1, <2>2, <2>3 DEF IInv, MemoryShape
<1> QED BY <1>3, <1>6, <1>7, <1>8, <1>9 DEF IInv

\* The head leaves with memory equal to the file again.
LEMMA AnswerIInv ==
  ASSUME IInv, NEW c \in Callers, NEW result \in {"ok", "failed"}, Up,
         InQueue(c), AtHead(c), Answer(c, result),
         mem' \in States, mem' = disk', disk' \in ValidStates, before' \in States,
         life' = life
  PROVE  IInv'
<1>1. /\ QueueShape' /\ queue' \in Seq(Callers)
      /\ call' \in [Callers -> CallRecs]
      /\ \A d \in Callers : ~Active(d)'
  BY AnswerKeepsShape DEF IInv
<1>2. disk' \in States BY StatesAssumption
<1>3. TypeOK' BY <1>1, <1>2 DEF IInv, TypeOK
<1>4. Up' BY DEF Up
<1> QED BY <1>1, <1>3, <1>4 DEF IInv, DiskIsValid, DownIsQuiet, MemoryShape

\* The head moves on: file and life of the store stay.
LEMMA HeadIInv ==
  ASSUME IInv, NEW c \in Callers, Up, InQueue(c), AtHead(c),
         queue' = queue, disk' = disk, life' = life,
         mem' \in States, before' \in States,
         call' \in [Callers -> CallRecs],
         call'[c].phase \in {"running", "persisting", "failing"},
         \A d \in Callers : d # c => call'[d] = call[d],
         before' = disk, mem' = Written(c)',
         call'[c].todo \subseteq DOMAIN call'[c].writes,
         call'[c].phase = "persisting" => call'[c].todo = {},
         call'[c].kind = "targeted" => Apply(disk, call'[c].writes) \in ValidStates
  PROVE  IInv'
<1>1. QueueShape' BY HeadKeepsShape DEF IInv
<1>2. TypeOK' BY DEF IInv, TypeOK
<1>3. Active(c)' BY DEF Active
<1>4. \A d \in Callers : Active(d)' => d = c
  <2>1. c = queue'[1] BY <1>1, <1>3 DEF QueueShape
  <2> QED BY <1>1, <2>1 DEF QueueShape
<1>5. MemoryShape' BY <1>3, <1>4 DEF MemoryShape
<1> QED BY <1>1, <1>2, <1>5 DEF IInv, DiskIsValid, DownIsQuiet, Up

\* The head is at the head.
LEMMA ActiveIsHead ==
  ASSUME IInv, NEW c \in Callers, Active(c)
  PROVE  /\ InQueue(c) /\ AtHead(c) /\ before = disk /\ mem = Written(c)
         /\ call[c] \in CallRecs
         /\ DOMAIN call[c].writes \subseteq Keys
         /\ \A k \in DOMAIN call[c].writes : call[c].writes[k] \in Values
         /\ call[c].todo \subseteq DOMAIN call[c].writes
         /\ call[c].phase = "persisting" => call[c].todo = {}
         /\ call[c].kind = "targeted" => Apply(disk, call[c].writes) \in ValidStates
<1>1. InQueue(c) /\ queue # <<>> /\ c = queue[1] BY OneActive DEF IInv
<1>2. AtHead(c) BY <1>1, TailFacts DEF IInv, TypeOK, AtHead
<1>3. call[c] \in CallRecs BY DEF IInv, TypeOK
<1>4. call[c].writes \in Requests BY <1>3 DEF CallRecs
<1> QED BY <1>1, <1>2, <1>3, <1>4, RequestDomain DEF IInv, MemoryShape

LEMMA StartIInv ==
  ASSUME IInv, NEW c \in Callers, Start(c)
  PROVE  IInv'
<1>1. InQueue(c) /\ AtHead(c) /\ Up /\ call[c].phase = "queued"
  BY DEF Start, InQueue
<1>2. \A d \in Callers : ~Active(d)
  <2>1. c = queue[1] BY <1>1, TailFacts DEF AtHead, IInv, TypeOK
  <2> QED BY <1>1, <2>1 DEF IInv, QueueShape, Active
<1>3. mem = disk BY <1>1, <1>2 DEF IInv, MemoryShape
<1>4. mem' = mem /\ disk' = disk /\ life' = life /\ before' = mem BY DEF Start
<1>5. mem \in States /\ disk \in ValidStates BY DEF IInv, TypeOK, DiskIsValid
<1>6. CASE call[c].kind = "targeted" /\ Apply(mem, call[c].writes) \notin ValidStates
  <2>1. Answer(c, "failed") BY <1>6 DEF Start
  <2> QED BY <1>1, <1>3, <1>4, <1>5, <2>1, AnswerIInv
<1>7. CASE ~(call[c].kind = "targeted" /\ Apply(mem, call[c].writes) \notin ValidStates)
  <2>1. call' = [call EXCEPT ![c].phase = "running"] /\ queue' = queue
    BY <1>7 DEF Start, Enter
  <2>2. call[c] \in CallRecs BY DEF IInv, TypeOK
  <2>3. /\ call' \in [Callers -> CallRecs]
        /\ call'[c] = [call[c] EXCEPT !.phase = "running"]
        /\ \A d \in Callers : d # c => call'[d] = call[d]
    BY <2>1, <2>2 DEF IInv, TypeOK, CallRecs, Phases
  <2>4. call[c].todo = DOMAIN call[c].writes BY <1>1 DEF IInv, QueueShape
  <2>5. mem' = Written(c)'
    BY <1>3, <1>4, <1>5, <2>2, <2>3, <2>4 DEF Written, States, CallRecs
  <2>6. call'[c].kind = "targeted" => Apply(disk, call'[c].writes) \in ValidStates
    BY <1>3, <1>7, <2>2, <2>3 DEF CallRecs
  <2>7. call'[c].phase = "running" BY <2>2, <2>3 DEF CallRecs
  <2>8. call'[c].todo \subseteq DOMAIN call'[c].writes
    BY <2>2, <2>3, <2>4 DEF CallRecs
  <2> QED BY <1>1, <1>3, <1>4, <1>5, <2>1, <2>3, <2>5, <2>6, <2>7, <2>8, HeadIInv
<1> QED BY <1>6, <1>7

LEMMA ExecuteIInv ==
  ASSUME IInv, NEW c \in Callers, Execute(c)
  PROVE  IInv'
<1>1. PICK k \in call[c].todo :
        /\ mem' = [mem EXCEPT ![k] = call[c].writes[k]]
        /\ call' = [call EXCEPT ![c].todo = @ \ {k}]
  BY DEF Execute
<1>2. /\ Up /\ call[c].phase = "running" /\ Active(c)
      /\ disk' = disk /\ queue' = queue /\ before' = before /\ life' = life
  BY DEF Execute, Active
<1>3. call[c] \in CallRecs /\ k \in Keys BY <1>1, <1>2, ActiveIsHead DEF CallRecs
<1>4. /\ call' \in [Callers -> CallRecs]
      /\ call'[c].todo = call[c].todo \ {k} /\ call'[c].writes = call[c].writes
      /\ call'[c].phase = "running" /\ call'[c].kind = call[c].kind
      /\ \A d \in Callers : d # c => call'[d] = call[d]
  BY <1>1, <1>2, <1>3 DEF IInv, TypeOK, CallRecs
<1>5. call[c].todo \subseteq DOMAIN call[c].writes
  BY <1>2 DEF IInv, MemoryShape
<1>6. mem' = Written(c)'
  <2>1. mem = [j \in Keys |-> IF j \in DOMAIN call[c].writes \ call[c].todo
                               THEN call[c].writes[j] ELSE disk[j]]
    BY <1>2, ActiveIsHead DEF Written
  <2>2. Written(c)' = [j \in Keys |->
          IF j \in DOMAIN call[c].writes \ (call[c].todo \ {k})
            THEN call[c].writes[j] ELSE disk[j]]
    BY <1>2, <1>4 DEF Written
  <2>3. mem' = [j \in Keys |-> IF j = k THEN call[c].writes[k] ELSE mem[j]]
    BY <1>1, <2>1
  <2>4. k \in DOMAIN call[c].writes BY <1>1, <1>5
  <2> QED BY <2>1, <2>2, <2>3, <2>4
<1>7. mem' \in States
  BY <1>1, <1>2, <1>3, <1>5, ActiveIsHead DEF IInv, TypeOK, States
<1> QED BY <1>2, <1>4, <1>6, <1>7, ActiveIsHead, HeadIInv DEF IInv, TypeOK

\* A step of the head that changes its phase only.
LEMMA PhaseIInv ==
  ASSUME IInv, NEW c \in Callers, Up, Active(c),
         NEW p \in {"persisting", "failing"}, Enter(c, p),
         p = "persisting" => call[c].todo = {},
         UNCHANGED <<mem, disk, queue, before, life>>
  PROVE  IInv'
<1>1. call[c] \in CallRecs BY ActiveIsHead
<1>2. /\ call' \in [Callers -> CallRecs]
      /\ call'[c].todo = call[c].todo /\ call'[c].writes = call[c].writes
      /\ call'[c].phase = p /\ call'[c].kind = call[c].kind
      /\ \A d \in Callers : d # c => call'[d] = call[d]
  BY <1>1 DEF IInv, TypeOK, CallRecs, Enter, Phases
<1>3. mem' = Written(c)' BY <1>2, ActiveIsHead DEF Written
<1> QED BY <1>2, <1>3, ActiveIsHead, HeadIInv DEF IInv, TypeOK

\* What a commit writes is the file with all writes of the call.
LEMMA CommitIsApply ==
  ASSUME IInv, NEW c \in Callers, Active(c), call[c].phase = "persisting"
  PROVE  /\ ToWrite(c) = Apply(disk, call[c].writes)
         /\ mem = Apply(disk, call[c].writes)
<1>1. disk \in States BY DEF IInv, TypeOK
<1>2. call[c].todo = {} /\ mem = Written(c) /\ before = disk BY ActiveIsHead
<1>3. mem = Apply(disk, call[c].writes) BY <1>1, <1>2 DEF Written, Apply, States
<1>4. calculateSqliteDiff(disk, before, mem) = Apply(disk, call[c].writes)
  BY <1>1, <1>2, <1>3 DEF calculateSqliteDiff, Apply, States
<1> QED BY <1>3, <1>4 DEF ToWrite

LEMMA PersistIInv ==
  ASSUME IInv, NEW c \in Callers, Persist(c)
  PROVE  IInv' /\ disk' = Apply(disk, call[c].writes) /\ disk' \in ValidStates
<1>1. /\ Up /\ call[c].phase = "persisting" /\ Accepted(c) /\ disk' = ToWrite(c)
      /\ Answer(c, "ok") /\ mem' = mem /\ before' = before /\ life' = life
      /\ Active(c)
  BY DEF Persist, Active
<1>2. disk' = Apply(disk, call[c].writes) /\ mem' = disk' BY <1>1, CommitIsApply
<1>3. disk' \in ValidStates BY <1>1, <1>2, ActiveIsHead DEF Accepted
<1>4. IInv' BY <1>1, <1>2, <1>3, ActiveIsHead, AnswerIInv DEF IInv, TypeOK
<1> QED BY <1>2, <1>3, <1>4

LEMMA RollbackIInv ==
  ASSUME IInv, NEW c \in Callers, Rollback(c)
  PROVE  IInv'
<1>1. /\ Up /\ call[c].phase = "failing" /\ mem' = rolledBack(c)
      /\ Answer(c, "failed") /\ disk' = disk /\ before' = before /\ life' = life
      /\ Active(c)
  BY DEF Rollback, Active
<1>2. disk \in States /\ disk \in ValidStates BY DEF IInv, TypeOK, DiskIsValid
<1>3. mem' = disk
  BY <1>1, <1>2, ActiveIsHead DEF rolledBack, Written, States
<1> QED BY <1>1, <1>2, <1>3, ActiveIsHead, AnswerIInv DEF IInv, TypeOK

\* The processes of an idle store.
LEMMA QuietStore ==
  ASSUME IInv, queue = <<>>, NEW c \in Callers
  PROVE  ~InQueue(c) /\ ~Active(c)
<1>1. ~Active(c) BY DEF IInv, QueueShape
<1>2. ~InQueue(c) BY DEF IInv, QueueShape
<1> QED BY <1>1, <1>2

LEMMA CrashIInv ==
  ASSUME IInv, Crash
  PROVE  IInv'
<1>1. /\ queue' = <<>> /\ mem' = mem /\ disk' = disk /\ before' = before /\ life' = "down"
      /\ call' = [c \in Callers |-> [call[c] EXCEPT !.phase = "idle"]]
  BY DEF Crash
<1>2. call' \in [Callers -> CallRecs] /\ \A c \in Callers : call'[c].phase = "idle"
  BY <1>1 DEF IInv, TypeOK, CallRecs, Phases
<1>3. TypeOK' BY <1>1, <1>2 DEF IInv, TypeOK
<1>4. QueueShape'
  <2>1. Len(queue') = 0 BY <1>1
  <2>2. \A c \in Callers : ~InQueue(c)' /\ ~Active(c)' BY <1>2 DEF InQueue, Active
  <2>3. \A c \in Callers : call'[c].phase # "stuck" /\ call'[c].phase # "queued" BY <1>2
  <2>4. 1..Len(queue') = {} BY <2>1
  <2> QED BY <2>2, <2>3, <2>4 DEF QueueShape
<1>5. MemoryShape' BY <1>1, <1>2 DEF MemoryShape, Active, Up
<1> QED BY <1>1, <1>3, <1>4, <1>5 DEF IInv, DiskIsValid, DownIsQuiet

LEMMA RestartIInv ==
  ASSUME IInv, Restart
  PROVE  IInv'
<1>1. /\ queue' = queue /\ mem' = disk /\ disk' = disk /\ before' = before
      /\ call' = call /\ life = "down" /\ life' = "open"
  BY DEF Restart
<1>2. queue = <<>> BY <1>1 DEF IInv, DownIsQuiet, Up
<1>3. \A c \in Callers : ~Active(c) BY <1>2, QuietStore
<1>4. TypeOK' BY <1>1 DEF IInv, TypeOK
<1>5. QueueShape' BY <1>1 DEF IInv, QueueShape, InQueue, Active
<1>6. MemoryShape' BY <1>1, <1>3 DEF MemoryShape, Active
<1> QED BY <1>1, <1>2, <1>4, <1>5, <1>6 DEF IInv, DiskIsValid, DownIsQuiet

\* Opening, closing and calls that are turned away.
LEMMA OutsideIInv ==
  ASSUME IInv, NEW c,
         \/ Close \/ CloseDatabase \/ UNCHANGED vars
         \/ c \in Callers /\ (EnqueueRefused(c) \/ LateWrite(c))
  PROVE  IInv'
<1>1. CASE Close
  <2>1. UNCHANGED <<mem, disk, queue, call, before>> /\ life = "open" /\ life' = "closing"
    BY <1>1 DEF Close
  <2> QED BY <2>1 DEF IInv, TypeOK, DiskIsValid, QueueShape, DownIsQuiet, MemoryShape,
                      InQueue, Active, Written, Up
<1>2. CASE CloseDatabase
  <2>1. UNCHANGED <<mem, disk, queue, call, before>> /\ queue = <<>> /\ life' = "closed"
    BY <1>2 DEF CloseDatabase
  <2> QED BY <2>1 DEF IInv, TypeOK, DiskIsValid, QueueShape, DownIsQuiet, MemoryShape,
                      InQueue, Active, Written, Up
<1>3. CASE c \in Callers /\ EnqueueRefused(c)
  <2>1. /\ UNCHANGED <<mem, disk, queue, before, life>> /\ ~InQueue(c)
        /\ call' = [call EXCEPT ![c].phase = "failed"]
    BY <1>3 DEF EnqueueRefused, Enter
  <2>2. /\ call' \in [Callers -> CallRecs] /\ call'[c].phase = "failed"
        /\ \A d \in Callers : d # c => call'[d] = call[d]
    BY <1>3, <2>1 DEF IInv, TypeOK, CallRecs, Phases
  <2>3. TypeOK' BY <2>1, <2>2 DEF IInv, TypeOK
  <2>4. \A d \in Callers : /\ InQueue(d)' <=> InQueue(d)
                           /\ Active(d)' <=> Active(d)
    BY <1>3, <2>1, <2>2 DEF InQueue, Active
  <2>5. QueueShape' BY <2>1, <2>2, <2>4 DEF IInv, QueueShape
  <2>6. \A d \in Callers : Active(d) => call'[d] = call[d]
    BY <1>3, <2>1, <2>2 DEF Active, InQueue
  <2>7. MemoryShape' BY <2>1, <2>4, <2>6 DEF IInv, MemoryShape, Written, Up
  <2> QED BY <2>1, <2>3, <2>5, <2>7 DEF IInv, DiskIsValid, DownIsQuiet, Up
<1>4. CASE c \in Callers /\ LateWrite(c)
  <2>1. /\ UNCHANGED <<mem, disk, queue, before, life>>
        /\ call' = [call EXCEPT ![c].late = TRUE]
    BY <1>4 DEF LateWrite, inBatch
  <2>2. /\ call' \in [Callers -> CallRecs]
        /\ \A d \in Callers : /\ call'[d].phase = call[d].phase
                              /\ call'[d].kind = call[d].kind
                              /\ call'[d].writes = call[d].writes
                              /\ call'[d].todo = call[d].todo
    BY <1>4, <2>1 DEF IInv, TypeOK, CallRecs
  <2>3. TypeOK' BY <2>1, <2>2 DEF IInv, TypeOK
  <2>4. QueueShape' BY <2>1, <2>2 DEF IInv, QueueShape, InQueue, Active
  <2>5. MemoryShape' BY <2>1, <2>2 DEF IInv, MemoryShape, Written, Active, Up
  <2> QED BY <2>1, <2>3, <2>4, <2>5 DEF IInv, DiskIsValid, DownIsQuiet, Up
<1>5. CASE UNCHANGED vars
  BY <1>5 DEF vars, IInv, TypeOK, DiskIsValid, QueueShape, DownIsQuiet, MemoryShape,
              InQueue, Active, Written, Up
<1> QED BY <1>1, <1>2, <1>3, <1>4, <1>5

LEMMA HeadMovesIInv ==
  ASSUME IInv, NEW c \in Callers,
         OperationThrows(c) \/ OperationReturns(c) \/ PersistFails(c) \/ CloseInBatch(c)
  PROVE  IInv'
<1>1. CASE OperationThrows(c)
  BY <1>1, PhaseIInv DEF OperationThrows, Active
<1>2. CASE OperationReturns(c)
  BY <1>2, PhaseIInv DEF OperationReturns, Active
<1>3. CASE PersistFails(c)
  BY <1>3, PhaseIInv DEF PersistFails, Active
<1>4. CASE CloseInBatch(c)
  <2>1. closeRefused(c) BY <1>4 DEF CloseInBatch, closeRefused, inBatch
  <2>2. Up /\ Active(c) /\ Enter(c, "failing") /\ UNCHANGED <<mem, disk, queue, before, life>>
    BY <1>4, <2>1 DEF CloseInBatch, Up, Active
  <2> QED BY <2>2, PhaseIInv
<1> QED BY <1>1, <1>2, <1>3, <1>4

LEMMA NextIInv == IInv /\ [Next]_vars => IInv'
<1> SUFFICES ASSUME IInv, [Next]_vars PROVE IInv' OBVIOUS
<1>1. CASE Close \/ CloseDatabase \/ UNCHANGED vars BY <1>1, OutsideIInv
<1>2. CASE Crash BY <1>2, CrashIInv
<1>3. CASE Restart BY <1>3, RestartIInv
<1>4. ASSUME NEW c \in Callers,
             \/ Enqueue(c) \/ EnqueueRefused(c) \/ Step(c)
             \/ OperationThrows(c) \/ LateWrite(c) \/ CloseInBatch(c)
      PROVE  IInv'
  <2>1. CASE Enqueue(c) BY <2>1, EnqueueIInv
  <2>2. CASE EnqueueRefused(c) \/ LateWrite(c) BY <2>2, OutsideIInv
  <2>3. CASE Start(c) BY <2>3, StartIInv
  <2>4. CASE Execute(c) BY <2>4, ExecuteIInv
  <2>5. CASE Persist(c) BY <2>5, PersistIInv
  <2>6. CASE Rollback(c) BY <2>6, RollbackIInv
  <2>7. CASE OperationThrows(c) \/ OperationReturns(c) \/ PersistFails(c) \/ CloseInBatch(c)
    BY <2>7, HeadMovesIInv
  <2> QED BY <1>4, <2>1, <2>2, <2>3, <2>4, <2>5, <2>6, <2>7 DEF Step
<1> QED BY <1>1, <1>2, <1>3, <1>4 DEF Next

\* The inductive invariant holds: Init implies it and every step keeps it.
THEOREM IInvHolds == Spec => []IInv
BY InitIInv, NextIInv, PTL DEF Spec

-----------------------------------------------------------------------------
\* Every variable keeps its type: in particular the state a rollback puts back
\* and the one a diff writes are states (sqlite_persistence.ts, mutate).
THEOREM TypeCorrect == Spec => []TypeOK
<1>1. IInv => TypeOK BY DEF IInv
<1> QED BY <1>1, IInvHolds, PTL

\* At any moment, also when the process dies, the file holds a state that
\* initialize accepts (sqlite_store.ts, initialize; persistSqliteDiff).
THEOREM DiskAlwaysValid == Spec => []DiskIsValid
<1>1. IInv => DiskIsValid BY DEF IInv
<1> QED BY <1>1, IInvHolds, PTL

\* Between two calls memory is what a restart would load, whatever failed before
\* (the rollbacks of commitFullMutation, batch and mutateTargeted).
THEOREM MemoryAlwaysDurable == Spec => []MemoryIsDurable
<1>1. IInv => MemoryIsDurable
  <2> SUFFICES ASSUME IInv, Up, queue = <<>> PROVE mem = disk
    BY DEF MemoryIsDurable
  <2>1. \A c \in Callers : ~Active(c) BY QuietStore
  <2> QED BY <2>1 DEF IInv, MemoryShape
<1> QED BY <1>1, IInvHolds, PTL

\* The gates let one call at a time touch memory, and in the order of the calls
\* (sqlite_persistence.ts, enqueue).
THEOREM AlwaysOneAtATime == Spec => []OneAtATime
<1>1. IInv => OneAtATime
  <2> SUFFICES ASSUME IInv, NEW c \in Callers, Active(c) PROVE AtHead(c)
    BY DEF OneAtATime, Active
  <2> QED BY ActiveIsHead
<1> QED BY <1>1, IInvHolds, PTL

-----------------------------------------------------------------------------
\* The refinement: what a caller sees of a call.
asked == [c \in Callers |-> call[c].writes]

answer == [c \in Callers |->
             IF call[c].phase \in {"ok", "failed"} THEN call[c].phase ELSE "none"]

\* The steps of a call on its way leave the abstract store alone.
LEMMA ProgressIsHidden ==
  ASSUME IInv, NEW c \in Callers, InQueue(c), disk' = disk, queue' = queue,
         NEW p \in {"running", "persisting", "failing"},
         \/ Enter(c, p)
         \/ \E K \in SUBSET Keys : call' = [call EXCEPT ![c].todo = K]
         \/ call' = [call EXCEPT ![c].late = TRUE]
  PROVE  UNCHANGED <<disk, queue, asked, answer>>
<1>1. /\ \A d \in Callers : d # c => call'[d] = call[d]
      /\ call'[c].writes = call[c].writes
      /\ call'[c].phase \in {call[c].phase, p}
  <2>1. call[c] \in CallRecs BY DEF IInv, TypeOK
  <2> QED BY <2>1 DEF IInv, TypeOK, CallRecs, Enter
<1>2. /\ call[c].phase \notin {"ok", "failed"}
      /\ call'[c].phase \notin {"ok", "failed"}
  BY <1>1 DEF InQueue
<1>3. asked' = asked BY <1>1 DEF asked
<1>4. answer' = answer BY <1>1, <1>2 DEF answer
<1> QED BY <1>3, <1>4

LEMMA AnswerLeaves ==
  ASSUME IInv, NEW c \in Callers, NEW result \in {"ok", "failed"},
         AtHead(c), Answer(c, result)
  PROVE  Durable!Leave(c, result)
<1>1. queue # <<>> /\ c = Head(queue) /\ queue' = Tail(queue) BY DEF AtHead, Answer
<1>2. /\ \A d \in Callers : d # c => call'[d] = call[d]
      /\ call'[c].writes = call[c].writes /\ call'[c].phase = result
  <2>1. call[c] \in CallRecs BY DEF IInv, TypeOK
  <2> QED BY <2>1 DEF IInv, TypeOK, CallRecs, Answer, Enter
<1>3. asked' = asked BY <1>2 DEF asked
<1>4. answer' = [answer EXCEPT ![c] = result] BY <1>2 DEF answer
<1> QED BY <1>1, <1>3, <1>4 DEF Durable!Leave, asked, answer

LEMMA NotWaiting ==
  ASSUME IInv, NEW c \in Callers, ~InQueue(c)
  PROVE  ~Durable!Waiting(c)
<1>1. DOMAIN queue = 1..Len(queue) BY DEF IInv, TypeOK
<1> QED BY <1>1 DEF Durable!Waiting, IInv, QueueShape

LEMMA EnqueueCalls ==
  ASSUME IInv, NEW c \in Callers, Enqueue(c)
  PROVE  Durable!Call(c)
<1>1. PICK kind \in Kinds, W \in Requests :
        /\ ~InQueue(c)
        /\ call' = [call EXCEPT ![c] = [phase |-> "queued", kind |-> kind,
                      late |-> FALSE, writes |-> W, todo |-> DOMAIN W]]
        /\ queue' = Append(queue, c) /\ disk' = disk
  BY DEF Enqueue
<1>2. /\ \A d \in Callers : d # c => call'[d] = call[d]
      /\ call'[c].writes = W /\ call'[c].phase = "queued"
  BY <1>1 DEF IInv, TypeOK
<1>3. asked' = [asked EXCEPT ![c] = W] BY <1>2 DEF asked
<1>4. answer' = [answer EXCEPT ![c] = "none"] BY <1>2 DEF answer
<1>5. ~Durable!Waiting(c) BY <1>1, NotWaiting
<1> QED BY <1>1, <1>3, <1>4, <1>5 DEF Durable!Call, asked, answer

LEMMA RefusedIsRefuse ==
  ASSUME IInv, NEW c \in Callers, EnqueueRefused(c)
  PROVE  Durable!Refuse(c)
<1>1. /\ ~InQueue(c) /\ disk' = disk /\ queue' = queue
      /\ call' = [call EXCEPT ![c].phase = "failed"]
  BY DEF EnqueueRefused, Enter
<1>2. /\ \A d \in Callers : d # c => call'[d] = call[d]
      /\ call'[c].writes = call[c].writes /\ call'[c].phase = "failed"
  <2>1. call[c] \in CallRecs BY DEF IInv, TypeOK
  <2> QED BY <1>1, <2>1 DEF IInv, TypeOK, CallRecs
<1>3. asked' = asked BY <1>2 DEF asked
<1>4. answer' = [answer EXCEPT ![c] = "failed"] BY <1>2 DEF answer
<1>5. ~Durable!Waiting(c) BY <1>1, NotWaiting
<1> QED BY <1>1, <1>3, <1>4, <1>5 DEF Durable!Refuse, asked, answer

LEMMA CrashIsDie ==
  ASSUME IInv, Crash
  PROVE  Durable!Die
<1>1. /\ queue' = <<>> /\ disk' = disk
      /\ call' = [c \in Callers |-> [call[c] EXCEPT !.phase = "idle"]]
  BY DEF Crash
<1>2. \A c \in Callers : call'[c].writes = call[c].writes /\ call'[c].phase = "idle"
  BY <1>1 DEF IInv, TypeOK, CallRecs
<1>3. asked' = asked BY <1>2 DEF asked
<1>4. answer' = [c \in Callers |-> "none"] BY <1>2 DEF answer
<1> QED BY <1>1, <1>3, <1>4 DEF Durable!Die, asked, answer

LEMMA StepIsDurable ==
  ASSUME IInv, NEW c \in Callers, Step(c)
  PROVE  \/ Durable!Succeed(c) \/ Durable!Fail(c)
         \/ UNCHANGED <<disk, queue, asked, answer>>
<1>1. CASE Start(c)
  <2>1. AtHead(c) /\ InQueue(c) /\ disk' = disk BY <1>1 DEF Start, InQueue
  <2>2. CASE Answer(c, "failed") BY <2>1, <2>2, AnswerLeaves DEF Durable!Fail
  <2>3. CASE Enter(c, "running") /\ queue' = queue BY <2>1, <2>3, ProgressIsHidden
  <2> QED BY <1>1, <2>2, <2>3 DEF Start
<1>2. CASE Execute(c)
  <2>1. /\ InQueue(c) /\ disk' = disk /\ queue' = queue
        /\ \E k \in call[c].todo : call' = [call EXCEPT ![c].todo = call[c].todo \ {k}]
    <3>1. call[c] \in CallRecs BY DEF IInv, TypeOK
    <3> QED BY <1>2, <3>1 DEF Execute, InQueue, IInv, TypeOK
  <2>2. call[c].todo \in SUBSET Keys BY DEF IInv, TypeOK, CallRecs
  <2>3. \E K \in SUBSET Keys : call' = [call EXCEPT ![c].todo = K] BY <2>1, <2>2
  <2> QED BY <2>1, <2>3, ProgressIsHidden
<1>3. CASE OperationReturns(c)
  BY <1>3, ProgressIsHidden DEF OperationReturns, InQueue
<1>4. CASE Persist(c)
  <2>1. Active(c) /\ Answer(c, "ok") BY <1>4 DEF Persist, Active
  <2>2. Durable!Leave(c, "ok") BY <2>1, ActiveIsHead, AnswerLeaves
  <2>3. disk' = Apply(disk, call[c].writes) /\ disk' \in ValidStates
    BY <1>4, PersistIInv
  <2>4. disk' = Durable!Apply(disk, call[c].writes)
    BY <2>3 DEF Apply, Durable!Apply
  <2> QED BY <2>2, <2>3, <2>4 DEF Durable!Succeed
<1>5. CASE PersistFails(c)
  BY <1>5, ProgressIsHidden DEF PersistFails, InQueue
<1>6. CASE Rollback(c)
  <2>1. Active(c) /\ Answer(c, "failed") /\ disk' = disk BY <1>6 DEF Rollback, Active
  <2> QED BY <2>1, ActiveIsHead, AnswerLeaves DEF Durable!Fail
<1> QED BY <1>1, <1>2, <1>3, <1>4, <1>5, <1>6 DEF Step

LEMMA NextIsDurable == IInv /\ [Next]_vars => [Durable!Next]_(Durable!vars)
<1> SUFFICES ASSUME IInv, [Next]_vars PROVE [Durable!Next]_(Durable!vars) OBVIOUS
<1>0. UNCHANGED <<disk, queue, asked, answer>> => UNCHANGED Durable!vars
  BY DEF asked, answer, Durable!vars
<1>1. CASE Close \/ CloseDatabase \/ Restart \/ UNCHANGED vars
  <2>1. disk' = disk /\ queue' = queue /\ call' = call
    BY <1>1 DEF Close, CloseDatabase, Restart, vars
  <2> QED BY <1>0, <2>1 DEF asked, answer
<1>2. CASE Crash BY <1>2, CrashIsDie DEF Durable!Next
<1>3. ASSUME NEW c \in Callers,
             \/ Enqueue(c) \/ EnqueueRefused(c) \/ Step(c)
             \/ OperationThrows(c) \/ LateWrite(c) \/ CloseInBatch(c)
      PROVE  [Durable!Next]_(Durable!vars)
  <2>1. CASE Enqueue(c) BY <2>1, EnqueueCalls DEF Durable!Next
  <2>2. CASE EnqueueRefused(c) BY <2>2, RefusedIsRefuse DEF Durable!Next
  <2>3. CASE Step(c) BY <1>0, <2>3, StepIsDurable DEF Durable!Next
  <2>4. CASE OperationThrows(c)
    BY <1>0, <2>4, ProgressIsHidden DEF OperationThrows, InQueue
  <2>5. CASE LateWrite(c)
    <3>1. /\ UNCHANGED <<disk, queue>>
          /\ call' = [call EXCEPT ![c].late = TRUE]
      BY <2>5 DEF LateWrite
    <3>2. \A d \in Callers : call'[d].writes = call[d].writes /\ call'[d].phase = call[d].phase
      BY <3>1 DEF IInv, TypeOK, CallRecs
    <3> QED BY <1>0, <3>1, <3>2 DEF asked, answer
  <2>6. CASE CloseInBatch(c)
    <3>1. closeRefused(c) BY <2>6 DEF CloseInBatch, closeRefused, inBatch
    <3>2. InQueue(c) /\ Enter(c, "failing") /\ disk' = disk /\ queue' = queue
      BY <2>6, <3>1 DEF CloseInBatch, InQueue
    <3> QED BY <1>0, <3>2, ProgressIsHidden
  <2> QED BY <1>3, <2>1, <2>2, <2>3, <2>4, <2>5, <2>6
<1> QED BY <1>1, <1>2, <1>3 DEF Next

LEMMA InitIsDurable == Init => Durable!Init
<1> SUFFICES ASSUME Init PROVE Durable!Init OBVIOUS
<1>1. disk = InitState /\ queue = <<>> BY DEF Init
<1>2. \A c \in Callers : call[c].phase = "idle" /\ call[c].writes \in Requests BY DEF Init
<1>3. asked \in [Callers -> Requests] BY <1>2 DEF asked
<1>4. answer = [c \in Callers |-> "none"] BY <1>2 DEF answer
<1> QED BY <1>1, <1>3, <1>4 DEF Durable!Init, asked, answer

\* To its callers SqlitePersistence is a store in which every call takes effect
\* as a whole and for good or fails without a trace, in the order of the calls,
\* whatever fails or dies between two awaits of its queue, its memory and the
\* file.
THEOREM StoreIsDurable == Spec => ImplementsDurableStore
<1>1. Init => Durable!Init BY InitIsDurable
<1>2. IInv /\ [Next]_vars => [Durable!Next]_(Durable!vars) BY NextIsDurable
<1> QED BY <1>1, <1>2, IInvHolds, PTL DEF Spec, ImplementsDurableStore, Durable!Spec
=============================================================================
