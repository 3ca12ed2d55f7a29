---------------------------- MODULE WindowProofs ----------------------------
(***************************************************************************)
(* What the window promises, for any branches, placements and number of    *)
(* edits: a flush that succeeds has saved what was typed before it, and    *)
(* drafts are written in order; one store is open at a time, and what is   *)
(* shown never goes back.  Each half has its inductive invariant.          *)
(***************************************************************************)
EXTENDS MCWindow, TLAPS

-----------------------------------------------------------------------------
(***************************************************************************)
(* Drafts (WorkingCopyAutosave).  There is one call per branch at most, and*)
(* it is the one its worker waits for; a worker that settled without an    *)
(* error left nothing unsaved, because nobody types before it is forgotten.*)
(***************************************************************************)
Placed == Occs \cup {NoChange.occ}

Entries == [version : Nat, savedVersion : Nat, timer : BOOLEAN,
            status : {"saved", "unsaved", "saving", "failed"}, occ : Placed]

Workers == [at : {"none", "sent", "written", "rejected", "ok", "err"}, version : Nat]

DraftTypes ==
  /\ entry \in [Branches -> Entries]
  /\ worker \in [Branches -> Workers]
  /\ calls \subseteq [of : Branches, occ : Placed, version : Nat]
  /\ flush \in [at : {"none", "flushing", "beforeChange", "changing", "reloading",
                      "ok", "failed"},
                joined : SUBSET Branches, failed : BOOLEAN,
                change : [occ : Placed, to : Selectors],
                upTo : [Branches -> Nat]]
  /\ shown \in [Occs -> Selectors] /\ selector \in [Occs -> Selectors]
  /\ stored \in [Branches -> [of : Branches, version : Nat]]

\* What is saved, what is being written and what was typed, in this order.
EntryInv(b) ==
  /\ entry[b].savedVersion <= entry[b].version
  /\ worker[b].version <= entry[b].version
  /\ worker[b].at \in {"sent", "written"} => entry[b].savedVersion <= worker[b].version
  /\ worker[b].at = "ok" => entry[b].savedVersion = entry[b].version
  /\ flush.upTo[b] <= entry[b].version

\* The worker of each call waits for it.
CallInv ==
  /\ \A c \in calls : worker[c.of].at = "sent" /\ worker[c.of].version = c.version
  /\ \A c, d \in calls : c.of = d.of => c = d

\* Nothing is stored that its worker has not reached.
StoreInv == \A x \in Branches : stored[x].version <= worker[stored[x].of].version

\* A flush under way still waits for a branch, or has saved it.
FlushInv ==
  flush.at \in {"flushing", "beforeChange"} /\ ~flush.failed =>
    \A b \in Branches : b \in flush.joined \/ entry[b].savedVersion >= flush.upTo[b]

DraftInv ==
  /\ DraftTypes
  /\ \A b \in Branches : EntryInv(b)
  /\ CallInv /\ StoreInv /\ FlushInv /\ FlushSavesWhatWasTyped

LEMMA InitDraftInv == Init => DraftInv
<1> SUFFICES ASSUME Init PROVE DraftInv OBVIOUS
<1>1. NoChange \in [occ : Placed, to : Selectors]
  BY DEF NoChange, Placed, Selectors
<1>2. NoChange.occ = CHOOSE o \in Occs : TRUE BY DEF NoChange
<1>3. entry \in [Branches -> Entries] BY <1>2 DEF Init, Entries, Placed
<1>4. DraftTypes
  BY <1>1, <1>3, ShownAssumption DEF Init, DraftTypes, Workers, Selectors
<1>5. \A b \in Branches : /\ entry[b].version = 0 /\ entry[b].savedVersion = 0
                          /\ worker[b].at = "none" /\ worker[b].version = 0
                          /\ flush.upTo[b] = 0 /\ stored[b].of = b /\ stored[b].version = 0
  BY DEF Init
<1>6. calls = {} /\ flush.at = "none" BY DEF Init
<1>7. 0 <= 0 OBVIOUS
<1>8. \A b \in Branches : EntryInv(b) BY <1>5, <1>7 DEF EntryInv
<1>9. StoreInv BY <1>5, <1>7 DEF StoreInv
<1> QED BY <1>4, <1>6, <1>8, <1>9 DEF DraftInv, CallInv, FlushInv, FlushSavesWhatWasTyped

\* What the fields of a draft and of a worker become.
LEMMA EntryRecords ==
  ASSUME NEW e \in Entries
  PROVE  /\ Sending(e) \in Entries
         /\ Sending(e).version = e.version /\ Sending(e).savedVersion = e.savedVersion
         /\ [e EXCEPT !.timer = FALSE] \in Entries
         /\ [e EXCEPT !.timer = FALSE].version = e.version
         /\ [e EXCEPT !.timer = FALSE].savedVersion = e.savedVersion
         /\ [e EXCEPT !.status = "failed"] \in Entries
         /\ [e EXCEPT !.status = "failed"].version = e.version
         /\ [e EXCEPT !.status = "failed"].savedVersion = e.savedVersion
BY DEF Entries, Sending

LEMMA WorkerRecords ==
  ASSUME NEW w \in Workers, NEW a \in {"none", "written", "rejected", "ok", "err"},
         NEW x, x = [w EXCEPT !.at = a]
  PROVE  x \in Workers /\ x.at = a /\ x.version = w.version
BY DEF Workers

LEMMA QueueKeeps ==
  ASSUME DraftInv, NEW o \in Occs, Queue(o)
  PROVE  DraftInv'
<1> DEFINE b == shown[o]
           v == entry[b].version + 1
           e == [entry[b] EXCEPT !.version = v, !.occ = o, !.timer = TRUE, !.status = "unsaved"]
<1>1. /\ b \in Branches /\ entry[b] \in Entries /\ o \in Placed
      /\ v \in Nat
  BY DEF DraftInv, DraftTypes, Queue, Selectors, Placed, Entries
<1>2. e \in Entries /\ e.version = v /\ e.savedVersion = entry[b].savedVersion
  BY <1>1 DEF Entries
<1>3. entry' = [entry EXCEPT ![b] = e] BY DEF Queue
<1>4. UNCHANGED <<worker, calls, flush, shown, selector, stored>> /\ Quiet BY DEF Queue
<1> HIDE DEF e, v
<1>5. entry' \in [Branches -> Entries] BY <1>1, <1>2, <1>3 DEF DraftInv, DraftTypes
<1>6. DraftTypes' BY <1>4, <1>5 DEF DraftInv, DraftTypes
<1>7. \A x \in Branches : /\ entry'[x].savedVersion = entry[x].savedVersion
                          /\ entry'[x].version = IF x = b THEN v ELSE entry[x].version
  BY <1>1, <1>2, <1>3 DEF DraftInv, DraftTypes
<1>8. ASSUME NEW x \in Branches PROVE EntryInv(x)'
  <2>1. /\ entry[x].version \in Nat /\ entry[x].savedVersion \in Nat
        /\ worker[x].version \in Nat /\ flush.upTo[x] \in Nat
    BY DEF DraftInv, DraftTypes, Entries, Workers
  <2>2. EntryInv(x) BY DEF DraftInv
  <2>3. worker[x].at # "ok" BY <1>4 DEF Quiet, Settled
  <2> QED BY <1>4, <1>7, <2>1, <2>2, <2>3 DEF EntryInv, v
<1>9. CallInv' /\ StoreInv' BY <1>4 DEF DraftInv, CallInv, StoreInv
<1>10. FlushInv' /\ FlushSavesWhatWasTyped'
  BY <1>4, <1>7 DEF DraftInv, FlushInv, FlushSavesWhatWasTyped
<1> QED BY <1>6, <1>8, <1>9, <1>10 DEF DraftInv

\* Answers, refusals and what else changes neither version of a draft.
LEMMA SteadyDrafts ==
  ASSUME DraftInv, DraftTypes', NEW b \in Branches,
         \A x \in Branches : /\ entry'[x].version = entry[x].version
                             /\ entry'[x].savedVersion = entry[x].savedVersion
                             /\ worker'[x].version = worker[x].version,
         flush'.upTo = flush.upTo,
         \A x \in Branches \ {b} : worker'[x].at = worker[x].at,
         worker'[b].at # "ok" \/ worker[b].at = "ok",
         worker'[b].at \in {"sent", "written"} => worker[b].at \in {"sent", "written"}
  PROVE  \A x \in Branches : EntryInv(x)'
<1> SUFFICES ASSUME NEW x \in Branches PROVE EntryInv(x)' OBVIOUS
<1>1. EntryInv(x) BY DEF DraftInv
<1> QED BY <1>1 DEF EntryInv

\* The promises to those who flush, when what is saved only grows.
LEMMA SteadyFlush ==
  ASSUME DraftInv, DraftTypes', UNCHANGED flush,
         \A x \in Branches : entry'[x].savedVersion >= entry[x].savedVersion
  PROVE  FlushInv' /\ FlushSavesWhatWasTyped'
<1>1. \A x \in Branches : /\ entry[x].savedVersion \in Nat /\ entry'[x].savedVersion \in Nat
                          /\ flush.upTo[x] \in Nat
  BY DEF DraftInv, DraftTypes, Entries
<1>2. \A x \in Branches :
        entry[x].savedVersion >= flush.upTo[x] => entry'[x].savedVersion >= flush.upTo[x]
  BY <1>1
<1> QED BY <1>2 DEF DraftInv, FlushInv, FlushSavesWhatWasTyped

\* A flush of the entries of B: every worker that was idle writes or settles.
LEMMA FlushEntriesKeeps ==
  ASSUME DraftInv, NEW B \in SUBSET Branches, FlushEntries(B),
         UNCHANGED <<shown, selector, stored>>
  PROVE  /\ entry' \in [Branches -> Entries] /\ worker' \in [Branches -> Workers]
         /\ calls' \subseteq [of : Branches, occ : Placed, version : Nat]
         /\ \A b \in Branches :
              /\ entry'[b].version = entry[b].version
              /\ entry'[b].savedVersion = entry[b].savedVersion
              /\ worker'[b].version <= entry[b].version
              /\ worker'[b].at \in {"sent", "written"} =>
                   entry[b].savedVersion <= worker'[b].version
              /\ worker'[b].at = "ok" => entry[b].savedVersion = entry[b].version
         /\ CallInv' /\ StoreInv'
<1> DEFINE started == {b \in B : startWorker(b)}
<1>0. /\ \A b \in Branches : /\ entry[b] \in Entries /\ worker[b] \in Workers
                              /\ entry[b].version \in Nat /\ entry[b].savedVersion \in Nat
                              /\ worker[b].version \in Nat /\ entry[b].occ \in Placed
      /\ \A b \in Branches : EntryInv(b)
  BY DEF DraftInv, DraftTypes, Entries, Workers
<1>1. \A b \in Branches : entry'[b] =
        IF b \in started THEN Sending(entry[b])
        ELSE IF b \in B THEN [entry[b] EXCEPT !.timer = FALSE] ELSE entry[b]
  BY DEF FlushEntries
<1>2. entry' = [b \in Branches |-> entry'[b]] BY DEF FlushEntries
<1>3. \A b \in Branches : worker'[b] =
        IF b \notin started THEN worker[b]
        ELSE IF Unsaved(b) THEN [at |-> "sent", version |-> entry[b].version]
        ELSE [worker[b] EXCEPT !.at = "ok"]
  BY DEF FlushEntries
<1>4. worker' = [b \in Branches |-> worker'[b]] BY DEF FlushEntries
<1>5. calls' = calls \cup {CallOf(b, entry[b]) : b \in {x \in started : Unsaved(x)}}
  BY DEF FlushEntries
<1>6. started \subseteq Branches /\ \A b \in started : worker[b].at = "none"
  BY DEF startWorker
<1> HIDE DEF started
<1>7. \A b \in Branches : /\ entry'[b] \in Entries
                          /\ entry'[b].version = entry[b].version
                          /\ entry'[b].savedVersion = entry[b].savedVersion
  BY <1>0, <1>1, EntryRecords
<1>8. ASSUME NEW b \in Branches
      PROVE  /\ worker'[b] \in Workers
             /\ \/ worker'[b] = worker[b] /\ b \notin started
                \/ /\ b \in started /\ entry[b].savedVersion < entry[b].version
                   /\ worker'[b].at = "sent" /\ worker'[b].version = entry[b].version
                \/ /\ b \in started /\ ~(entry[b].savedVersion < entry[b].version)
                   /\ worker'[b].at = "ok" /\ worker'[b].version = worker[b].version
  <2>1. CASE b \notin started BY <1>0, <1>3, <2>1
  <2>2. CASE b \in started /\ Unsaved(b)
    <3>1. worker'[b] = [at |-> "sent", version |-> entry[b].version] BY <1>3, <2>2
    <3> QED BY <1>0, <2>2, <3>1 DEF Workers, Unsaved
  <2>3. CASE b \in started /\ ~Unsaved(b)
    <3>1. worker'[b] = [worker[b] EXCEPT !.at = "ok"] BY <1>3, <2>3
    <3> QED BY <1>0, <2>3, <3>1, WorkerRecords DEF Unsaved
  <2> QED BY <2>1, <2>2, <2>3
<1>9. \A b \in Branches :
        \/ worker'[b] = worker[b] /\ b \notin started
        \/ /\ b \in started /\ entry[b].savedVersion < entry[b].version
           /\ worker'[b].at = "sent" /\ worker'[b].version = entry[b].version
        \/ /\ b \in started /\ ~(entry[b].savedVersion < entry[b].version)
           /\ worker'[b].at = "ok" /\ worker'[b].version = worker[b].version
  BY <1>8
<1>10. \A b \in Branches :
         /\ worker'[b].version <= entry[b].version
         /\ worker'[b].version >= worker[b].version
         /\ worker'[b].at \in {"sent", "written"} =>
              entry[b].savedVersion <= worker'[b].version
         /\ worker'[b].at = "ok" => entry[b].savedVersion = entry[b].version
  <2> SUFFICES ASSUME NEW b \in Branches
               PROVE  /\ worker'[b].version <= entry[b].version
                      /\ worker'[b].version >= worker[b].version
                      /\ worker'[b].at \in {"sent", "written"} =>
                           entry[b].savedVersion <= worker'[b].version
                      /\ worker'[b].at = "ok" => entry[b].savedVersion = entry[b].version
    OBVIOUS
  <2>1. EntryInv(b) BY <1>0
  <2> QED BY <1>0, <1>9, <2>1 DEF EntryInv
<1>11. \A b \in Branches : /\ CallOf(b, entry[b]) \in [of : Branches, occ : Placed, version : Nat]
                           /\ CallOf(b, entry[b]).of = b
                           /\ CallOf(b, entry[b]).version = entry[b].version
  BY <1>0 DEF CallOf
<1>12. \A c \in calls' : \/ c \in calls /\ c.of \notin started
                         \/ /\ c.of \in started /\ c = CallOf(c.of, entry[c.of])
                            /\ entry[c.of].savedVersion < entry[c.of].version
  BY <1>5, <1>6, <1>11 DEF DraftInv, CallInv, Unsaved
<1>13. calls' \subseteq [of : Branches, occ : Placed, version : Nat]
  BY <1>5, <1>6, <1>11 DEF DraftInv, DraftTypes
<1>14. CallInv'
  <2>1. ASSUME NEW c \in calls'
        PROVE  worker'[c.of].at = "sent" /\ worker'[c.of].version = c.version
    BY <1>6, <1>9, <1>11, <1>12, <1>13 DEF DraftInv, CallInv
  <2>2. ASSUME NEW c \in calls', NEW d \in calls', c.of = d.of PROVE c = d
    BY <1>12, <2>2 DEF DraftInv, CallInv
  <2> QED BY <2>1, <2>2 DEF CallInv
<1>15. StoreInv'
  <2> SUFFICES ASSUME NEW x \in Branches
               PROVE  stored[x].version <= worker'[stored[x].of].version
    BY DEF StoreInv
  <2>1. stored[x].of \in Branches /\ stored[x].version \in Nat BY DEF DraftInv, DraftTypes
  <2>2. stored[x].version <= worker[stored[x].of].version BY DEF DraftInv, StoreInv
  <2>3. worker'[stored[x].of].version \in Nat BY <1>8, <2>1 DEF Workers
  <2> QED BY <1>0, <1>10, <2>1, <2>2, <2>3
<1> QED BY <1>2, <1>4, <1>7, <1>8, <1>10, <1>13, <1>14, <1>15

LEMMA TimerFiresKeeps ==
  ASSUME DraftInv, NEW b \in Branches, TimerFires(b)
  PROVE  DraftInv'
<1>1. FlushEntries({b}) /\ UNCHANGED <<flush, shown, selector, stored>> BY DEF TimerFires
<1>2. PICK B \in SUBSET Branches : B = {b} OBVIOUS
<1>3. /\ entry' \in [Branches -> Entries] /\ worker' \in [Branches -> Workers]
      /\ calls' \subseteq [of : Branches, occ : Placed, version : Nat]
      /\ \A x \in Branches :
           /\ entry'[x].version = entry[x].version
           /\ entry'[x].savedVersion = entry[x].savedVersion
           /\ worker'[x].version <= entry[x].version
           /\ worker'[x].at \in {"sent", "written"} =>
                entry[x].savedVersion <= worker'[x].version
           /\ worker'[x].at = "ok" => entry[x].savedVersion = entry[x].version
      /\ CallInv' /\ StoreInv'
  BY <1>1, <1>2, FlushEntriesKeeps
<1>4. DraftTypes' BY <1>1, <1>3 DEF DraftInv, DraftTypes
<1>5. \A x \in Branches : EntryInv(x)' BY <1>1, <1>3 DEF DraftInv, EntryInv
<1>6. FlushInv' /\ FlushSavesWhatWasTyped'
  <2>1. \A x \in Branches : entry'[x].savedVersion >= entry[x].savedVersion
    BY <1>3 DEF DraftInv, DraftTypes, Entries
  <2> QED BY <1>1, <1>4, <2>1, SteadyFlush
<1> QED BY <1>3, <1>4, <1>5, <1>6 DEF DraftInv

LEMMA FlushKeeps ==
  ASSUME DraftInv, NEW change \in [occ : Placed, to : Selectors], Flush(change)
  PROVE  DraftInv'
<1>1. FlushEntries(Queued) /\ UNCHANGED <<shown, selector, stored>> BY DEF Flush
<1>2. PICK B \in SUBSET Branches : B = Queued BY DEF Queued
<1>3. /\ entry' \in [Branches -> Entries] /\ worker' \in [Branches -> Workers]
      /\ calls' \subseteq [of : Branches, occ : Placed, version : Nat]
      /\ \A x \in Branches :
           /\ entry'[x].version = entry[x].version
           /\ entry'[x].savedVersion = entry[x].savedVersion
           /\ worker'[x].version <= entry[x].version
           /\ worker'[x].at \in {"sent", "written"} =>
                entry[x].savedVersion <= worker'[x].version
           /\ worker'[x].at = "ok" => entry[x].savedVersion = entry[x].version
      /\ CallInv' /\ StoreInv'
  BY <1>1, <1>2, FlushEntriesKeeps
<1>4. /\ flush'.at \in {"flushing", "beforeChange"} /\ flush'.joined = Queued
      /\ flush'.failed = FALSE /\ flush'.change = change
      /\ flush'.upTo = [b \in Branches |-> entry[b].version]
  BY DEF Flush
<1>5. \A b \in Branches : entry[b].version \in Nat /\ entry[b].savedVersion \in Nat
  BY DEF DraftInv, DraftTypes, Entries
<1>6. flush' \in [at : {"none", "flushing", "beforeChange", "changing", "reloading",
                        "ok", "failed"},
                  joined : SUBSET Branches, failed : BOOLEAN,
                  change : [occ : Placed, to : Selectors],
                  upTo : [Branches -> Nat]]
  <2>1. [b \in Branches |-> entry[b].version] \in [Branches -> Nat] BY <1>5
  <2>2. Queued \in SUBSET Branches BY DEF Queued
  <2> QED BY <2>1, <2>2 DEF Flush
<1>7. DraftTypes' BY <1>1, <1>3, <1>6 DEF DraftInv, DraftTypes
<1>8. \A x \in Branches : EntryInv(x)' BY <1>3, <1>4, <1>5 DEF DraftInv, EntryInv
<1>9. FlushInv'
  <2>1. ASSUME NEW b \in Branches, b \notin Queued
        PROVE  entry'[b].savedVersion >= flush'.upTo[b]
    BY <1>3, <1>4, <1>5, <2>1 DEF Queued
  <2> QED BY <1>4, <2>1 DEF FlushInv
<1>10. FlushSavesWhatWasTyped' BY <1>4 DEF FlushSavesWhatWasTyped
<1> QED BY <1>3, <1>7, <1>8, <1>9, <1>10 DEF DraftInv

\* The user's flushes, with or without a change to make afterwards.
LEMMA ChangeTypes ==
  /\ NoChange \in [occ : Placed, to : Selectors]
  /\ \A o \in Occs : \A s \in {Pinned, Main} : [occ |-> o, to |-> s] \in [occ : Placed, to : Selectors]
BY SelectorAssumption DEF NoChange, Placed, Selectors

\* An answer goes to the worker that waits for it.
LEMMA ReplyKeeps ==
  ASSUME DraftInv, NEW c \in calls, NEW at \in {"written", "rejected"}, Reply(c, at),
         UNCHANGED <<entry, flush, shown, selector>>,
         NEW s,
         \/ UNCHANGED stored
         \/ stored' = [stored EXCEPT ![s] = [of |-> c.of, version |-> c.version]]
  PROVE  /\ DraftInv'
         /\ c.of \in Branches /\ c.version = worker[c.of].version
<1>1. /\ c.of \in Branches /\ c.occ \in Placed /\ c.version \in Nat
      /\ worker[c.of].at = "sent" /\ worker[c.of].version = c.version
      /\ worker[c.of] \in Workers
  BY DEF DraftInv, DraftTypes, CallInv
<1>2. worker[c.of] = [at |-> "sent", version |-> c.version] BY <1>1 DEF Workers
<1>3. /\ calls' = calls \ {c}
      /\ worker' = [worker EXCEPT ![c.of].at = at]
  BY <1>2 DEF Reply
<1>4. PICK w : w = [worker[c.of] EXCEPT !.at = at] OBVIOUS
<1>5. w \in Workers /\ w.at = at /\ w.version = worker[c.of].version
  BY <1>1, <1>4, WorkerRecords
<1>6. worker' = [worker EXCEPT ![c.of] = w] BY <1>3, <1>4
<1>7. /\ worker' \in [Branches -> Workers]
      /\ worker'[c.of] = w /\ \A x \in Branches \ {c.of} : worker'[x] = worker[x]
  BY <1>1, <1>5, <1>6 DEF DraftInv, DraftTypes
<1>8. \A x \in Branches : stored'[x] = stored[x] \/ stored'[x] = [of |-> c.of, version |-> c.version]
  BY DEF DraftInv, DraftTypes
<1>9. stored' \in [Branches -> [of : Branches, version : Nat]]
  <2>1. [of |-> c.of, version |-> c.version] \in [of : Branches, version : Nat] BY <1>1
  <2> QED BY <2>1 DEF DraftInv, DraftTypes
<1>10. DraftTypes' BY <1>3, <1>7, <1>9 DEF DraftInv, DraftTypes
<1>11. \A x \in Branches : EntryInv(x)'
  BY <1>1, <1>5, <1>7, <1>10, SteadyDrafts
<1>12. CallInv'
  <2>1. \A d \in calls' : d \in calls /\ d.of \in Branches /\ d.of # c.of
    BY <1>3 DEF DraftInv, CallInv, DraftTypes
  <2> QED BY <1>7, <2>1 DEF DraftInv, CallInv
<1>13. StoreInv'
  <2> SUFFICES ASSUME NEW x \in Branches
               PROVE  stored'[x].version <= worker'[stored'[x].of].version
    BY DEF StoreInv
  <2>1. \A y \in Branches : worker'[y].version = worker[y].version BY <1>5, <1>7
  <2>2. CASE stored'[x] = stored[x]
    <3>1. stored[x].of \in Branches /\ stored[x].version <= worker[stored[x].of].version
      BY DEF DraftInv, DraftTypes, StoreInv
    <3> QED BY <2>1, <2>2, <3>1
  <2>3. CASE stored'[x] = [of |-> c.of, version |-> c.version]
    <3>1. stored'[x].of = c.of /\ stored'[x].version = c.version BY <2>3
    <3> QED BY <1>1, <2>1, <3>1
  <2> QED BY <1>8, <2>2, <2>3
<1>14. FlushInv' /\ FlushSavesWhatWasTyped'
  <2>1. \A x \in Branches : entry'[x].savedVersion >= entry[x].savedVersion
    BY DEF DraftInv, DraftTypes, Entries
  <2> QED BY <1>10, <2>1, SteadyFlush
<1> QED BY <1>1, <1>10, <1>11, <1>12, <1>13, <1>14 DEF DraftInv

LEMMA ServerKeeps ==
  ASSUME DraftInv, NEW b \in Branches, ServerWrites(b) \/ ServerFails(b)
  PROVE  DraftInv' /\ WritesGoForward
<1>1. CASE ServerFails(b)
  <2>1. PICK c \in calls, at \in {"written", "rejected"} : Reply(c, at)
    BY <1>1 DEF ServerFails
  <2>2. UNCHANGED <<entry, flush, shown, selector, stored>> BY <1>1 DEF ServerFails
  <2>3. DraftInv' BY <2>1, <2>2, ReplyKeeps
  <2> QED BY <2>2, <2>3 DEF WritesGoForward, DraftInv, DraftTypes
<1>2. CASE ServerWrites(b)
  <2>0. PICK c \in calls :
          /\ c.of = b
          /\ IF selector[c.occ] = Pinned
               THEN Reply(c, "rejected") /\ UNCHANGED stored
               ELSE /\ Reply(c, "written")
                    /\ stored' = [stored EXCEPT ![selector[c.occ]] =
                                   [of |-> b, version |-> c.version]]
    BY ONLY <1>2 DEF ServerWrites
  <2>1. PICK at \in {"written", "rejected"}, s \in {selector[c.occ]} :
          /\ Reply(c, at)
          /\ \/ UNCHANGED stored
             \/ stored' = [stored EXCEPT ![s] = [of |-> c.of, version |-> c.version]]
    BY ONLY <2>0
  <2>2. UNCHANGED <<entry, flush, shown, selector>> BY <1>2 DEF ServerWrites
  <2>3. DraftInv' /\ c.version = worker[b].version BY <2>0, <2>1, <2>2, ReplyKeeps
  <2>4. ASSUME NEW x \in Branches, stored[x].of = x, stored'[x].of = x
        PROVE  stored'[x].version >= stored[x].version
    <3>1. /\ stored[x].version \in Nat /\ worker[x].version \in Nat
          /\ stored[x].version <= worker[x].version
      BY <2>4 DEF DraftInv, DraftTypes, StoreInv, Workers
    <3>2. \/ stored'[x] = stored[x]
          \/ stored'[x] = [of |-> b, version |-> c.version]
      BY <2>0, <2>1 DEF DraftInv, DraftTypes
    <3>3. CASE stored'[x] = stored[x] BY <3>1, <3>3
    <3>4. CASE stored'[x] = [of |-> b, version |-> c.version]
      <4>1. stored'[x].of = b /\ stored'[x].version = c.version BY <3>4
      <4> QED BY <2>3, <2>4, <3>1, <4>1
    <3> QED BY <3>2, <3>3, <3>4
  <2> QED BY <2>3, <2>4 DEF WritesGoForward
<1> QED BY <1>1, <1>2

LEMMA SaveAnsweredKeeps ==
  ASSUME DraftInv, NEW b \in Branches, SaveAnswered(b)
  PROVE  DraftInv'
<1> DEFINE e == [entry[b] EXCEPT !.savedVersion = worker[b].version]
           w == Send(e, worker[b])
           f == [e EXCEPT !.status = IF w.at = "ok" THEN "saved" ELSE "saving"]
<1>1. /\ entry[b] \in Entries /\ worker[b] \in Workers /\ EntryInv(b)
      /\ entry[b].version \in Nat /\ worker[b].version \in Nat /\ entry[b].savedVersion \in Nat
      /\ worker[b].at = "written"
      /\ entry[b].occ \in Placed
  BY DEF DraftInv, DraftTypes, SaveAnswered, Entries, Workers
<1>2. /\ e \in Entries /\ e.version = entry[b].version /\ e.savedVersion = worker[b].version
      /\ e.occ = entry[b].occ
  BY <1>1 DEF Entries
<1>3. /\ worker' = [worker EXCEPT ![b] = w]
      /\ entry' = [entry EXCEPT ![b] = f]
      /\ calls' = IF w.at = "sent" THEN calls \cup {CallOf(b, e)} ELSE calls
      /\ UNCHANGED <<flush, shown, selector, stored>>
  BY DEF SaveAnswered, savingVersion
<1> HIDE DEF e
<1>4. /\ w \in Workers
      /\ \/ /\ w.at = "sent" /\ w.version = entry[b].version
            /\ worker[b].version < entry[b].version
         \/ /\ w.at = "ok" /\ w.version = worker[b].version
            /\ worker[b].version = entry[b].version
  <2>1. CASE more(e, worker[b])
    <3>1. w = [at |-> "sent", version |-> e.version] BY <2>1 DEF Send
    <3> QED BY <1>1, <1>2, <2>1, <3>1 DEF more, Workers
  <2>2. CASE ~more(e, worker[b])
    <3>1. w = [worker[b] EXCEPT !.at = "ok"] BY <2>2 DEF Send
    <3>2. w \in Workers /\ w.at = "ok" /\ w.version = worker[b].version
      BY <1>1, <3>1, WorkerRecords
    <3> QED BY <1>1, <1>2, <2>2, <3>2 DEF more, EntryInv
  <2> QED BY <2>1, <2>2
<1> HIDE DEF w
<1>5. f \in Entries /\ f.version = entry[b].version /\ f.savedVersion = worker[b].version
  BY <1>2 DEF Entries
<1> HIDE DEF f
<1>6. /\ entry' \in [Branches -> Entries] /\ entry'[b] = f
      /\ \A x \in Branches \ {b} : entry'[x] = entry[x]
      /\ worker' \in [Branches -> Workers] /\ worker'[b] = w
      /\ \A x \in Branches \ {b} : worker'[x] = worker[x]
  BY <1>3, <1>4, <1>5 DEF DraftInv, DraftTypes
<1>7. /\ CallOf(b, e) \in [of : Branches, occ : Placed, version : Nat]
      /\ CallOf(b, e).of = b /\ CallOf(b, e).version = entry[b].version
  BY <1>1, <1>2 DEF CallOf
<1>8. DraftTypes' BY <1>3, <1>6, <1>7 DEF DraftInv, DraftTypes
<1>9. \A x \in Branches : EntryInv(x)'
  <2>1. EntryInv(b)' BY <1>1, <1>3, <1>4, <1>5, <1>6 DEF EntryInv
  <2>2. ASSUME NEW x \in Branches \ {b} PROVE EntryInv(x)'
    BY <1>3, <1>6 DEF DraftInv, EntryInv
  <2> QED BY <2>1, <2>2
<1>10. CallInv'
  <2>1. \A c \in calls : c.of \in Branches /\ c.of # b
    BY <1>1 DEF DraftInv, CallInv, DraftTypes
  <2>2. \A c \in calls' : c \in calls \/ (w.at = "sent" /\ c = CallOf(b, e)) BY <1>3
  <2>3. ASSUME NEW c \in calls'
        PROVE  worker'[c.of].at = "sent" /\ worker'[c.of].version = c.version
    BY <1>4, <1>6, <1>7, <2>1, <2>2 DEF DraftInv, CallInv
  <2>4. ASSUME NEW c \in calls', NEW d \in calls', c.of = d.of PROVE c = d
    BY <1>7, <2>1, <2>2, <2>4 DEF DraftInv, CallInv
  <2> QED BY <2>3, <2>4 DEF CallInv
<1>11. StoreInv'
  <2> SUFFICES ASSUME NEW x \in Branches
               PROVE  stored[x].version <= worker'[stored[x].of].version
    BY <1>3 DEF StoreInv
  <2>1. /\ stored[x].of \in Branches /\ stored[x].version \in Nat
        /\ stored[x].version <= worker[stored[x].of].version
    BY DEF DraftInv, DraftTypes, StoreInv
  <2>2. CASE stored[x].of = b BY <1>1, <1>4, <1>6, <2>1, <2>2
  <2>3. CASE stored[x].of # b BY <1>6, <2>1, <2>3
  <2> QED BY <2>2, <2>3
<1>12. FlushInv' /\ FlushSavesWhatWasTyped'
  <2>1. ASSUME NEW x \in Branches PROVE entry'[x].savedVersion >= entry[x].savedVersion
    <3>1. entry[x].savedVersion \in Nat BY DEF DraftInv, DraftTypes, Entries
    <3> QED BY <1>1, <1>5, <1>6, <3>1 DEF EntryInv
  <2> QED BY <1>3, <1>8, <2>1, SteadyFlush
<1> QED BY <1>8, <1>9, <1>10, <1>11, <1>12 DEF DraftInv

LEMMA SaveRefusedKeeps ==
  ASSUME DraftInv, NEW b \in Branches, SaveRefused(b)
  PROVE  DraftInv'
<1>1. entry[b] \in Entries /\ worker[b] \in Workers /\ worker[b].at = "rejected"
  BY DEF DraftInv, DraftTypes, SaveRefused
<1>2. PICK a, w, f : /\ a = "err" /\ w = [worker[b] EXCEPT !.at = a]
                     /\ f = [entry[b] EXCEPT !.status = "failed"]
  OBVIOUS
<1>3. w \in Workers /\ w.at = "err" /\ w.version = worker[b].version
  BY <1>1, <1>2, WorkerRecords
<1>4. f \in Entries /\ f.version = entry[b].version /\ f.savedVersion = entry[b].savedVersion
  BY <1>1, <1>2, EntryRecords
<1>5. /\ worker' = [worker EXCEPT ![b] = w] /\ entry' = [entry EXCEPT ![b] = f]
      /\ UNCHANGED <<calls, flush, shown, selector, stored>>
  BY <1>2 DEF SaveRefused
<1>6. /\ entry' \in [Branches -> Entries] /\ entry'[b] = f
      /\ \A x \in Branches \ {b} : entry'[x] = entry[x]
      /\ worker' \in [Branches -> Workers] /\ worker'[b] = w
      /\ \A x \in Branches \ {b} : worker'[x] = worker[x]
  BY <1>3, <1>4, <1>5 DEF DraftInv, DraftTypes
<1>7. DraftTypes' BY <1>5, <1>6 DEF DraftInv, DraftTypes
<1>8. \A x \in Branches : EntryInv(x)' BY <1>3, <1>4, <1>5, <1>6, <1>7, SteadyDrafts
<1>9. CallInv'
  <2>1. \A c \in calls : c.of \in Branches /\ c.of # b
    BY <1>1 DEF DraftInv, CallInv, DraftTypes
  <2> QED BY <1>5, <1>6, <2>1 DEF DraftInv, CallInv
<1>10. StoreInv' BY <1>3, <1>5, <1>6 DEF DraftInv, DraftTypes, StoreInv
<1>11. FlushInv' /\ FlushSavesWhatWasTyped'
  <2>1. \A x \in Branches : entry'[x].savedVersion >= entry[x].savedVersion
    BY <1>4, <1>6 DEF DraftInv, DraftTypes, Entries
  <2> QED BY <1>5, <1>7, <2>1, SteadyFlush
<1> QED BY <1>7, <1>8, <1>9, <1>10, <1>11 DEF DraftInv

\* A worker that is forgotten had saved everything, or those who wait learn
\* that it failed.
LEMMA ForgetWorkerKeeps ==
  ASSUME DraftInv, NEW b \in Branches, ForgetWorker(b)
  PROVE  DraftInv'
<1>1. worker[b] \in Workers /\ worker[b].at \in {"ok", "err"}
  BY DEF DraftInv, DraftTypes, ForgetWorker, Settled
<1>2. PICK a, w : a = "none" /\ w = [worker[b] EXCEPT !.at = a] OBVIOUS
<1>3. w \in Workers /\ w.at = "none" /\ w.version = worker[b].version
  BY <1>1, <1>2, WorkerRecords
<1>4. worker' = [worker EXCEPT ![b] = w] /\ UNCHANGED <<entry, calls, shown, selector, stored>>
  BY <1>2 DEF ForgetWorker
<1>5. /\ worker' \in [Branches -> Workers] /\ worker'[b] = w
      /\ \A x \in Branches \ {b} : worker'[x] = worker[x]
  BY <1>3, <1>4 DEF DraftInv, DraftTypes
<1>6. /\ flush' \in [at : {"none", "flushing", "beforeChange", "changing", "reloading",
                           "ok", "failed"},
                     joined : SUBSET Branches, failed : BOOLEAN,
                     change : [occ : Placed, to : Selectors],
                     upTo : [Branches -> Nat]]
      /\ flush'.at = flush.at /\ flush'.upTo = flush.upTo
      /\ \/ UNCHANGED flush /\ b \notin flush.joined
         \/ /\ flush'.joined = flush.joined \ {b}
            /\ flush'.failed = (flush.failed \/ worker[b].at = "err")
  <2>1. CASE b \notin flush.joined
    BY <2>1 DEF ForgetWorker, DraftInv, DraftTypes
  <2>2. CASE b \in flush.joined
    <3>1. flush' = [flush EXCEPT !.joined = flush.joined \ {b},
                                 !.failed = (flush.failed \/ worker[b].at = "err")]
      BY <2>2 DEF ForgetWorker, failedResult
    <3>2. (flush.failed \/ worker[b].at = "err") \in BOOLEAN OBVIOUS
    <3>3. flush.joined \ {b} \in SUBSET Branches BY DEF DraftInv, DraftTypes
    <3> QED BY <3>1, <3>2, <3>3 DEF DraftInv, DraftTypes
  <2> QED BY <2>1, <2>2
<1>7. DraftTypes' BY <1>4, <1>5, <1>6 DEF DraftInv, DraftTypes
<1>8. \A x \in Branches : EntryInv(x)' BY <1>3, <1>4, <1>5, <1>6, <1>7, SteadyDrafts
<1>9. CallInv'
  <2>1. \A c \in calls : c.of \in Branches /\ c.of # b
    BY <1>1 DEF DraftInv, CallInv, DraftTypes
  <2> QED BY <1>4, <1>5, <2>1 DEF DraftInv, CallInv
<1>10. StoreInv' BY <1>3, <1>4, <1>5 DEF DraftInv, DraftTypes, StoreInv
<1>11. FlushInv'
  <2> SUFFICES ASSUME flush'.at \in {"flushing", "beforeChange"}, ~flush'.failed,
                      NEW x \in Branches
               PROVE  x \in flush'.joined \/ entry[x].savedVersion >= flush.upTo[x]
    BY <1>4, <1>6 DEF FlushInv
  <2>1. ~flush.failed BY <1>6
  <2>2. x \in flush.joined \/ entry[x].savedVersion >= flush.upTo[x]
    BY <1>6, <2>1 DEF DraftInv, FlushInv
  <2>3. CASE x = b /\ b \in flush.joined
    <3>1. worker[b].at = "ok" BY <1>1, <1>6, <2>3
    <3>2. EntryInv(b) BY DEF DraftInv
    <3>3. entry[b].version \in Nat /\ flush.upTo[b] \in Nat
      BY DEF DraftInv, DraftTypes, Entries
    <3> QED BY <2>3, <3>1, <3>2, <3>3 DEF EntryInv
  <2> QED BY <1>6, <2>2, <2>3
<1>12. FlushSavesWhatWasTyped' BY <1>4, <1>6 DEF DraftInv, FlushSavesWhatWasTyped
<1> QED BY <1>7, <1>8, <1>9, <1>10, <1>11, <1>12 DEF DraftInv

LEMMA FlushEndsKeep ==
  ASSUME DraftInv, FlushReturns \/ SetOccurrenceRevision \/ Reload
  PROVE  DraftInv'
<1>1. /\ flush' \in [at : {"none", "flushing", "beforeChange", "changing", "reloading",
                           "ok", "failed"},
                     joined : SUBSET Branches, failed : BOOLEAN,
                     change : [occ : Placed, to : Selectors],
                     upTo : [Branches -> Nat]]
      /\ flush'.upTo = flush.upTo
      /\ flush'.at \in {"changing", "reloading", "ok", "failed"}
      /\ flush'.at # "failed" =>
           \/ flush.at \in {"changing", "reloading", "ok"}
           \/ flush.at \in {"flushing", "beforeChange"} /\ ~flush.failed /\ flush.joined = {}
  BY DEF DraftInv, DraftTypes, FlushReturns, SetOccurrenceRevision, Reload
<1>2. UNCHANGED <<entry, worker, calls, stored>>
  BY DEF FlushReturns, SetOccurrenceRevision, Reload
<1>3. shown' \in [Occs -> Selectors] /\ selector' \in [Occs -> Selectors]
  <2>1. flush.change.to \in Selectors BY DEF DraftInv, DraftTypes
  <2> QED BY <2>1 DEF DraftInv, DraftTypes, FlushReturns, SetOccurrenceRevision, Reload
<1>4. DraftTypes' BY <1>1, <1>2, <1>3 DEF DraftInv, DraftTypes
<1>5. \A b \in Branches : EntryInv(b)' BY <1>1, <1>2 DEF DraftInv, EntryInv
<1>6. CallInv' /\ StoreInv' BY <1>2 DEF DraftInv, CallInv, StoreInv
<1>7. FlushInv' BY <1>1 DEF FlushInv
<1>8. FlushSavesWhatWasTyped'
  <2>1. \A b \in Branches : flush'.at # "failed" => entry[b].savedVersion >= flush.upTo[b]
    BY <1>1 DEF DraftInv, FlushInv, FlushSavesWhatWasTyped
  <2> QED BY <1>1, <1>2, <2>1 DEF FlushSavesWhatWasTyped
<1> QED BY <1>4, <1>5, <1>6, <1>7, <1>8 DEF DraftInv

LEMMA DraftStep ==
  ASSUME DraftInv, [Next]_vars
  PROVE  DraftInv' /\ WritesGoForward
<1>1. ASSUME UNCHANGED stored PROVE WritesGoForward
  BY <1>1 DEF WritesGoForward, DraftInv, DraftTypes
<1>2. CASE UNCHANGED vars
  <2>1. UNCHANGED <<entry, worker, calls, flush, shown, selector, stored>> BY <1>2 DEF vars
  <2>2. DraftTypes' /\ CallInv' /\ StoreInv' /\ FlushInv' /\ FlushSavesWhatWasTyped'
    BY <2>1 DEF DraftInv, DraftTypes, CallInv, StoreInv, FlushInv, FlushSavesWhatWasTyped
  <2>3. \A b \in Branches : EntryInv(b)' BY <2>1 DEF DraftInv, EntryInv
  <2> QED BY <1>1, <2>1, <2>2, <2>3 DEF DraftInv
<1>3. ASSUME NEW o \in Occs, Queue(o) PROVE DraftInv' /\ WritesGoForward
  BY <1>1, <1>3, QueueKeeps DEF Queue
<1>4. ASSUME NEW o \in Occs, ChooseRevision(o) PROVE DraftInv' /\ WritesGoForward
  <2>1. PICK change \in [occ : Placed, to : Selectors] : Flush(change)
    BY <1>4, ChangeTypes DEF ChooseRevision
  <2> QED BY <1>1, <2>1, FlushKeeps DEF Flush
<1>5. CASE FlushNow BY <1>1, <1>5, ChangeTypes, FlushKeeps DEF FlushNow, Flush
<1>6. CASE FlushReturns \/ SetOccurrenceRevision \/ Reload
  BY <1>1, <1>6, FlushEndsKeep DEF FlushReturns, SetOccurrenceRevision, Reload
<1>7. ASSUME NEW b \in Branches, Background(b) PROVE DraftInv' /\ WritesGoForward
  <2>1. CASE TimerFires(b) BY <1>1, <2>1, TimerFiresKeeps DEF TimerFires
  <2>2. CASE ServerWrites(b) \/ ServerFails(b) BY <2>2, ServerKeeps
  <2>3. CASE SaveAnswered(b) BY <1>1, <2>3, SaveAnsweredKeeps DEF SaveAnswered
  <2>4. CASE SaveRefused(b) BY <1>1, <2>4, SaveRefusedKeeps DEF SaveRefused
  <2>5. CASE ForgetWorker(b) BY <1>1, <2>5, ForgetWorkerKeeps DEF ForgetWorker
  <2> QED BY <1>7, <2>1, <2>2, <2>3, <2>4, <2>5 DEF Background
<1> QED BY <1>2, <1>3, <1>4, <1>5, <1>6, <1>7 DEF Next

\* A flush that returns without an error has saved everything that was typed
\* before it was called, whatever was typed, answered, refused or rescheduled
\* meanwhile (flush, #flushEntry and #runWorker in working_copy_autosave.ts).
THEOREM FlushKeepsItsPromise == Spec => []FlushSavesWhatWasTyped
<1>1. DraftInv /\ [Next]_vars => DraftInv' BY DraftStep
<1>2. DraftInv => FlushSavesWhatWasTyped BY DEF DraftInv
<1> QED BY <1>1, <1>2, InitDraftInv, PTL DEF Spec

\* The store never goes from a draft of a branch back to an older one: a worker
\* has one call under way, and the next carries what was typed later
\* (#runWorker in working_copy_autosave.ts).
THEOREM DraftsAreWrittenInOrder == Spec => WritesNeverGoBack
<1>1. DraftInv /\ [Next]_vars => DraftInv' BY DraftStep
<1>2. DraftInv /\ [Next]_vars => [WritesGoForward]_vars BY DraftStep
<1> QED BY <1>1, <1>2, InitDraftInv, PTL DEF Spec, WritesNeverGoBack

-----------------------------------------------------------------------------
(***************************************************************************)
(* Startup.  A read of the outline is numbered; only the newest may        *)
(* publish, no two have the same number, and each reads a version of the   *)
(* store that is at least the version on screen.                           *)
(***************************************************************************)
IsTask(t) == t = Starting!Task(t.kind, t.gen, t.og, t.at, t.val)

Reads(t) == t.at \in {"reading", "read"}

\* A task that neither reads the outline nor has put it on screen.
Aside(t) == IsTask(t) /\ ~Reads(t) /\ t.at # "discard"

\* No answer under way would take the outline on screen back.
ReadOK(t) ==
  /\ t.og \in Nat /\ t.og <= ogen
  /\ t.at = "read" =>
       /\ t.val \in Nat /\ t.val <= data
       /\ t.og = ogen /\ outline.from = "live" => outline.version <= t.val

TasksInv ==
  /\ \A t \in tasks : IsTask(t)
  /\ \A t \in tasks : Reads(t) => ReadOK(t)
  /\ \A t, u \in tasks : Reads(t) /\ Reads(u) /\ t.og = u.og => t = u
  /\ \A t \in tasks : t.at = "discard" => outline.from = "live"

OutlineInv ==
  /\ data \in Nat /\ ogen \in Nat
  /\ outline.from = "live" => outline.version \in Nat /\ outline.version <= data
  /\ Starting!StaleOutlineIsInert

\* A bootstrap waits for the store of the session before it, and only the end of
\* the window closes a store beside it.
OneStoreInv ==
  /\ boot \in {"none", "stopping", "opening"} /\ draining \subseteq {"boot", "close"}
  /\ "close" \in draining => closing
  /\ boot # "stopping" => "boot" \notin draining
  /\ boot # "none" => ~session

StartInv == TasksInv /\ OutlineInv /\ OneStoreInv

LEMMA InitStartInv == Starting!Init => StartInv
<1> SUFFICES ASSUME Starting!Init PROVE StartInv OBVIOUS
<1>1. \A t \in tasks : IsTask(t) /\ t.at = "asked"
  BY DEF Starting!Init, Starting!Task, IsTask
<1>2. TasksInv BY <1>1 DEF TasksInv, Reads
<1>3. OutlineInv BY DEF Starting!Init, OutlineInv, Starting!StaleOutlineIsInert
<1>4. OneStoreInv BY DEF Starting!Init, OneStoreInv
<1> QED BY <1>2, <1>3, <1>4 DEF StartInv

LEMMA OneStore == OneStoreInv => OneStoreAtATime
BY DEF OneStoreInv, OneStoreAtATime, Starting!OneStoreAtATime, Starting!openStores

Moved(t, a, v) == [t EXCEPT !.at = a, !.val = v]

\* A task that has moved on.
LEMMA TaskMoved ==
  ASSUME NEW t, IsTask(t), NEW a, NEW v
  PROVE  /\ IsTask(Moved(t, a, v)) /\ Moved(t, a, v).at = a /\ Moved(t, a, v).val = v
         /\ Moved(t, a, v).og = t.og
<1>1. PICK k, g, o, b, w : t = [kind |-> k, gen |-> g, og |-> o, at |-> b, val |-> w]
  BY DEF IsTask, Starting!Task
<1>2. PICK u : u = [t EXCEPT !.at = a, !.val = v] OBVIOUS
<1>3. u = [kind |-> k, gen |-> g, og |-> o, at |-> a, val |-> v] BY <1>1, <1>2
<1>4. Moved(t, a, v) = u BY <1>2 DEF Moved
<1> QED BY <1>1, <1>3, <1>4 DEF IsTask, Starting!Task

LEMMA NewTask ==
  ASSUME NEW k, NEW g, NEW o, NEW a, NEW v, NEW u, u = Starting!Task(k, g, o, a, v)
  PROVE  IsTask(u) /\ u.kind = k /\ u.gen = g /\ u.og = o /\ u.at = a /\ u.val = v
BY DEF IsTask, Starting!Task

\* Tasks end, or do something else than read; reads may be revoked, and the store
\* may be written.
LEMMA AsideKeeps ==
  ASSUME TasksInv, OutlineInv, outline' = outline,
         ogen' = ogen \/ ogen' = ogen + 1, data' = data \/ data' = data + 1,
         \A u \in tasks' : u \in tasks \/ Aside(u)
  PROVE  TasksInv'
<1>1. \A u \in tasks' : IsTask(u) BY DEF TasksInv, Aside
<1>2. \A u \in tasks' : Reads(u) \/ u.at = "discard" => u \in tasks BY DEF Aside
<1>3. ASSUME NEW u \in tasks', Reads(u) PROVE ReadOK(u)'
  BY <1>2, <1>3 DEF TasksInv, OutlineInv, ReadOK
<1>4. \A t, u \in tasks' : Reads(t) /\ Reads(u) /\ t.og = u.og => t = u
  BY <1>2 DEF TasksInv
<1>5. \A t \in tasks' : t.at = "discard" => outline'.from = "live"
  BY <1>2 DEF TasksInv
<1> QED BY <1>1, <1>3, <1>4, <1>5 DEF TasksInv, IsTask, Reads

\* A new read takes the next number.
LEMMA BeginKeeps ==
  ASSUME TasksInv, OutlineInv, outline' = outline,
         ogen' = ogen + 1, data' = data \/ data' = data + 1,
         NEW f, IsTask(f), f.at = "reading", f.og = ogen + 1,
         \A u \in tasks' : u \in tasks \/ u = f
  PROVE  TasksInv'
<1>1. \A u \in tasks' : IsTask(u) BY DEF TasksInv
<1>2. \A u \in tasks : Reads(u) => u.og \in Nat /\ u.og <= ogen
  BY DEF TasksInv, ReadOK
<1>3. ASSUME NEW u \in tasks', Reads(u) PROVE ReadOK(u)'
  BY <1>3 DEF TasksInv, OutlineInv, ReadOK
<1>4. ASSUME NEW t \in tasks', NEW u \in tasks', Reads(t), Reads(u), t.og = u.og
      PROVE  t = u
  BY <1>2, <1>4 DEF TasksInv, OutlineInv
<1>5. \A t \in tasks' : t.at = "discard" => outline'.from = "live"
  BY DEF TasksInv
<1> QED BY <1>1, <1>3, <1>4, <1>5 DEF TasksInv, IsTask, Reads

\* What is on screen stays.
LEMMA OutlineStays ==
  ASSUME OutlineInv, outline' = outline, cacheActive' = cacheActive,
         ogen' = ogen \/ ogen' = ogen + 1, data' = data \/ data' = data + 1
  PROVE  OutlineInv' /\ Starting!ShownGoesForward
BY DEF OutlineInv, Starting!StaleOutlineIsInert, Starting!ShownGoesForward

LEMMA ProcessStays ==
  ASSUME OneStoreInv, UNCHANGED Starting!process
  PROVE  OneStoreInv'
BY DEF OneStoreInv, Starting!process

LEMMA BootstrapKeeps ==
  ASSUME OneStoreInv, Starting!Bootstrap, closing' = closing
  PROVE  OneStoreInv'
BY DEF OneStoreInv, Starting!Bootstrap

\* The process: its stores, and the answers it gives.
LEMMA BootsKeep ==
  ASSUME StartInv, Starting!Boots \/ Starting!Drains
  PROVE  StartInv' /\ Starting!ShownGoesForward
<1>1. /\ UNCHANGED Starting!store /\ UNCHANGED Starting!window /\ closing' = closing
  BY DEF Starting!Boots, Starting!Drains, Starting!OpenStore, Starting!BootEnds,
         Starting!StoreClosed
<1>2. outline' = outline /\ cacheActive' = cacheActive /\ ogen' = ogen /\ data' = data
  BY <1>1 DEF Starting!store, Starting!window
<1>3. OneStoreInv'
  <2>1. CASE Starting!OpenStore
    BY <2>1 DEF StartInv, OneStoreInv, Starting!OpenStore, Starting!stopped
  <2>2. ASSUME NEW r, Starting!BootEnds(r) PROVE OneStoreInv'
    BY <2>2 DEF StartInv, OneStoreInv, Starting!BootEnds
  <2>3. ASSUME NEW by, Starting!StoreClosed(by) PROVE OneStoreInv'
    BY <2>3 DEF StartInv, OneStoreInv, Starting!StoreClosed
  <2> QED BY <2>1, <2>2, <2>3 DEF Starting!Boots, Starting!Drains
<1>4. TasksInv'
  <2>1. CASE tasks' = tasks BY <1>2, <2>1, AsideKeeps DEF StartInv
  <2>2. ASSUME NEW r, Starting!BootEnds(r) PROVE TasksInv'
    <3>1. ASSUME NEW u \in tasks' PROVE u \in tasks \/ Aside(u)
      <4>1. PICK t \in tasks : u = t \/ u = Moved(t, "answered", r)
        BY <2>2, <3>1 DEF Starting!BootEnds, Moved
      <4>2. CASE u = t BY <4>2
      <4>3. CASE u = Moved(t, "answered", r)
        <5>1. IsTask(t) BY DEF StartInv, TasksInv
        <5>2. IsTask(u) /\ u.at = "answered" BY <4>3, <5>1, TaskMoved
        <5> QED BY <5>2 DEF Aside, Reads
      <4> QED BY <4>1, <4>2, <4>3
    <3> QED BY <1>2, <3>1, AsideKeeps DEF StartInv
  <2> QED BY <2>1, <2>2 DEF Starting!Boots, Starting!Drains, Starting!OpenStore,
                            Starting!StoreClosed
<1>5. OutlineInv' /\ Starting!ShownGoesForward BY <1>2, OutlineStays DEF StartInv
<1> QED BY <1>3, <1>4, <1>5 DEF StartInv

\* A task that moves on without reading.
LEMMA MoveAside ==
  ASSUME TasksInv, NEW t \in tasks, NEW a, NEW v, Starting!Move(t, a, v),
         a \notin {"reading", "read", "discard"}
  PROVE  \A u \in tasks' : u \in tasks \/ Aside(u)
<1>1. IsTask(t) BY DEF TasksInv
<1>2. IsTask(Moved(t, a, v)) /\ Moved(t, a, v).at = a BY <1>1, TaskMoved
<1>3. Aside(Moved(t, a, v)) BY <1>2 DEF Aside, Reads
<1>4. tasks' = (tasks \ {t}) \cup {Moved(t, a, v)}
  BY DEF Starting!Move, Starting!Become, Moved
<1> QED BY <1>3, <1>4

LEMMA BecomeAside ==
  ASSUME NEW t, NEW k, NEW g, NEW a, Starting!Become(t, Starting!Task(k, g, 0, a, None)),
         a \notin {"reading", "read", "discard"}
  PROVE  \A u \in tasks' : u \in tasks \/ Aside(u)
<1>1. PICK m, o : m = Starting!Task(k, g, o, a, None) /\ o = 0 OBVIOUS
<1>2. Aside(m) BY <1>1, NewTask DEF Aside, Reads
<1>3. tasks' = (tasks \ {t}) \cup {m} BY <1>1 DEF Starting!Become
<1> QED BY <1>2, <1>3

LEMMA ServeKeeps ==
  ASSUME StartInv, NEW t \in tasks, Starting!Serve(t)
  PROVE  StartInv' /\ Starting!ShownGoesForward
<1>1. UNCHANGED Starting!store /\ UNCHANGED Starting!window
  BY DEF Starting!Serve, Starting!ServeStatus, Starting!ServeRetry, Starting!ServeOutline,
         Starting!ServeCache
<1>2. outline' = outline /\ cacheActive' = cacheActive /\ ogen' = ogen /\ data' = data
  BY <1>1 DEF Starting!store, Starting!window
<1>3. OutlineInv' /\ Starting!ShownGoesForward BY <1>2, OutlineStays DEF StartInv
<1>4. ASSUME NEW a \in {"answered", "joined"}, NEW v, Starting!Move(t, a, v) PROVE TasksInv'
  <2>1. \A u \in tasks' : u \in tasks \/ Aside(u) BY <1>4, MoveAside DEF StartInv
  <2> QED BY <1>2, <2>1, AsideKeeps DEF StartInv
<1>5. CASE Starting!ServeStatus(t)
  <2>1. PICK a, v : a = "answered" /\ v = status OBVIOUS
  <2>2. Starting!Move(t, a, v) BY <1>5, <2>1 DEF Starting!ServeStatus
  <2>3. OneStoreInv'
    <3>1. CASE Starting!Bootstrap
      BY <1>5, <3>1, BootstrapKeeps DEF StartInv, Starting!ServeStatus
    <3>2. CASE UNCHANGED <<status, boot, session, draining>>
      BY <1>5, <3>2 DEF StartInv, OneStoreInv, Starting!ServeStatus
    <3> QED BY <1>5, <3>1, <3>2 DEF Starting!ServeStatus
  <2> QED BY <1>3, <1>4, <2>1, <2>2, <2>3 DEF StartInv
<1>6. CASE Starting!ServeRetry(t)
  <2>1. PICK a, v : a = "joined" /\ v = None OBVIOUS
  <2>2. Starting!Move(t, a, v) BY <1>6, <2>1 DEF Starting!ServeRetry
  <2>3. OneStoreInv' BY <1>6, BootstrapKeeps DEF StartInv, Starting!ServeRetry
  <2> QED BY <1>3, <1>4, <2>1, <2>2, <2>3 DEF StartInv
<1>7. CASE Starting!ServeCache(t)
  <2>1. PICK a, v : a = "answered" /\ v = cacheFile OBVIOUS
  <2>2. Starting!Move(t, a, v) BY <1>7, <2>1 DEF Starting!ServeCache
  <2>3. OneStoreInv' BY <1>7, ProcessStays DEF StartInv, Starting!ServeCache
  <2> QED BY <1>3, <1>4, <2>1, <2>2, <2>3 DEF StartInv
<1>8. CASE Starting!ServeOutline(t)
  <2>0. IsTask(t) BY DEF StartInv, TasksInv
  <2>1. PICK m : m = Moved(t, "read", data) OBVIOUS
  <2>2. IsTask(m) /\ m.at = "read" /\ m.val = data /\ m.og = t.og
    BY <2>0, <2>1, TaskMoved
  <2>3. tasks' = (tasks \ {t}) \cup {m} /\ t.at = "reading"
    BY <1>8, <2>1 DEF Starting!ServeOutline, Starting!Move, Starting!Become, Moved
  <2>4. Reads(t) /\ Reads(m) BY <2>2, <2>3 DEF Reads
  <2>5. ReadOK(m)
    BY <2>2, <2>4 DEF StartInv, TasksInv, OutlineInv, ReadOK
  <2>6. \A u \in tasks' : IsTask(u) BY <2>2, <2>3 DEF StartInv, TasksInv
  <2>7. \A u \in tasks' : Reads(u) => ReadOK(u)' 
    BY <1>2, <2>3, <2>5 DEF StartInv, TasksInv, ReadOK
  <2>8. ASSUME NEW u \in tasks', NEW w \in tasks', Reads(u), Reads(w), u.og = w.og
        PROVE  u = w
    BY <2>2, <2>3, <2>4, <2>8 DEF StartInv, TasksInv
  <2>9. \A u \in tasks' : u.at = "discard" => outline'.from = "live"
    BY <1>2, <2>2, <2>3 DEF StartInv, TasksInv
  <2>10. TasksInv' BY <2>6, <2>7, <2>8, <2>9 DEF TasksInv, IsTask, Reads
  <2>11. OneStoreInv' BY <1>8, ProcessStays DEF StartInv, Starting!ServeOutline
  <2> QED BY <1>3, <2>10, <2>11 DEF StartInv
<1> QED BY <1>5, <1>6, <1>7, <1>8 DEF Starting!Serve

\* A step of the window that shows nothing new and reads nothing.
LEMMA WindowAside ==
  ASSUME StartInv, UNCHANGED Starting!process, outline' = outline, data' = data,
         ogen' = ogen \/ ogen' = ogen + 1, cacheActive' = cacheActive,
         \A u \in tasks' : u \in tasks \/ Aside(u)
  PROVE  StartInv' /\ Starting!ShownGoesForward
BY AsideKeeps, OutlineStays, ProcessStays DEF StartInv

\* Status, relations, failures: the tasks that publish nothing.
LEMMA WaitingKeeps ==
  ASSUME StartInv, NEW t \in tasks,
         \/ Starting!StatusArrives(t) \/ Starting!PollAgain(t) \/ Starting!LoadThrows(t)
         \/ Starting!ReadFails(t)
  PROVE  StartInv' /\ Starting!ShownGoesForward
<1>1. /\ UNCHANGED Starting!process
      /\ outline' = outline /\ data' = data /\ ogen' = ogen /\ cacheActive' = cacheActive
  BY DEF Starting!StatusArrives, Starting!PollAgain, Starting!LoadThrows, Starting!ReadFails,
         Starting!store, Starting!window
<1>2. CASE Starting!End(t) BY <1>1, <1>2, WindowAside DEF Starting!End
<1>3. CASE Starting!StatusArrives(t)
  <2>1. PICK s : Starting!End(t) \/ Starting!AfterStatus(t, s)
    BY <1>3 DEF Starting!StatusArrives
  <2>2. \/ Starting!End(t)
        \/ Starting!Become(t, Starting!Task("load", t.gen, 0, "relations", None))
        \/ Starting!Become(t, Starting!Task("poll", t.gen, 0, "waiting", None))
    BY ONLY <2>1 DEF Starting!AfterStatus
  <2>3. ASSUME NEW k, NEW a \in {"relations", "waiting"}, NEW g,
               Starting!Become(t, Starting!Task(k, g, 0, a, None))
        PROVE  \A u \in tasks' : u \in tasks \/ Aside(u)
    BY <2>3, BecomeAside
  <2>4. \A u \in tasks' : u \in tasks \/ Aside(u)
    <3>1. CASE Starting!End(t) BY <3>1 DEF Starting!End
    <3>2. PICK k, l, a, b, g : /\ k = "load" /\ l = "poll" /\ a = "relations" /\ b = "waiting"
                               /\ g = t.gen
      OBVIOUS
    <3>3. CASE Starting!Become(t, Starting!Task(k, g, 0, a, None)) BY <2>3, <3>2, <3>3
    <3>4. CASE Starting!Become(t, Starting!Task(l, g, 0, b, None)) BY <2>3, <3>2, <3>4
    <3> QED BY <2>2, <3>1, <3>2, <3>3, <3>4
  <2> QED BY <1>1, <2>4, WindowAside
<1>4. CASE Starting!PollAgain(t)
  <2>1. PICK a, v : a = "asked" /\ v = None OBVIOUS
  <2>2. Starting!Move(t, a, v) \/ Starting!End(t) BY <1>4, <2>1 DEF Starting!PollAgain
  <2>3. CASE Starting!Move(t, a, v)
    <3>1. \A u \in tasks' : u \in tasks \/ Aside(u)
      BY <2>1, <2>3, MoveAside DEF StartInv
    <3> QED BY <1>1, <3>1, WindowAside
  <2> QED BY <1>2, <2>2, <2>3
<1> QED BY <1>2, <1>3, <1>4 DEF Starting!LoadThrows, Starting!ReadFails

LEMMA RelationsArriveKeeps ==
  ASSUME StartInv, NEW t \in tasks, Starting!RelationsArrive(t)
  PROVE  StartInv' /\ Starting!ShownGoesForward
<1>1. /\ UNCHANGED Starting!process /\ cacheActive' = cacheActive
      /\ outline' = outline /\ data' = data
      /\ ogen' = ogen \/ ogen' = ogen + 1
  BY DEF Starting!RelationsArrive, Starting!store
<1>2. CASE Starting!End(t) BY <1>1, <1>2, WindowAside DEF Starting!End
<1>3. CASE ~Starting!End(t)
  <2>1. PICK f : f = [t EXCEPT !.og = ogen + 1, !.at = "reading"] OBVIOUS
  <2>2. ogen' = ogen + 1 /\ tasks' = (tasks \ {t}) \cup {f}
    BY <1>3, <2>1 DEF Starting!RelationsArrive, Starting!Become
  <2>3. IsTask(f) /\ f.at = "reading" /\ f.og = ogen + 1
    <3>1. IsTask(t) BY DEF StartInv, TasksInv
    <3>2. PICK k, g, o, b, w : t = [kind |-> k, gen |-> g, og |-> o, at |-> b, val |-> w]
      BY <3>1 DEF IsTask, Starting!Task
    <3>3. f = [kind |-> k, gen |-> g, og |-> ogen + 1, at |-> "reading", val |-> w]
      BY <2>1, <3>2
    <3> QED BY <3>3 DEF IsTask, Starting!Task
  <2>4. TasksInv' BY <1>1, <2>2, <2>3, BeginKeeps DEF StartInv
  <2> QED BY <1>1, <2>4, OutlineStays, ProcessStays DEF StartInv
<1> QED BY <1>2, <1>3

\* The newest read ends and its answer goes on screen; no other read has its number.
LEMMA PublishKeeps ==
  ASSUME StartInv, NEW t \in tasks, t.at = "read", Starting!mayPublish(t),
         Starting!Publish(t.val), UNCHANGED <<data, ogen>>, UNCHANGED Starting!process,
         \/ tasks' = tasks \ {t}
         \/ \E m : /\ IsTask(m) /\ m.at = "discard"
                   /\ tasks' = (tasks \ {t}) \cup {m}
  PROVE  StartInv' /\ Starting!ShownGoesForward
<1>1. /\ t.og = ogen /\ t.val \in Nat /\ t.val <= data
      /\ outline.from = "live" => outline.version <= t.val
  BY DEF Starting!mayPublish, StartInv, TasksInv, Reads, ReadOK
<1>2. outline'.from = "live" /\ outline'.version = t.val
  BY DEF Starting!Publish
<1>3. OutlineInv' BY <1>1, <1>2 DEF StartInv, OutlineInv, Starting!StaleOutlineIsInert
<1>4. Starting!ShownGoesForward
  BY <1>1, <1>2 DEF StartInv, OutlineInv, Starting!ShownGoesForward
<1>5. \A u \in tasks' : IsTask(u) BY DEF StartInv, TasksInv
<1>6. \A u \in tasks' : Reads(u) => u \in tasks /\ u # t BY DEF Reads
<1>7. ASSUME NEW u \in tasks', Reads(u) PROVE ReadOK(u)'
  <2>1. u \in tasks /\ u # t /\ ReadOK(u) BY <1>6, <1>7 DEF StartInv, TasksInv
  <2>2. u.og # t.og BY <1>7, <2>1 DEF StartInv, TasksInv, Reads
  <2> QED BY <1>1, <2>1, <2>2 DEF ReadOK
<1>8. \A u, w \in tasks' : Reads(u) /\ Reads(w) /\ u.og = w.og => u = w
  BY <1>6 DEF StartInv, TasksInv
<1>9. TasksInv' BY <1>2, <1>5, <1>7, <1>8 DEF TasksInv, IsTask, Reads
<1> QED BY <1>3, <1>4, <1>9, ProcessStays DEF StartInv

LEMMA OutlineArrivesKeeps ==
  ASSUME StartInv, NEW t \in tasks,
         Starting!OutlineArrives(t) \/ Starting!StartupOutlineArrives(t)
  PROVE  StartInv' /\ Starting!ShownGoesForward
<1>1. /\ UNCHANGED Starting!process /\ UNCHANGED <<data, ogen>>
      /\ cacheActive' = cacheActive /\ t.at = "read"
  BY DEF Starting!OutlineArrives, Starting!StartupOutlineArrives
<1>2. Starting!End(t) \/ (Starting!mayPublish(t) /\ Starting!Move(t, "discard", None))
  BY DEF Starting!OutlineArrives, Starting!StartupOutlineArrives, Starting!loaded
<1>3. CASE Starting!mayPublish(t)
  <2>1. Starting!Publish(t.val)
    BY <1>3 DEF Starting!OutlineArrives, Starting!StartupOutlineArrives
  <2>2. PICK m : m = Moved(t, "discard", None) OBVIOUS
  <2>3. IsTask(m) /\ m.at = "discard"
    <3>1. IsTask(t) BY DEF StartInv, TasksInv
    <3> QED BY <2>2, <3>1, TaskMoved
  <2>4. \/ tasks' = tasks \ {t}
        \/ tasks' = (tasks \ {t}) \cup {m}
    BY <1>2, <2>2 DEF Starting!End, Starting!Move, Starting!Become, Moved
  <2> QED BY <1>1, <1>3, <2>1, <2>3, <2>4, PublishKeeps
<1>4. CASE ~Starting!mayPublish(t)
  <2>1. outline' = outline
    BY <1>4 DEF Starting!OutlineArrives, Starting!StartupOutlineArrives
  <2>2. Starting!End(t) BY <1>2, <1>4
  <2> QED BY <1>1, <2>1, <2>2, WindowAside DEF Starting!End
<1> QED BY <1>3, <1>4

\* The cache ends once a load has put the store's outline on screen.
LEMMA CacheKeeps ==
  ASSUME StartInv, NEW t \in tasks,
         Starting!StartupLoadEnds(t) \/ Starting!CacheArrives(t)
  PROVE  StartInv' /\ Starting!ShownGoesForward
<1>1. /\ UNCHANGED Starting!process /\ UNCHANGED <<data, ogen>> /\ tasks' = tasks \ {t}
  BY DEF Starting!StartupLoadEnds, Starting!CacheArrives, Starting!End, Starting!store
<1>2. CASE Starting!StartupLoadEnds(t)
  <2>1. outline' = outline /\ outline.from = "live"
    BY <1>2 DEF Starting!StartupLoadEnds, StartInv, TasksInv
  <2>2. TasksInv' BY <1>1, <2>1, AsideKeeps DEF StartInv
  <2>3. OutlineInv' /\ Starting!ShownGoesForward
    BY <1>1, <2>1 DEF StartInv, OutlineInv, Starting!StaleOutlineIsInert,
                      Starting!ShownGoesForward
  <2> QED BY <1>1, <2>2, <2>3, ProcessStays DEF StartInv
<1>3. CASE Starting!CacheArrives(t) /\ UNCHANGED <<outline, cacheActive>>
  BY <1>1, <1>3, WindowAside
<1>4. CASE Starting!CacheArrives(t) /\ ~UNCHANGED <<outline, cacheActive>>
  <2>1. /\ outline.from # "live"
        /\ outline' = [from |-> "cache", version |-> t.val] /\ cacheActive' = TRUE
    BY <1>4 DEF Starting!CacheArrives, Starting!mayRestore
  <2>2. outline'.from = "cache" BY <2>1
  <2>3. OutlineInv' /\ Starting!ShownGoesForward
    BY <1>1, <2>1, <2>2 DEF StartInv, OutlineInv, Starting!StaleOutlineIsInert,
                            Starting!ShownGoesForward
  <2>4. \A u \in tasks' : IsTask(u) /\ u.at # "discard"
    BY <1>1, <2>1 DEF StartInv, TasksInv
  <2>5. \A u \in tasks' : Reads(u) => ReadOK(u)'
    BY <1>1, <2>2 DEF StartInv, TasksInv, ReadOK
  <2>6. \A u, w \in tasks' : Reads(u) /\ Reads(w) /\ u.og = w.og => u = w
    BY <1>1 DEF StartInv, TasksInv
  <2>7. TasksInv' BY <2>4, <2>5, <2>6 DEF TasksInv, IsTask, Reads
  <2> QED BY <1>1, <2>3, <2>7, ProcessStays DEF StartInv
<1> QED BY <1>2, <1>3, <1>4

\* What the user does starts loads, revokes reads and begins new ones.
LEMMA UserKeeps ==
  ASSUME StartInv, Starting!User \/ Starting!NavigationPrepared
  PROVE  StartInv' /\ Starting!ShownGoesForward
<1>1. ASSUME Starting!Close PROVE StartInv' /\ Starting!ShownGoesForward
  <2>1. /\ outline' = outline /\ data' = data /\ ogen' = ogen /\ cacheActive' = cacheActive
        /\ tasks' = tasks
    BY <1>1 DEF Starting!Close, Starting!store, Starting!window
  <2>2. OneStoreInv' BY <1>1 DEF StartInv, OneStoreInv, Starting!Close
  <2> QED BY <2>1, <2>2, AsideKeeps, OutlineStays DEF StartInv
<1>2. ASSUME NEW k, NEW a \in {"asked", "relations"}, NEW g,
             tasks' = tasks \cup {Starting!Task(k, g, 0, a, None)}
      PROVE  \A u \in tasks' : u \in tasks \/ Aside(u)
  <2>1. PICK m, o : m = Starting!Task(k, g, o, a, None) /\ o = 0 OBVIOUS
  <2>2. Aside(m) BY <2>1, NewTask DEF Aside, Reads
  <2> QED BY <1>2, <2>1, <2>2
<1>3. ASSUME Starting!Retry \/ Starting!ReloadData PROVE StartInv' /\ Starting!ShownGoesForward
  <2>1. /\ UNCHANGED Starting!process
        /\ outline' = outline /\ data' = data /\ ogen' = ogen /\ cacheActive' = cacheActive
    BY <1>3 DEF Starting!Retry, Starting!ReloadData, Starting!store
  <2>2. PICK k \in {"retry", "load"}, a \in {"asked", "relations"}, g \in {gen + 1} :
          tasks' = tasks \cup {Starting!Task(k, g, 0, a, None)}
    <3>1. CASE Starting!Retry BY <1>3, <3>1 DEF Starting!Retry
    <3>2. CASE Starting!ReloadData BY <1>3, <3>2 DEF Starting!ReloadData
    <3> QED BY <1>3, <3>1, <3>2
  <2> QED BY <1>2, <2>1, <2>2, WindowAside
<1>4. ASSUME Starting!Navigate PROVE StartInv' /\ Starting!ShownGoesForward
  <2>1. /\ UNCHANGED Starting!process
        /\ outline' = outline /\ data' = data /\ ogen' = ogen + 1 /\ cacheActive' = cacheActive
        /\ tasks' = tasks
    BY <1>4 DEF Starting!Navigate, Starting!store
  <2> QED BY <2>1, WindowAside
<1>5. ASSUME UNCHANGED Starting!process, outline' = outline, data' = data \/ data' = data + 1,
             ogen' = ogen + 1, cacheActive' = cacheActive,
             tasks' = tasks \cup {Starting!Task("read", 0, ogen + 1, "reading", None)}
      PROVE  StartInv' /\ Starting!ShownGoesForward
  <2>1. PICK k, g, o, a, f : /\ k = "read" /\ g = 0 /\ o = ogen + 1 /\ a = "reading"
                             /\ f = Starting!Task(k, g, o, a, None)
    OBVIOUS
  <2>2. IsTask(f) /\ f.at = "reading" /\ f.og = ogen + 1 BY <2>1, NewTask
  <2>3. TasksInv' BY <1>5, <2>1, <2>2, BeginKeeps DEF StartInv
  <2> QED BY <1>5, <2>3, OutlineStays, ProcessStays DEF StartInv
<1>6. ASSUME Starting!Edit PROVE StartInv' /\ Starting!ShownGoesForward
  BY <1>5, <1>6 DEF Starting!Edit
<1>7. ASSUME Starting!NavigationPrepared PROVE StartInv' /\ Starting!ShownGoesForward
  <2>1. /\ UNCHANGED Starting!process
        /\ outline' = outline /\ data' = data /\ ogen' = ogen + 1 /\ cacheActive' = cacheActive
    BY <1>7 DEF Starting!NavigationPrepared, Starting!store
  <2>2. CASE nav = "outline" BY <1>5, <1>7, <2>1, <2>2 DEF Starting!NavigationPrepared
  <2>3. CASE nav # "outline"
    BY <1>7, <2>1, <2>3, WindowAside DEF Starting!NavigationPrepared
  <2> QED BY <2>2, <2>3
<1> QED BY <1>1, <1>3, <1>4, <1>6, <1>7 DEF Starting!User

LEMMA StartStep ==
  StartInv /\ [Starting!Next]_(Starting!vars) => StartInv' /\ Starting!ShownGoesForward
<1> SUFFICES ASSUME StartInv, [Starting!Next]_(Starting!vars)
             PROVE  StartInv' /\ Starting!ShownGoesForward
  OBVIOUS
<1>1. CASE UNCHANGED Starting!vars
  <2>1. /\ UNCHANGED Starting!process /\ outline' = outline /\ data' = data /\ ogen' = ogen
        /\ cacheActive' = cacheActive /\ tasks' = tasks
    BY <1>1 DEF Starting!vars, Starting!store, Starting!window
  <2> QED BY <2>1, WindowAside
<1>2. ASSUME NEW t \in tasks, Starting!Serve(t) \/ Starting!Arrive(t)
      PROVE  StartInv' /\ Starting!ShownGoesForward
  BY <1>2, ServeKeeps, WaitingKeeps, RelationsArriveKeeps, OutlineArrivesKeeps, CacheKeeps
  DEF Starting!Arrive
<1> QED BY <1>1, <1>2, BootsKeep, UserKeeps DEF Starting!Next

\* One store at most is open until the window closes: a retry joins the bootstrap
\* under way, which waits for the store before it (bootstrap and stopBackend in
\* main.ts).
THEOREM StoresComeOneByOne == Starting!Spec => []OneStoreAtATime
<1>1. StartInv /\ [Starting!Next]_(Starting!vars) => StartInv' BY StartStep
<1>2. StartInv => OneStoreAtATime BY OneStore DEF StartInv
<1> QED BY <1>1, <1>2, InitStartInv, PTL DEF Starting!Spec

\* In whatever order loads, the cache and the user's revocations come, a cached
\* outline is behind the inert shell and the outline shown never goes back
\* (StartupController, OutlineController.begin and restoreCache).
THEOREM NothingStaleIsShown == Starting!Spec => ShownIsNeverStale
<1>1. StartInv /\ [Starting!Next]_(Starting!vars) => StartInv' BY StartStep
<1>2. StartInv /\ StartInv' /\ [Starting!Next]_(Starting!vars)
        => [Starting!StaleOutlineIsInert' /\ Starting!ShownGoesForward]_mcvars
  BY StartStep DEF StartInv, OutlineInv
<1> QED BY <1>1, <1>2, InitStartInv, PTL DEF Starting!Spec, ShownIsNeverStale
=============================================================================
