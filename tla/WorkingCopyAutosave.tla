------------------------- MODULE WorkingCopyAutosave -------------------------
(***************************************************************************)
(* WorkingCopyAutosaveCoordinator: what a user types is kept as a draft    *)
(* per branch and written by one worker per branch, after a delay or when  *)
(* somebody flushes.  A draft is the number of the edit that made it.      *)
(*                                                                         *)
(* A write names the placement that was edited; the server looks up which  *)
(* branch the placement selects (OccurrenceOperations.updateItemText).     *)
(* The user may meanwhile make a placement select something else: the      *)
(* history panel flushes, then asks the server, then reloads.              *)
(*                                                                         *)
(* The code runs on one event loop: a worker that has just settled is      *)
(* forgotten (entry.worker = undefined) in a microtask, before any timer,  *)
(* input event or answer from the server is handled (Quiet).               *)
(***************************************************************************)
EXTENDS Naturals

CONSTANTS
  Branches, Occs,
  Main,        \* the main branch
  Pinned,      \* the selector of a placement that shows a fixed revision
  InitShown,   \* what each placement selects at first
  MaxVersion   \* a bound on the edits of one branch

ASSUME SelectorAssumption == Main \in Branches /\ Pinned \notin Branches

ASSUME ShownAssumption == InitShown \in [Occs -> Branches \cup {Pinned}]

VARIABLES
  entry,     \* per branch: version, savedVersion, occurrence, timer, status
  worker,    \* per branch: where the worker is, and the edit it is writing
  calls,     \* the writes on their way to the server
  flush,     \* the one flush under way: what it waits for, and why
  shown,     \* the selectors in the snapshot the user interface shows
  selector,  \* the selectors in the store
  stored     \* the working copy in the store: whose edit, and which

vars == <<entry, worker, calls, flush, shown, selector, stored>>

Selectors == Branches \cup {Pinned}

Unsaved(b) == entry[b].savedVersion < entry[b].version

Settled(b) == worker[b].at \in {"ok", "err"}

\* No microtask is pending.
Quiet == \A b \in Branches : ~Settled(b)

NoChange == [occ |-> CHOOSE o \in Occs : TRUE, to |-> Pinned]

Init ==
  /\ entry = [b \in Branches |->
       [version |-> 0, savedVersion |-> 0, timer |-> FALSE, status |-> "saved",
        occ |-> CHOOSE o \in Occs : TRUE]]
  /\ worker = [b \in Branches |-> [at |-> "none", version |-> 0]]
  /\ calls = {}
  /\ flush = [at |-> "none", joined |-> {}, failed |-> FALSE, change |-> NoChange,
              upTo |-> [b \in Branches |-> 0]]
  /\ shown = InitShown /\ selector = InitShown
  /\ stored = [b \in Branches |-> [of |-> b, version |-> 0]]

-----------------------------------------------------------------------------
\* updateLocalText and queue: pinned placements take no input.
Queue(o) ==
  /\ Quiet /\ shown[o] # Pinned
  /\ LET b == shown[o] IN
       /\ entry[b].version < MaxVersion
       /\ entry' = [entry EXCEPT ![b] =
            [entry[b] EXCEPT !.version = @ + 1, !.occ = o, !.timer = TRUE, !.status = "unsaved"]]
  /\ UNCHANGED <<worker, calls, flush, shown, selector, stored>>

\* Faulty: the worker stops after the write it was started for.
saveOnce(e, w) == FALSE

\* The condition of the loop in #runWorker.
more(e, w) == e.savedVersion < e.version

\* The head of the loop: send the draft as it is now, or settle.
Send(e, w) ==
  IF more(e, w) THEN [at |-> "sent", version |-> e.version] ELSE [w EXCEPT !.at = "ok"]

CallOf(b, e) == [of |-> b, occ |-> e.occ, version |-> e.version]

Sending(e) == [e EXCEPT !.timer = FALSE,
                        !.status = IF e.savedVersion < e.version THEN "saving" ELSE "saved"]

\* Faulty: two workers may write the same branch.
startAnother(b) == TRUE

startWorker(b) == worker[b].at = "none"

\* #flushEntry clears the timer of each entry and joins its worker or starts one.
FlushEntries(B) ==
  LET started == {b \in B : startWorker(b)} IN
  /\ entry' = [b \in Branches |->
       IF b \in started THEN Sending(entry[b])
       ELSE IF b \in B THEN [entry[b] EXCEPT !.timer = FALSE] ELSE entry[b]]
  /\ worker' = [b \in Branches |->
       IF b \notin started THEN worker[b]
       ELSE IF Unsaved(b) THEN [at |-> "sent", version |-> entry[b].version]
       ELSE [worker[b] EXCEPT !.at = "ok"]]
  /\ calls' = calls \cup {CallOf(b, entry[b]) : b \in {x \in started : Unsaved(x)}}

TimerFires(b) ==
  /\ Quiet /\ entry[b].timer
  /\ FlushEntries({b})
  /\ UNCHANGED <<flush, shown, selector, stored>>

\* The answer reaches the worker that made the call.
Reply(c, at) ==
  /\ calls' = calls \ {c}
  /\ worker' = IF worker[c.of] = [at |-> "sent", version |-> c.version]
                 THEN [worker EXCEPT ![c.of].at = at] ELSE worker

\* updateItemText: the text goes to the branch that the placement selects now;
\* a pinned placement is read-only.
ServerWrites(b) == \E c \in {x \in calls : x.of = b} :
  /\ LET s == selector[c.occ] IN
       IF s = Pinned
         THEN Reply(c, "rejected") /\ UNCHANGED stored
         ELSE /\ Reply(c, "written")
              /\ stored' = [stored EXCEPT ![s] = [of |-> b, version |-> c.version]]
  /\ UNCHANGED <<entry, flush, shown, selector>>

ServerFails(b) == \E c \in {x \in calls : x.of = b} :
  Reply(c, "rejected") /\ UNCHANGED <<entry, flush, shown, selector, stored>>

\* entry.savedVersion = savingVersion
savingVersion(b) == worker[b].version

\* The write succeeded: the worker looks for newer text, or settles.
SaveAnswered(b) ==
  /\ Quiet /\ worker[b].at = "written"
  /\ LET e == [entry[b] EXCEPT !.savedVersion = savingVersion(b)]
         w == Send(e, worker[b])
     IN  /\ worker' = [worker EXCEPT ![b] = w]
         /\ entry' = [entry EXCEPT ![b] =
              [e EXCEPT !.status = IF w.at = "ok" THEN "saved" ELSE "saving"]]
         /\ calls' = IF w.at = "sent" THEN calls \cup {CallOf(b, e)} ELSE calls
  /\ UNCHANGED <<flush, shown, selector, stored>>

SaveRefused(b) ==
  /\ Quiet /\ worker[b].at = "rejected"
  /\ worker' = [worker EXCEPT ![b].at = "err"]
  /\ entry' = [entry EXCEPT ![b].status = "failed"]
  /\ UNCHANGED <<calls, flush, shown, selector, stored>>

\* Faulty: the results of the workers are not looked at.
ignoreResult(b) == FALSE

failedResult(b) == worker[b].at = "err"

\* The microtask after a worker settles: the entry forgets it and whoever
\* joined it gets its result.
ForgetWorker(b) ==
  /\ Settled(b)
  /\ worker' = [worker EXCEPT ![b].at = "none"]
  /\ flush' = IF b \in flush.joined
                THEN [flush EXCEPT !.joined = @ \ {b},
                                   !.failed = @ \/ failedResult(b)]
                ELSE flush
  /\ UNCHANGED <<entry, calls, shown, selector, stored>>

\* The branches that have an entry.
Queued == {b \in Branches : entry[b].version > 0}

\* flush: every entry is flushed; the caller waits for all of them.
Flush(change) ==
  /\ flush.at \in {"none", "ok", "failed"}
  /\ FlushEntries(Queued)
  /\ flush' = [at |-> IF change = NoChange THEN "flushing" ELSE "beforeChange",
               joined |-> Queued, failed |-> FALSE, change |-> change,
               upTo |-> [b \in Branches |-> entry[b].version]]
  /\ UNCHANGED <<shown, selector, stored>>

\* Leaving a screen, hiding the window, or pressing retry.
FlushNow == Flush(NoChange)

\* setSelectedOccurrenceRevision of the history panel: a placement is pinned to a
\* revision or follows the main branch.
ChooseRevision(o) == \E s \in {Pinned, Main} :
  Quiet /\ s # shown[o] /\ Flush([occ |-> o, to |-> s])

FlushReturns ==
  /\ flush.at \in {"flushing", "beforeChange"} /\ flush.joined = {}
  /\ flush' = [flush EXCEPT !.at =
       CASE flush.failed -> "failed"
         [] ~flush.failed /\ flush.at = "flushing" -> "ok"
         [] ~flush.failed /\ flush.at = "beforeChange" -> "changing"]
  /\ UNCHANGED <<entry, worker, calls, shown, selector, stored>>

\* The server makes the placement select something else.
SetOccurrenceRevision ==
  /\ flush.at = "changing"
  /\ selector' = [selector EXCEPT ![flush.change.occ] = flush.change.to]
  /\ flush' = [flush EXCEPT !.at = "reloading"]
  /\ UNCHANGED <<entry, worker, calls, shown, stored>>

Reload ==
  /\ Quiet /\ flush.at = "reloading"
  /\ shown' = selector
  /\ flush' = [flush EXCEPT !.at = "ok"]
  /\ UNCHANGED <<entry, worker, calls, selector, stored>>

Background(b) ==
  TimerFires(b) \/ ServerWrites(b) \/ ServerFails(b) \/ SaveAnswered(b)
    \/ SaveRefused(b) \/ ForgetWorker(b)

Next ==
  \/ \E o \in Occs : Queue(o) \/ ChooseRevision(o)
  \/ FlushNow \/ FlushReturns \/ SetOccurrenceRevision \/ Reload
  \/ \E b \in Branches : Background(b)

\* Timers fire and calls to the server return; the user need not do anything.
Fairness == \A b \in Branches : WF_vars(Background(b))

Spec == Init /\ [][Next]_vars /\ Fairness

-----------------------------------------------------------------------------
Versions == 0..MaxVersion

TypeOK ==
  /\ entry \in [Branches -> [version : Versions, savedVersion : Versions, occ : Occs,
       timer : BOOLEAN, status : {"saved", "unsaved", "saving", "failed"}]]
  /\ worker \in [Branches -> [version : Versions,
       at : {"none", "sent", "written", "rejected", "ok", "err"}]]
  /\ calls \subseteq [of : Branches, occ : Occs, version : Versions]
  /\ flush \in [at : {"none", "flushing", "beforeChange", "changing", "reloading",
                      "ok", "failed"},
                joined : SUBSET Branches, failed : BOOLEAN,
                change : [occ : Occs, to : Selectors],
                upTo : [Branches -> Versions]]
  /\ shown \in [Occs -> Selectors] /\ selector \in [Occs -> Selectors]
  /\ stored \in [Branches -> [of : Branches, version : Versions]]

\* A flush that returns without an error has saved everything that was typed
\* before it was called, also when it joined a worker that was already writing
\* something older: what leaving a screen relies on.
FlushSavesWhatWasTyped ==
  flush.at \in {"ok", "changing", "reloading"} =>
    \A b \in Branches : entry[b].savedVersion >= flush.upTo[b]

\* Writes are serialized per branch: an older draft never overwrites a newer one
\* of its branch, in whatever order the server answers.
WritesGoForward ==
  \A b \in Branches :
    stored[b].of = b /\ stored'[b].of = b => stored'[b].version >= stored[b].version

WritesNeverGoBack == [][WritesGoForward]_vars

\* A draft is written, or the user is told that it was not.
DraftsAreSavedOrReported ==
  \A b \in Branches : Unsaved(b) ~> ~Unsaved(b) \/ entry[b].status = "failed"

\* working_copy_autosave.ts:51, "A failed or in-flight draft remains available
\* to the UI so a subsequent reload cannot silently replace it": the newest
\* draft of a branch is still held as unsaved or is the text of the branch.
DraftsSurviveReload ==
  \A b \in Branches :
    Unsaved(b) \/ stored[b] = [of |-> b, version |-> entry[b].version]
=============================================================================
