---------------------------- MODULE BranchService ----------------------------
(***************************************************************************)
(* BranchService on the branches of one work: operations that read all     *)
(* branches, await, and write one full branch record (archive, promote,    *)
(* unpromote), and two that take two commits: makeMain, which advances     *)
(* main and then its draft and puts main back if that fails, and           *)
(* detachAsIndependentWork, which creates a work and then its FROM link.   *)
(* Drafts are saved and revisions created by other services meanwhile.     *)
(*                                                                         *)
(* Revisions are numbered in the order of creation; a text is a value.     *)
(***************************************************************************)
EXTENDS Naturals, Sequences

CONSTANTS
  Branches, main,   \* the branches of the work, and the one named "main"
  Texts,
  Callers,
  MaxRevs,          \* a bound on the revisions
  MaxCalls          \* a bound on the calls

VARIABLES
  branch,   \* the branch records
  draft,    \* the texts of the working copies
  revs,     \* the texts of the revisions
  detached, \* the works detached so far: where each one's FROM link is
  call,     \* for each caller its call under way
  calls,    \* how many calls there have been
  meant,    \* the branch records, had every call succeeded at once or not happened
  excused   \* the branches written by a call that had read them before others
            \* wrote, or left behind by a rollback that failed itself

vars == <<branch, draft, revs, detached, call, calls, meant, excused>>

Idle == [op |-> "none"]

Init ==
  /\ \E t \in Texts : revs = <<t>> /\ draft = [b \in Branches |-> t]
  /\ branch = [b \in Branches |-> [head |-> 1, archived |-> FALSE, promoted |-> FALSE]]
  /\ detached = <<>> /\ calls = 0 /\ meant = branch /\ excused = {}
  /\ call = [c \in Callers |-> Idle]

-----------------------------------------------------------------------------
(* Other services.                                                         *)

\* Every call holds branch b as it was before this write.
Overtaken(b) ==
  [c \in Callers |-> IF call[c] = Idle THEN Idle ELSE [call[c] EXCEPT !.stale = @ \cup {b}]]

SaveDraft == \E b \in Branches, t \in Texts :
  /\ draft[b] # t /\ draft' = [draft EXCEPT ![b] = t]
  /\ UNCHANGED <<branch, revs, detached, call, calls, meant, excused>>

\* appendRevisionToBranch
CreateRevision == \E b \in Branches :
  /\ ~branch[b].archived /\ Len(revs) < MaxRevs
  /\ revs' = Append(revs, draft[b])
  /\ branch' = [branch EXCEPT ![b].head = Len(revs) + 1]
  /\ meant' = [meant EXCEPT ![b].head = Len(revs) + 1]
  /\ call' = Overtaken(b)
  /\ UNCHANGED <<draft, detached, calls, excused>>

-----------------------------------------------------------------------------
(* The calls.                                                              *)

\* requireHeadRevision, and no draft that is not confirmed.
Confirmed(b) == branch[b].head # 0 /\ draft[b] = revs[branch[b].head]

\* What the first lines of each operation require; an early return changes nothing.
Allowed(op, b) ==
  CASE op = "archive" -> b # main /\ ~branch[b].archived
    [] op = "promote" -> ~branch[b].archived /\ ~branch[b].promoted
    [] op = "unpromote" -> branch[b].promoted
    [] op = "makeMain" -> b # main /\ ~branch[b].archived /\ Confirmed(b)
    [] OTHER -> ~branch[b].archived /\ Confirmed(b)

Begin(c) == \E op \in {"archive", "promote", "unpromote", "makeMain", "detach"}, b \in Branches :
  /\ call[c] = Idle /\ calls < MaxCalls /\ Allowed(op, b)
  /\ calls' = calls + 1
  /\ call' = [call EXCEPT ![c] =
       [op |-> op, of |-> b, at |-> "read", seen |-> branch, stale |-> {}, work |-> 0]]
  /\ UNCHANGED <<branch, draft, revs, detached, meant, excused>>

\* The store refuses the first write: nothing has happened.
Refused(c) ==
  /\ call[c] # Idle /\ call[c].at = "read"
  /\ call' = [call EXCEPT ![c] = Idle]
  /\ UNCHANGED <<branch, draft, revs, detached, calls, meant, excused>>

\* The write of a branch record as it was read, with one change.
Write(c, b, rec, done) ==
  /\ branch' = [branch EXCEPT ![b] = rec]
  /\ excused' = excused \cup ({b} \cap call[c].stale)
  /\ call' = [Overtaken(b) EXCEPT ![c] = done]

\* archiveBranch, promoteBranch, unpromoteBranch.
WriteRecord(c) ==
  LET k == call[c] IN
  /\ k.op \in {"archive", "promote", "unpromote"}
  /\ Write(c, k.of,
           [k.seen[k.of] EXCEPT !.archived = (@ \/ k.op = "archive"),
                                !.promoted = (@ \/ k.op = "promote") /\ k.op # "unpromote"],
           Idle)
  /\ meant' = [meant EXCEPT ![k.of].archived = (@ \/ k.op = "archive"),
                            ![k.of].promoted = (@ \/ k.op = "promote") /\ k.op # "unpromote"]
  /\ UNCHANGED <<draft, revs, detached, calls>>

\* makeMain, its first commit.
AdvanceMain(c) ==
  LET k == call[c]
      head == k.seen[k.of].head
  IN  /\ k.op = "makeMain" /\ k.at = "read"
      /\ Write(c, main, [k.seen[main] EXCEPT !.head = head], [k EXCEPT !.at = "syncing"])
      /\ meant' = [meant EXCEPT ![main].head = head]
      /\ UNCHANGED <<draft, revs, detached, calls>>

\* makeMain, its second commit.
SyncDraft(c) ==
  LET k == call[c] IN
  /\ k.op = "makeMain" /\ k.at = "syncing"
  /\ draft' = [draft EXCEPT ![main] = revs[k.seen[k.of].head]]
  /\ call' = [call EXCEPT ![c] = Idle]
  /\ UNCHANGED <<branch, revs, detached, calls, meant, excused>>

\* The store refuses the second commit: makeMain is not to have happened.
SyncFails(c) ==
  LET k == call[c] IN
  /\ k.op = "makeMain" /\ k.at = "syncing"
  /\ call' = [call EXCEPT ![c].at = "restoring"]
  /\ meant' = [meant EXCEPT ![main].head = k.seen[main].head]
  /\ UNCHANGED <<branch, draft, revs, detached, calls, excused>>

\* Faulty: the head of main stays advanced.
keepAdvanced(seen) == branch[main]

\* await this.store.updateBranch(main)
restored(seen) == seen[main]

RestoreMain(c) ==
  /\ call[c].op = "makeMain" /\ call[c].at = "restoring"
  /\ Write(c, main, restored(call[c].seen), Idle)
  /\ UNCHANGED <<draft, revs, detached, calls, meant>>

\* The AggregateError.
RestoreFails(c) ==
  /\ call[c].op = "makeMain" /\ call[c].at = "restoring"
  /\ excused' = excused \cup {main}
  /\ call' = [call EXCEPT ![c] = Idle]
  /\ UNCHANGED <<branch, draft, revs, detached, calls, meant>>

\* detachAsIndependentWork: the work, its branch, draft and placement.
CreateBundle(c) ==
  /\ call[c].op = "detach" /\ call[c].at = "read"
  /\ detached' = Append(detached, "none")
  /\ call' = [call EXCEPT ![c].at = "linking", ![c].work = Len(detached) + 1]
  /\ UNCHANGED <<branch, draft, revs, calls, meant, excused>>

\* createLink throws, and so does the call: the work stays, without its link.
CreateLink(c) == \E result \in {"linked", "reported"} :
  /\ call[c].op = "detach" /\ call[c].at = "linking"
  /\ detached' = [detached EXCEPT ![call[c].work] = result]
  /\ call' = [call EXCEPT ![c] = Idle]
  /\ UNCHANGED <<branch, draft, revs, calls, meant, excused>>

Next ==
  \/ SaveDraft \/ CreateRevision
  \/ \E c \in Callers :
       \/ Begin(c) \/ Refused(c) \/ WriteRecord(c)
       \/ AdvanceMain(c) \/ SyncDraft(c) \/ SyncFails(c) \/ RestoreMain(c) \/ RestoreFails(c)
       \/ CreateBundle(c) \/ CreateLink(c)

Spec == Init /\ [][Next]_vars

-----------------------------------------------------------------------------
\* Every call on a branch leaves what it was asked for or, when it fails, what was
\* there, also when makeMain fails between its two commits, unless a call wrote
\* a branch that others had changed since it was read.
BranchesAreAsAsked ==
  \A b \in Branches \ excused :
    (\A c \in Callers : call[c] # Idle => call[c].at # "restoring") => branch[b] = meant[b]
=============================================================================
