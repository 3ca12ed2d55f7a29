----------------------------- MODULE FileExchange -----------------------------
(***************************************************************************)
(* The files that leave and enter the window: JSON backups, OPML and       *)
(* Markdown (JsonBackupController, OpmlController, MarkdownExportController *)
(* and the FileOperationState of the first two), with the restore and the  *)
(* import they ask the store for and the reload that shows the result.     *)
(*                                                                         *)
(* Of what the user writes there is one text, by version; an import or a   *)
(* restore changes the store, and a restore replaces the text with that of *)
(* the file (version 0).  An operation that is no longer the newest of its *)
(* controller runs on to its next await and stops there.  A refusal or an  *)
(* error ends an operation without a notice.                               *)
(***************************************************************************)
EXTENDS Naturals

CONSTANTS
  None,
  MaxTyped, MaxRequests  \* bounds on the edits and on the operations

VARIABLES
  typed, saved,  \* the version typed last, and the version saved last
  stored,        \* the store: its text, and how many files have changed it
  shown,         \* the outline on screen, likewise
  read,          \* the newest read of the outline, and for whom
  operations,    \* the operations under way
  generation,    \* per controller: its newest operation
  notice,        \* per controller: the operation whose success it announces
  requested,     \* how many operations there have been
  wiped          \* the text that the last restore replaced

vars ==
  <<typed, saved, stored, shown, read, operations, generation, notice, requested, wiped>>

Controllers == {"json", "opml", "markdown"}

NoRead == [at |-> "none", by |-> 0]

Init ==
  /\ typed = 0 /\ saved = 0 /\ stored = [text |-> 0, changes |-> 0] /\ shown = stored
  /\ read = NoRead /\ operations = {} /\ requested = 0 /\ wiped = 0
  /\ generation = [c \in Controllers |-> 0] /\ notice = [c \in Controllers |-> None]

-----------------------------------------------------------------------------
(* Typing, and the autosave that a flush waits for.                        *)

Type ==
  /\ typed < MaxTyped /\ typed' = typed + 1 /\ shown' = [shown EXCEPT !.text = typed + 1]
  /\ UNCHANGED <<saved, stored, read, operations, generation, notice, requested, wiped>>

Save ==
  /\ saved < typed /\ saved' = typed /\ stored' = [stored EXCEPT !.text = typed]
  /\ UNCHANGED <<typed, shown, read, operations, generation, notice, requested, wiped>>

-----------------------------------------------------------------------------
(* The operations.                                                         *)

Current(o) == generation[o.of] = o.id

Moves(o, p) == operations' = (operations \ {o}) \cup {p}

Ends(o) == operations' = operations \ {o}

\* run: a new operation revokes the older ones and clears the notice.
Request(c, kind) ==
  /\ requested < MaxRequests /\ requested' = requested + 1
  /\ generation' = [generation EXCEPT ![c] = requested + 1]
  /\ notice' = [notice EXCEPT ![c] = None]
  /\ operations' = operations \cup
       {[id |-> requested + 1, of |-> c, kind |-> kind, at |-> "flush", since |-> typed, got |-> 0]}
  /\ UNCHANGED <<typed, saved, stored, shown, read, wiped>>

\* Faulty: the autosave is not waited for.
noFlush(o) == TRUE

\* flushAutosave has saved what was typed before.
flushed(o) == saved >= o.since

\* A Markdown export renders what is on screen, and may still ask for the names behind
\* its references; the other exports ask for the file; an import reads it first.
AfterFlush(o) ==
  IF ~Current(o) THEN Ends(o)
  ELSE IF o.of = "markdown" THEN Moves(o, [o EXCEPT !.at = "answered", !.got = shown.text])
  ELSE Moves(o, [o EXCEPT !.at = IF o.kind = "export" THEN "call" ELSE "text"])

FlushEnds(o) ==
  /\ o.at = "flush" /\ flushed(o) /\ AfterFlush(o)
  /\ UNCHANGED <<typed, saved, stored, shown, read, generation, notice, requested, wiped>>

\* runFile: a revoked operation does not begin its call.
FileIsRead(o) ==
  /\ o.at = "text"
  /\ IF Current(o) THEN Moves(o, [o EXCEPT !.at = "call"]) ELSE Ends(o)
  /\ UNCHANGED <<typed, saved, stored, shown, read, generation, notice, requested, wiped>>

\* exportGraphState, the export of OPML
ExportServed(o) ==
  /\ o.at = "call" /\ o.kind = "export"
  /\ Moves(o, [o EXCEPT !.at = "answered", !.got = stored.text])
  /\ UNCHANGED <<typed, saved, stored, shown, read, generation, notice, requested, wiped>>

\* restoreGraphState and the import of OPML: as a whole, the one replaces what is there,
\* the other adds to it.
ImportServed(o) ==
  /\ o.at = "call" /\ o.kind = "import"
  /\ stored' = [text |-> IF o.of = "json" THEN 0 ELSE stored.text,
                changes |-> stored.changes + 1]
  /\ wiped' = IF o.of = "json" THEN saved ELSE wiped
  /\ Moves(o, [o EXCEPT !.at = "answered", !.got = stored.changes + 1])
  /\ UNCHANGED <<typed, saved, shown, read, generation, notice, requested>>

\* A flush, a file, a call or the load of the relation types fails; a backup that cannot
\* be decoded is refused before it touches the store.
OperationFails(o) ==
  /\ o.at # "reload" /\ Ends(o)
  /\ UNCHANGED <<typed, saved, stored, shown, read, generation, notice, requested, wiped>>

Announce(o) == notice' = [notice EXCEPT ![o.of] = o]

\* The file is downloaded.
ExportAnswered(o) ==
  /\ o.at = "answered" /\ o.kind = "export" /\ Ends(o)
  /\ IF Current(o) THEN Announce(o) ELSE UNCHANGED notice
  /\ UNCHANGED <<typed, saved, stored, shown, read, generation, requested, wiped>>

\* OutlineController.begin: the drafts of this moment are kept with the read.
Begun(id) == [at |-> "sent", by |-> id, since |-> typed, draft |-> saved < typed, snapshot |-> None]

\* After a restore the relation types are loaded, then the outline.
ImportAnswered(o) ==
  /\ o.at = "answered" /\ o.kind = "import"
  /\ IF ~Current(o) THEN Ends(o) /\ UNCHANGED read
     ELSE IF o.of = "json" THEN Moves(o, [o EXCEPT !.at = "relations"]) /\ UNCHANGED read
     ELSE Moves(o, [o EXCEPT !.at = "reload"]) /\ read' = Begun(o.id)
  /\ UNCHANGED <<typed, saved, stored, shown, generation, notice, requested, wiped>>

RelationsLoaded(o) ==
  /\ o.at = "relations"
  /\ IF Current(o) THEN Moves(o, [o EXCEPT !.at = "reload"]) /\ read' = Begun(o.id)
     ELSE Ends(o) /\ UNCHANGED read
  /\ UNCHANGED <<typed, saved, stored, shown, generation, notice, requested, wiped>>

-----------------------------------------------------------------------------
(* The read of the outline.                                                *)

\* Another feature reloads, or a navigation takes over the publication.
OtherReload ==
  /\ read.by # 0 /\ read' = Begun(0)
  /\ UNCHANGED <<typed, saved, stored, shown, operations, generation, notice, requested, wiped>>

ReadServed ==
  /\ read.at = "sent" /\ read' = [read EXCEPT !.at = "served", !.snapshot = stored]
  /\ UNCHANGED <<typed, saved, stored, shown, operations, generation, notice, requested, wiped>>

\* publish: drafts, and what was typed during the read, stay on screen.
Published ==
  [read.snapshot EXCEPT !.text = IF read.draft \/ typed # read.since THEN typed ELSE @]

OtherReadPublishes ==
  /\ read.at = "served" /\ read.by = 0
  /\ shown' = Published /\ read' = NoRead
  /\ UNCHANGED <<typed, saved, stored, operations, generation, notice, requested, wiped>>

\* The read of an operation publishes while the operation is current.
ReloadEnds(o) ==
  /\ o.at = "reload" /\ read.at = "served" /\ read.by = o.id
  /\ read' = NoRead /\ Ends(o)
  /\ IF Current(o) THEN shown' = Published /\ Announce(o) ELSE UNCHANGED <<shown, notice>>
  /\ UNCHANGED <<typed, saved, stored, generation, requested, wiped>>

\* Faulty: the result of the reload is not looked at.
alwaysAnnounced(o) == Current(o)

\* reload returned false: nothing is announced.
announced(o) == FALSE

\* The read was superseded, or failed.
ReloadLost(o) ==
  /\ o.at = "reload" /\ Ends(o)
  /\ read' = IF read.by = o.id THEN NoRead ELSE read
  /\ IF announced(o) THEN Announce(o) ELSE UNCHANGED notice
  /\ UNCHANGED <<typed, saved, stored, shown, generation, requested, wiped>>

Next ==
  \/ Type \/ Save \/ OtherReload \/ ReadServed \/ OtherReadPublishes
  \/ \E c \in Controllers : Request(c, "export")
  \/ \E c \in {"json", "opml"} : Request(c, "import")
  \/ \E o \in operations :
       \/ FlushEnds(o) \/ FileIsRead(o) \/ ExportServed(o) \/ ImportServed(o)
       \/ OperationFails(o) \/ ExportAnswered(o) \/ ImportAnswered(o) \/ RelationsLoaded(o)
       \/ ReloadEnds(o) \/ ReloadLost(o)

Spec == Init /\ [][Next]_vars

-----------------------------------------------------------------------------
\* A success that is announced is the success of the newest operation of its
\* controller.  After an import the outline on screen has it; an exported file has
\* everything that was typed before it was asked for, unless a restore replaced it.
NoticesAreTrue ==
  \A c \in Controllers : notice[c] # None =>
    LET o == notice[c] IN
      /\ o.id = generation[c]
      /\ o.kind = "import" => shown.changes >= o.got
      /\ o.kind = "export" => o.got >= o.since \/ o.since <= wiped
=============================================================================
