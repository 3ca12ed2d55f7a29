# Radiora: specifications and proofs

Radiora is a desktop outliner for long-lived writing. A *work* (its text, branches,
revisions, recovery snapshots) may be placed at several points of one outline; each
placement is an *occurrence* that shows a branch or a pinned revision of its work.
A window (Svelte) talks to a local process (Deno), which keeps the whole graph in
memory and writes it to one SQLite file. This directory models the parts of it whose
correctness depends on order, failure or long sequences of legal calls.

Paths below are relative to `src/src/`.

## Inventory

| Component | State | Operations | What makes it correct |
|---|---|---|---|
| Graph state in memory (`storage/memory_store.ts`, `memory_state_container.ts`) | arrays of works, branches, drafts (working copies), revisions, snapshots, occurrences, links, suggestions, bookmarks; the resume position; purge manifests | one method per mutation | every reference leads somewhere; one main branch per work |
| Validation (`storage/graph_state_validation.ts`, `graph_mutation_validation.ts`) | none | checks a whole graph before each commit, single records before some mutations | refuses only what could not be loaded again, and no operation the user may ask for |
| Trash, restore, purge (`storage/memory_work_lifecycle.ts`) | `deletedAt` of works, manifests | trash, restore, purge, orphan cleanup | nothing is lost outside the trash; nothing hangs under an item that is gone |
| Merging works (`storage/memory_store_operations.ts`, `services/work_merge_service.ts`) | `mergedIntoWorkId` | preview, merge | a merged work keeps nothing; survivors end; links stay distinct |
| Revisions, branches, rewrites (`services/revision_service.ts`, `branch_service.ts`) | revision DAG, branch heads, drafts | checkpoint, manual merge, rewrite as new branch (two commits), archive, promote, detach, make main | history only grows; a branch stays in its lineage and its work |
| Recovery snapshots (`services/recovery_snapshot_service.ts`, `snapshot_policy.ts`) | snapshots | create, restore, promote, retention | the draft a restore replaces is kept; what is pruned is represented by something newer |
| Outline items (`services/occurrence_operations.ts`) | occurrences, order keys | create, place, edit, move, pin, delete with promotion, discard empty ones | deletion promotes children, discards spare what has any; nothing is left under an item that is gone |
| Inbox and stubs (`services/quick_capture_service.ts`, `stub_service.ts`) | unplaced works | capture, list (trashes blanks), resolve | what is blank goes to the trash, nothing disappears |
| Navigation (`services/navigation_service.ts`) | bookmarks, resume position | set, clear, resolve with fallback | a missing occurrence falls back |
| Links and suggestions (`services/semantic_link_operations.ts`, `emergence_persistence.ts`) | links, suggestions | create, retract, materialize, hold, dismiss, accept | decisions are final; no duplicate links |
| SQLite persistence (`storage/sqlite_persistence.ts`, `sqlite_records.ts`, `sqlite_targeted_mutations.ts`) | chain of promise gates, batch context, rows | mutate, batch, targeted mutation, close, initialize | each call takes effect as a whole or not at all |
| JSON persistence (`storage/json_persistence.ts`) | as above, one file | as above, direct writes | what a failed save leaves behind |
| Working copy autosave (`services/working_copy_autosave.ts`) | per branch: draft, versions, timer, worker, status | queue, flush, retry | no draft is lost, or the user knows |
| Resume position autosave (`services/resume_position_autosave.ts`) | one pending position | queue, flush | the last position wins |
| Process start (`main.ts`, `storage/storage_bootstrap.ts`) | status, the bootstrap under way, the open store | bootstrap, retry, stop | one store at a time on the database |
| Window start (`ui/startup_controller.svelte.ts`, snapshot cache) | phase, load generation, cached snapshot | poll, retry, reload, show cache, be revoked | an older load never replaces a newer one; the window learns how the start ended |
| Branch service (`services/branch_service.ts`) | branch records | archive, promote, make main (two commits), detach (two commits) | a failed second commit is made good |
| Outline in the window (`ui/outline_controller.svelte.ts`, `screen_navigation_workspace.svelte.ts`) | snapshot, generation of reads, drafts laid over it | reload, publish, toggle, navigate | what is typed or toggled is not undone by an older read |
| Panels (`ui/history_controller.svelte.ts`, `emergence_`, `tree_`, `bookmark_`, `omni_search_`, `link_editor_`, `editor_completion_`, `licenses_controller.svelte.ts`) | what is shown, the number of the newest request | load, clear, search, operate and load again | the answer that is shown is for what is selected now |
| Selection and the form (`ui/occurrence_selection_workspace.ts`, `historical_time_controller.svelte.ts`, `services/browsing_navigation_state.ts`) | selected placement, panes, unsaved form, pending request | select, hoist, switch pane, navigate, save, discard, cancel, reconcile | unsaved input leaves the form only as the user decides |
| Manuscripts (`ui/long_form_controller.svelte.ts`) | open work, text, the save under way | input, save, cancel, set mode | no text is lost, none goes to another work |
| Legacy migration (`storage/turso_migration.ts`) | copy, imported file, marker | migrate, check completion, require it at a start | no crash loses or shadows data |
| Tags (`services/tag_service.ts`) | aliases, which only accumulate | rename, merge, resolve a name | after any sequence of renames and merges a tag has the name that the last of them gave it |
| Files in the window (`ui/file_operation_state.svelte.ts`, `json_backup_`, `opml_`, `markdown_export_controller.svelte.ts`) | the number of the newest operation, a notice | export, import, restore, each with a flush, a call and a reload | what is announced is true |
| Empty items (`ui/pending_empty_item_controller.svelte.ts`, `pending_empty_item_storage.ts`) | the items created empty, in memory and in the storage of the browser | remember, forget, discard when the focus leaves and at a start | empty items go, nothing written goes with them |
| Virtual outline (`ui/outline_virtual_viewport_controller.svelte.ts`, `virtual_outline_viewport.ts`, `outline_virtual_view_adapter.ts`) | measured heights, the place that is read, pinned rows, the scroll position | refresh, measure, scroll, correct, focus, compose | what is in use is drawn; the place that is read does not move |
| Knots and marks (`services/occurrence_knot_detection.ts`) | derived from parents | detect cycles, mark recursive placements | each cycle once; the outline drawn is finite |
| Family tree (`ui/tree_lineage_cycles.ts`, `tree_lineage_projection.ts`, `tree_lane_order.ts`, `tree_layout.ts`, `tree_spatial_aggregation.ts`) | derived from links, parents and positions | find cycles of links, number generations, order and assign lanes, draw colliding nodes as one | the knot is what lies on a cycle; labels of a lane do not overlap; what is drawn as one collides |
| Search, rule queries, parsers, exporters, drawing, logs | derived | pure | not modelled (below) |

Calls go from the window through bindings to a service, which reads the store (memory)
across several awaits and then calls one or a few mutations. Mutations queue in
`SqlitePersistence`; what the queue writes is the difference between two exports of
memory, and every full mutation is validated as a whole graph. The window keeps its
own copy of the outline and of unsaved drafts.

Hard to test: interleavings of calls in the queue, failures and crashes between a change
of memory and its commit, drafts typed while a write or a reload is under way, a rewrite
that is half done when its work is merged or purged, and long sequences of merge, trash,
restore, purge and delete over shared placements and parent cycles. `PROJECT.json`
lists each hazard at its line and the properties that cover it.

## Modules

| Module | Models |
|---|---|
| `GraphStore` | the graph, the operations of the services on it, and the validation that guards each commit |
| `SqlitePersistence` | how calls queue, change memory, and are written or rolled back; crash, restart and close |
| `DurableStore` | what a store promises: the abstract specification that `SqlitePersistence` implements |
| `WorkingCopyAutosave` | drafts in the window, their workers and timers, flushes, and the change of what a placement shows |
| `JsonPersistence` | the same queue over one JSON file, with its three kinds of failure |
| `LegacyMigration` | the migration tool, the check at each start, and a user who runs old versions, moves the legacy data, and loses and restores files |
| `OccurrenceEditing` | the operations on placements split at their awaits, order keys, batches |
| `BranchService` | the operations on branches in their separate commits |
| `OutlineStructure` | the two walks of knot detection, step by step |
| `Lineage` | the cycles of links (Tarjan's algorithm, unrolled) and the generations of the other works |
| `TreePicture` | the order of the lanes, the lanes, and the collisions on the screen |
| `Startup` | the process opening its store, and the window waiting for it |
| `OutlineWindow` | one row of the outline on screen against edits, saves, reads and navigations |
| `PanelReads` | ten panels that read the process, one followed at a time |
| `Selection` | selection, panes, the form for historical time, and navigation as far as it asks the form |
| `LongForm` | a manuscript, its save loop, and the navigations that open and close it |
| `FileExchange` | exports, imports and restores in the window, from their flush to their notice |
| `OutlineViewport` | the rows that are drawn, and the scroll position against the browser's own |
| `PendingItems` | the items that were left empty, and the window's operations that discard them |
| `SnapshotPolicy` | when a recovery snapshot is due and which ones stay, pruned again and again |
| `SnapshotSpans` | its spans and periods of time, and what is assumed of them |
| `Tags` | renaming and merging tags through aliases |
| `TagNames` | what renames and merges promise: the abstract specification that `Tags` implements |
| `MC...` | instances of these for TLC; `MCStorage`, `MCServices`, `MCWindow`, `MCViews` hold several |
| `GraphStoreProofs`, `GraphInvariantProofs`, `SqlitePersistenceProofs`, `StorageProofs`, `ServiceProofs`, `CallProofs`, `WindowProofs`, `ViewProofs` | theorems |

**`GraphStore`.** `graph` is one record; each array of `MemoryStateContainer` is a
function from the ids in it to their records. Every mutation is an operator from graph
to graph, named like the function it translates; the actions add the checks of the
services. `Commit` is `commitFullMutation`: the new graph is kept if
`validatedGraphStateSnapshot` (`Valid`, conjunct by conjunct) accepts it, else the old
one stays and `refused` names the operation. `rewriting` is the state of
`rewriteAsNewBranch` between its two commits; everything else may happen in between.
`issued` remembers the occurrence ids that were used (ids are UUIDs and never come
back): a creation or a move may name any of them as the parent, also one that is gone by
the time it runs, because neither the service nor the validation looks
(`services/occurrence_operations.ts:59` and `182`, `validateOccurrences`); only placing an
existing work a second time does. A text is only blank or not blank. Two active links of the
same type are told apart by their ends and origin. `related` are the works in an `IN`
relation: no operation makes one any more, but a restored backup of the first format may
hold some (`migrateBackupV0`), and the validation of a purge looks at them; so the first
state is a new store or such a backup.

**`SqlitePersistence`.** `mem` and `disk` are functions from records to values, and a
service asks for a set of writes. A caller is queued, running, persisting or failing;
two actions are separated by an await, so anything another caller, a close or a crash
can do comes in between. Which states are valid is a constant, so that the results
hold for whatever the validation accepts. A targeted mutation may fail on its own
record, is not validated as a whole, and rolls back one record. `LateWrite` is work that
a batch left behind and that calls the store after the batch context expired.

**`DurableStore`.** One stored state, a line of callers, and answers: the head of the
line either succeeds (its writes apply, the result is valid) or fails without a trace;
death clears the line and nothing else. The refinement maps the rows to `stored`, the
gates to `line` and the phases to answers; memory, rollback and life are hidden.

**`WorkingCopyAutosave`.** A draft is the number of the edit that made it. `entry` and
`worker` are the two halves of `PendingWorkingCopy`, `calls` the writes on their way,
`shown` and `selector` what a placement selects in the window and in the store. A worker
that settles is forgotten in a microtask, before the next timer, input or answer is
handled: the guard `Quiet` on every action that starts from such an event. Without it
the coordinator would strand drafts.

**`JsonPersistence`.** The queue is that of `SqlitePersistence`, but what a failure leaves
depends on the kind of the call: an ordinary mutation keeps what it did to memory
(`kept`), the others put the state before it back. Ordinary saves write the file in
place, so a failure or a crash in the middle leaves it `Torn` (`damaged`) and the next
start fails; a batch writes beside it and renames.

**`LegacyMigration`.** A database is the version of the legacy data that it holds and the
number of edits since. The tool fingerprints, copies, looks at the target, imports, renames
and writes its marker, and may be killed between any two; the legacy data may change at any
time, because the older program is still there (`LegacyChanges`). The user may take the
legacy data away and put any version back (`LegacyMoves`), lose the new database or its
marker (`LoseFile`), and put either back beside the other one it belongs to, as the message
of a refused start says (`PutBack`), also while the tool runs. Two assumptions: legacy data and files are taken away
only while neither program runs, and a database is not replaced while it is open (Windows
refuses the rename; elsewhere the application would go on with a file that has no name any
more). `unvouched` is set when a database is made beside a marker that was not written for
it: by a start without legacy data, or by an import until its own marker is written.

**`OccurrenceEditing`.** An operation reads (`Read`), and writes a full record
computed from what it read (`WriteRecord`); batches exclude other writes, not reads.
`meant` is the outline had every call taken effect at once, `raced` the placements
that a call overwrote although others had written since it read: that such calls undo
each other is what the code does, and the properties are about the rest. Children of such a
placement that a deletion promotes follow where it is, not where it was meant to be, and so
count as overwritten too. Keys are integers, so that halving runs out of room as the digits
of a double do; `OrderIsAsAsked` speaks of calls with room enough (`Roomy`, and a step that
can be halved once for each promoted child).

**`BranchService`.** `makeMain` advances main, then its draft, and puts main back if that
fails; putting back may fail too (`excused`, an AggregateError in the code). Its callers
in the repository are tests only: the window lists lineages and rewrites.

**`OutlineStructure`.** Checked over all parent functions, cyclic ones and ones with
missing parents included, and all assignments of two works: `Cycles` and `Above` are
set definitions that share nothing with the walks.

**`Lineage`, `TreePicture`.** One step is one turn of a loop of the code; `LineageIsRight` and
the properties of `TreePicture` are definitions by paths and by pairs of nodes, with which
the stacks, the segment tree and the cells share nothing. `Lineage` takes any ready work as
the next, where the code keeps a queue. The three parts of `TreePicture` (`stage`) have
inputs of their own: items with parents, keys and links; nodes from left to right, each
with an interval; positions on the screen. Of a bucket the code keeps what its few
comparisons need, here the extremes of a set. Pixels are whole numbers, and a cell is 3 by
2 of them instead of 48 by 36.

**`Startup`.** A task is an async function of the window suspended at an await, with the
generation it began in; the process serves its request at one moment and the window
receives the answer at a later one. Data is a version number, so that "older" has a
meaning; `revoked` remembers a navigation made while the status was `starting`.

**`OutlineWindow`, `PanelReads`, `Selection`, `LongForm`.** All of them separate sending,
serving and receiving, and everything the user may do comes in between. `OutlineWindow`
follows the text and the collapse of one row through drafts, receipts of reads and the
loop of `finishPreparation`. `PanelReads` has one action per kind of request and one
`...Current` operator per controller, which is its own test of whether an answer is still
wanted. In `Selection` a request that meets unsaved input waits for the user, as a
navigation does. In `LongForm` each call of `save` waits, flushes, writes and reloads
on its own, and shares `promise` with the others.

**`FileExchange`.** One operation is a record that moves from await to await; the newest of
a controller is `generation`. The text on screen is a version, and the store has besides
it the number of files that have changed it, so that "the outline has the import" and "the
file has what was typed" can be said. Three controllers share the outline's reads.

**`OutlineViewport`.** The controller, the window of rows it computes, and the adapter that
measures rows and scrolls. The browser is the variable `top`: it cuts the position off at
the end of the content at once, and says so in an event (`ScrollEvent`) that may come
before or after the animation frame (`Frame`) in which the adapter corrects the position.
`place` is where the user reads, known to the model only; `strayed` is set when the row
that is read is gone or the browser has cut the position off. Heights and positions are
whole numbers; an offset is a sum of heights (`Sums`). A drag pins its row as a selection does and is not an action of its own.

**`PendingItems`.** An item is a placement with a parent and a text that is blank or not;
`snapshot` is the outline of the window, `items` that of the process. An operation is a
record that waits for its flush, is sent, answered and reloads; `heard` is false when the
window that asked is gone. What is remembered is in memory (`pendingIds`) and in the storage
of the browser (`persisted`), which may fail to take any write (`Persists`: `persist` only
reports it) and to give the record back at a start. `tracked`, `written`, `nested`, `held` and
`handled` remember what happened to an item, `unwritten` and `unread` what the browser has not
taken or not given back. A draft is saved in one step: how, is `WorkingCopyAutosave`.

**`SnapshotPolicy`.** Nothing in the repository calls the policy yet
(`docs/design/product-direction.md:825`), so its caller here may edit, take, name and prune
at any time. Time is a counter, and spans and calendar periods are constants; bytes of
texts are numbers. `taken` remembers every snapshot there ever was.

**`Tags`, `TagNames`.** The service stores an alias per call and never removes one; a name is
resolved by the largest alias that has it, and the newest of these. `TagNames` has the
canonical name of each tag as its only state, and one step that gives the target's name to
a whole class. `misled` is set when two calls overlap, or when a clock that stood still or
was set back orders two aliases wrongly: then the code promises nothing, and the
refinement (`KeepsPromise`) ends.

## Runs

| Run | Instance | Shows |
|---|---|---|
| `graph` | 2 works, 3 placements; or 2 placements with bookmark, resume position, link and suggestion | which operations leave a placement under a parent that is gone; which ones validation may refuse, and why; decisions on suggestions are final |
| `merging` | 3 works, 3 branches, 1 revision, 2 links | merged works keep nothing, survivors end, active links stay distinct |
| `history` | 2 works, 3 branches, 3 revisions, 2 snapshots, at most 4 of both (3 when there are 2 works), no blank drafts | main branches; nothing lost; which operations on history validation may refuse; a branch never starts another history |
| `commits` | 2 callers, 2 records of 2 values that may not both be set | the file is always loadable; memory is the file between calls; refinement of `DurableStore` |
| `storage` | JSON: 2 callers; SQLite: 2 callers, 1 record; migration: 3 versions, 2 edits, 2 lost files | what the JSON file and memory are after failures; every call of either queue is answered; the SQLite store closes; no legacy data is shadowed and no edit lost, but in the cases that the properties name |
| `services` | 2 callers, 2 calls; two outlines of 3 placements and one new; 2 branches, 2 revisions; 3 snapshots in 8 instants; 3 tags, 3 renames or merges, 3 instants; 3 empty or split items with 5 acts of the user and 2 operations at a time; all outlines of 4 items; all lineages of 4 works with at most 5 links; 3 items with parents, keys and links in lanes, 5 nodes with intervals, 4 nodes on a screen of 6 by 4 | calls that do not race do what was asked; order is as asked; a failed `makeMain` is put back; what is pruned is represented; tags keep what renames and merges promised; empty items are remembered, as far as the browser keeps the record, and discarded, and no text with them; knots are the cycles; generations are longest paths; lanes are free and clusters are collisions |
| `window` | 2 branches, 2 placements, 2 edits each; start with 2 versions and 3 acts of the user | a flush saves what was typed; writes do not go back; drafts are saved or reported; one store at a time; a cached outline is inert; what is shown never goes back; the start is answered |
| `views` | a row with 3 edits; 10 panels with 3 requests, 1 operation; 3 placements in 2 panes with 2 navigations, reloads or saves, of these 1 save; 2 manuscripts with 2 edits and 2 saves; 2 file operations with 2 edits; 3 rows of heights 2 and 3 in a viewport of 2, with 2 changes and 3 gestures | what is on screen is up to date; panels show their subject; unsaved input is kept; the form is of the selection; manuscripts are kept; notices are true; rows in use are drawn and the place that is read stays |
| `rewrite_main`, `reload`, `startup_stuck`, `manuscripts` | small | four disagreements of the code with its own tests, comments and docs (below) |

`storage`, `services`, `window` and `views` each choose one of their modules at the start
(`storageMode`, `scene`) and let the variables of the others stand still: components that
do not share state are not multiplied with each other.

Bounds. Ids are finite pools; an operation that needs a new id stops when its pool is
empty, and an empty pool switches a part of the graph off. Two works are what a merge or
a dangling reference needs; three make a chain of merges. Three placements make a parent
cycle with a child outside, and a grandchild. Two branches are two mains that meet in a
merge, a third is the rewrite. Two links are what a merge can make equal. Constraints
(`Uncited`, `NoStubs`, `NoBlanks`, `ShortHistory`, `OutlineOrCited`) only cut what another
run covers, and are state constraints, so the transitions up to them are checked.
`OutlineOrCited` splits `graph` into outlines of three placements with text and nothing that
cites them, outlines of two with blank texts and stubs, and two placements with everything
that may cite them; a discard of empty items, which need blank texts, meets its refusals in
the last and its children in the second. `ShortHistory` leaves two revisions and a snapshot
beside a merge, and more to a single work; `HeadsShareHistory` and the rest of `history` are proved
without either bound.
`NotAbandoned` stops `views` where `manuscripts` begins. Symmetry is used in runs without
liveness properties only; ids carry no order in the code, and where they do (the order of
creation in `OccurrenceEditing`, `BranchService`, `OutlineStructure`) they are numbers.
In `Selection` two calls are a navigation and a reload that takes its target away, or one of
them and a save with the reload that follows it; the theorems have no such bound.
Two callers suffice for every pair of neighbours in the queue, and two
records make a request that is half written and a validity that depends on both.
`MaxVersion = 2` of the drafts is an edit before and one during a write, or during a
flush. Three versions of legacy data are one before, one during and one after a
migration. Two calls on placements are all pairs of operations; a key distance of 4
(`ORDER_STEP`) is halved twice before it is used up. Three user acts during the start are a
navigation, an edit and a retry in any order. Three requests of a panel are an old, a
displaced and a new one. `MaxTexts = 2` and `MaxCalls = 2` in a manuscript are an edit
during a save, and a call that joins a save. Four items make two cycles, or a
cycle with a tail of two; five links between four works are a cycle with a chord, entered
and left (without the bound, all digraphs on four works were checked once as well). Four
nodes on two by two cells and more are two buckets of two that meet at a corner. The spans
of `SnapshotPolicy` let a snapshot pass through hours, days and months while three are taken: two of one bucket, and one that enters a coarser
bucket with them. Three tags and three calls are a class of two that is merged into
another name and renamed; `NotMisled` cuts the states after an overlap or a misleading
clock, where nothing is promised. Two file operations are an old one and a newer one of
the same or another controller. Three items are a parent, a child and a sibling; five acts
are create, type, leave and start again with one to spare. Three rows of which one fits are
one in view with rows above and below it; two changes of the layout are two that fall
into one animation frame, or one and another after its correction.
`CHECK_DEADLOCK FALSE` in all of them: the user may stop, pools run out, and a closed
store stays closed.

Fairness. `SqlitePersistence`, `JsonPersistence`: the event loop runs each continuation
that is ready (weak fairness of each caller's own steps and of closing); no service need
call, no operation need fail, the process need not die. `WorkingCopyAutosave`: timers fire
and calls return, weak fairness per branch; the user need not type, and nothing is assumed
of the success of a write, which is why the property says saved *or reported*. `Startup`:
the process goes on opening and closing its stores, each kind of task of the window is
served and receives its answer, a navigation that was begun is prepared; the store need
not open, and the user need not act. The timer between two polls is part of the poll.

### Disagreements found

- `rewrite_main`: nothing stops a rewrite branch from being named `main`. Afterwards
  `#requireUniqueMain` ("Work must have exactly one main Branch",
  `services/branch_service.ts:405`) and the inbox refuse to work.
- `reload`: a draft is kept per branch but written by occurrence. Text typed between a
  click on "follow main" and the reload is written to the main branch.
- `startup_stuck`: each navigation revokes the loads of the start (`invalidateDataLoad`), and
  the poll of the status with them, also when there is nothing to load yet. The status then
  stays `starting`, where no retry is offered, although the process becomes ready.
  "monitors startup polling until ready" (`vitest/startup_controller.svelte.test.ts:70`)
  holds without the navigation: `StartupIsAnswered`.
- `manuscripts`: the loop of `LongFormController.save` keeps the work it began with and
  reads the text of whatever manuscript is open by now. After Cancel, or a navigation that
  commits during the save, what is typed into the next manuscript is written to the first
  work. `docs/design/ui-state-ownership.md:47` knows two ends of a manuscript, an explicit
  discard and a close after saving.

More facts are part of passing properties, or of the conditions under which they are
stated. A creation or a move that waited behind the deletion of its parent puts the item
under an id that is gone, where the outline does not show it; and dropping an item on its own
child can make it its own parent, so that deleting it leaves its children there:
`OnlyPlacingMakesOrphans` has these two and no others. Validation requires the occurrence of a
bookmark, of the resume position and of a stored suggestion, so deleting such an item, or a
discard of empty items with one of them, is refused in the SQLite store, and the fallback of
`NavigationService.resolveTarget` is not reached: `RefusalsAreKnown` lists the refusals that
there are. What is trashed as blank is judged by the main branch alone
(`services/occurrence_operations.ts:408`): text in a branch that a merge or a rewrite left
beside it goes to the trash too, from where it can be restored.
A start without legacy data asks for nothing and creates a database also beside an old
marker; when the legacy data is put back, neither the start nor the tool compares the
database with that marker, and both take it for the migrated one (`unvouched` in
`LegacyIsNeverShadowed` and `CompleteMeansImported`). The tool looks at its target before the
import and replaces it after: a database restored in between is overwritten
(`NoEditIsOverwritten`).
`deleteEmptyRow` flushes and then deletes without looking again, so what is typed during
the flush goes to the trash with the row; the controller of empty items does look again,
but what is typed while its request is on its way is lost the same way (`TypedItemsStay`).
When the row at the top is deleted and the next one falls exactly into its place, the
correction is zero and `scrollAnchor` keeps the deleted id, so that the next change above
is compensated for the wrong row; and when the browser cuts the position off before the
animation frame, the correction is dropped with its scroll event, or added to the cut
(`strayed` in `PlaceStays`).

## Theorems

`tlapm` checks every proof to its leaves; the results hold for all values of the
constants that satisfy the named assumptions.

`SqlitePersistenceProofs`, from `StatesAssumption` (the initial state is valid, valid
states are states): `StoreIsDurable` (the refinement of `DurableStore`),
`DiskAlwaysValid`, `MemoryAlwaysDurable`, `AlwaysOneAtATime`, `TypeCorrect`.
None of these is inductive alone. The invariant `IInv` adds three parts. `QueueShape`:
nobody is in the queue twice, whoever waits is in it, only its head runs, and what is
still queued has done nothing. `DownIsQuiet`: without a process nobody waits.
`MemoryShape`: if nobody runs, memory is the file; while somebody runs, the state kept for
the rollback is the file, and memory is the file plus those writes of the call that are
done. From the last part a commit writes exactly the request (`CommitIsApply`), which is
the step of the refinement; a rollback returns to the file, which makes memory durable;
and the file changes only to states that were validated.

`GraphStoreProofs` proves of `GraphStore`, for any sets of ids (the assumptions:
`None` is no id, and no id is both a branch and a revision):

- `TypeCorrect`: `Spec => []TypeOK`. One lemma per operation says that it returns a graph
  of the right type; the actions then only have to pick ids of the right kind.
- `DecisionsAreFinal`: `Spec => SuggestionDecisionsAreFinal`. Only materializing and
  resolving touch the suggestions at all; the first keeps the status of a stored one and
  the second does not pick a resolved one.
- `LinksStayDistinct`: `Spec => []ActiveLinksAreDistinct`. Linking and accepting look for an
  active link with the same ends and origin before they add one; a merge rewires several
  links at once and retracts all but one of those that become equal.

Each step is one of five kinds of change (`StepChange`): none that matters here, of the
outline, of works, of links, or of the history. A kind lists the operations in it with what
their callers have checked; the proofs below start from there, with one lemma per
operation that says what it does to the part in question.

`GraphInvariantProofs` proves, from the same assumptions, the other properties of the graph.
All of them rest on `GraphInv`, which is inductive: the graph has its type, it is *valid*
(`Valid`, what the validation of the commits accepts) and `Sound`, which is the three things
about merges and purges that the validation does not look at.

- `TombstonesStayEmpty`: `Spec => []TombstonesAreEmpty`. The property is not inductive: a
  merge does not rewire suggestions, so accepting one could link a merged work. `Sound`
  has `MemoryOfPurges` for this: purged ids do not come back, and a suggestion whose
  placement was purged names a work that was purged. A suggestion that can still be accepted
  then has placements of both works, and a merged work has none. A rewrite that was half
  done when its work was merged away is stopped by the validation: its revision belongs to
  the survivor by then.
- `MergesNeverCycle`: `Spec => []MergeChainsEnd`. Only a merge adds to the chains, from an
  active work to an active one, and the end of the chain has no successor.
- `MainsAreUnique`: `"main" \notin RewriteNames` implies `Spec => []UniqueMain`. That
  hypothesis is not a convenience: the code does not enforce it, and the run `rewrite_main`
  shows the invariant broken without it. What a step does to the branches of a work is
  `BranchesStay` with `NoNewMain`, or one of the few cases of creating, merging and purging. That
  a main branch exists at all (`MainExists`) needs no hypothesis, and the next theorem uses it.
- `OnlyTrashIsLost`: `Spec => NothingLostOutsideTrash`. Only purging shrinks the works, the
  branches and the histories (`StepKeepsAll`); placements also go when they are deleted, and then
  the work has a main branch left, by `MainExists`.
- `OrphansComeFromPlacings`: `Spec => OnlyPlacingMakesOrphans`. All operations but three keep
  the placements, and an item that they give a parent which is not there is new or is all
  that they change (`Grows`). A purge takes placements that have no shown children left under
  them, and a discard only what has no shown children; deleting promotes children to the
  parent of what is deleted, which is newly gone only if it is the deleted item itself, and
  gone before if that was an orphan.
- `HeadsStayInOneHistory`: `Spec => HeadsShareHistory`. Not inductive, because a restore goes
  back to the source of a snapshot, which may be anywhere in the past of the branch. The
  invariant `CommonRoots` says that the head of a branch and the sources of its snapshots
  descend from one root, whatever was merged by hand meanwhile. It has no recursion: a
  lineage is the least set closed under parents, so a new revision has the lineage of its
  parents and itself.
- `RefusalsStayKnown`: `Spec => []RefusalsAreKnown`, for the operations of this module. For
  each there is a lemma that it takes a graph that satisfies `GraphInv` to a valid one
  (`...Valid`), by nothing but its own checks; the commit then never falls back. For six of
  them the lemma assumes that the reason is absent for which `RefusalsAreKnown` lets them be
  refused, and the runs `graph` and `history` reach each refusal. The validation has twelve
  parts, and an operation changes a few: `Keeps` and `Carries` say what a change may do so
  that the other parts still hold. `RewriteHolds` says of a rewrite between its two commits
  that its work and its revision are still there as long as nothing is merged or purged.

Every operation but purge, merge and the suggestions is covered by one relation, `Follows`:
no new merged work, and new owners, works and placements only where the operation puts them.
Its lemmas compose, as the operations do.

`StorageProofs` proves of `LegacyMigration`, for any bounds on versions, edits and losses,
the three safety properties of the migration: `LegacyNeverShadowed`, `CompleteIsImported`
and `EditsSurviveMigration`, with the exceptions that they name, besides `TypeCorrect`. The
invariant, `MigrationInv`, has three parts beside the type. `FilesFit`: what a marker, there or
lost, knows of the legacy data is no newer than the version that was imported with it
(`MarkerIsOld`), because the fingerprint is older than the copy, and the database beside a
marker is the one it was written for, unless it is `unvouched`. `ToolOrder`: what the tool
holds grows with its steps, and the file it imports to is there from the rename on.
`AppOrder`: what the application has seen while it starts is still there, since files are
taken away only while neither program runs.

Of `JsonPersistence` it proves, from `InitAssumption` (the first state is one of the states, and a
torn file is none), `OnlyDirectWritesTear` (`Json!Spec => []FileIsWhole`) and
`MemoryFollowsFile` (`Json!Spec => []MemoryIsSaved`), for any callers, records and values.
`Json`, `Snapshots` and `Starting` are the names by which the modules of the runs know
`JsonPersistence`, `SnapshotPolicy` and `Startup`; likewise `Branching`, `EmptyItems`,
`Files`, `Selecting`, `Manuscript` and `Panel` below. `JsonInvariance` adds the shape of the
queue, as in the SQLite store, and `SavepointIsSaved`: while a call runs, the state it would
put back is what the file holds, unless an earlier ordinary call failed. Only from this does
memory equal the file again after a rollback.

`ServiceProofs` is about three services. From `SpansAssumption` (spans are numbers, a month
is a whole number of days and a day of hours) it proves `EverythingIsRepresented`
(`Snapshots!Spec => []NothingIsLostUnrepresented`), for any spans and any number of
snapshots and prunings. Pruning keeps the last snapshot of each bucket, but buckets grow with age, so the
one that stands for a lost snapshot may be pruned itself later: `OlderIsCoarser` shows that
two snapshots of one period stay in one period as they age, and the invariant (`SnapshotsInvariance`)
that the last of them is always still there. Protection only ever ends.
`CallsHappenAsAWhole` (`Branching!Spec => []BranchesAreAsAsked`) and `EmptyItemsGo`
(`EmptyItems!Spec => []EmptyItemsAreDiscarded`) assume only that `main` is a branch and `None`
the number of no item (`NamesAssumption`); branches, callers, calls and items are any. A call
of `BranchService` works with the branches it read before its awaits, so `BInv` says what of
that is still so: unless somebody wrote one of its branches in between, what it has read is
what there is, main has moved no further than the call itself has moved it, and what it
would put back is what main was. `EInv` follows the items of each operation of the window
from the flush to the answer: an item that is being discarded was empty on screen and in the
store when that was looked at, and still is unless somebody has typed into it, which makes it
one that was typed; and an item that was left empty is remembered or being discarded.
Nothing is assumed of the browser: `Recorded` says that what stays remembered stays recorded
through any failing write or is known not to be, and what a start did not get back (`unread`)
is in no operation that waits.

`CallProofs` is about two services whose calls read, wait, and write what they computed from
what they had read. Of the tags it proves `TagsKeepTheirPromise`, `Spec => KeepsPromise`: `Tags` implements
`TagNames` for any finite set of tags, any callers, times and number of calls. The code
compares aliases by size and time, and it is not obvious that this finds the right one.
The invariant (`TagsInvariance`) says why: for every tag one alias, its head, comes before all
others that have the tag *and contains their names*. A call takes in the heads of its
sources and of its target, so the new alias contains and follows them; for the tags it
names it becomes the head, and for all others nothing changes. Tags have the same head
exactly if they have the same canonical name (`CommonHead`, `CommonName`), which makes the
step the one of `TagNames`. `OneAtATime` is needed because a call works with the aliases it
read before its awaits.

Of the placements it proves `PlacementsAreWhereTheyWereAsked` (`Placing!Spec => []EditsAreKept`)
and `PlacementsStandWhereTheyWereAsked` (`Placing!Spec => OrderIsAsAsked`), for any outlines to
start from, callers and calls, and any positive `ORDER_STEP` (`PlacesAssumption`: placements
are records with an integer key, whose parent is a placement or `None`). `PlaceInv` says what of a
call's reading is still so (`ReadsAreStillSo`: every placement it does not know to be stale is
as it was read), that the caller of a batch is in a batch and nobody else is, and how far a batch
has come (`BatchIsUnderWay`): which children have moved, and that all else is as it was listed,
so that a batch that fails can put the list back. `OrderInv` adds the order. The children of a
deleted item are promoted one after the other, each behind the one before it, by halving the
gap to what follows: so `ChildrenAreInOrder` keeps the children that have moved in their
order, behind what was before the deleted item and before what was after it, from which they
keep a distance that can be halved once for each child that is left (`InPlace`, `Splits`). That the gap
suffices is `2^n <= 2 * ORDER_STEP`, in which `n` is a number of elements; since induction over
data is out of reach, the proof takes `2^n` as the number of subsets of those `n` elements (`FS_SUBSET`), half of
which are left when one element is taken away (`OneLess`).

`WindowProofs` has two halves, one for each scene of the run `window`.
`FlushKeepsItsPromise` (`Spec => []FlushSavesWhatWasTyped`) and `DraftsAreWrittenInOrder`
(`Spec => WritesNeverGoBack`) are about the drafts, for any branches, placements and number of
edits. `DraftInv` says that what is saved, being written and typed are numbers in this order
(`EntryInv`), that a branch has one call on its way at most and its worker waits for that one
(`CallInv`), that nothing is stored which its worker has not reached (`StoreInv`), and that a
flush under way still waits for a branch or has saved it (`FlushInv`). The last needs that a
worker which settles without an error has left nothing unsaved: nobody types between that
moment and the microtask, which is `Quiet`.
`StoresComeOneByOne` (`Starting!Spec => []OneStoreAtATime`) and `NothingStaleIsShown`
(`Starting!Spec => ShownIsNeverStale`) are about the start, for any number of loads, edits,
retries and navigations. `OneStoreInv` relates the bootstrap to the store it waits for;
`TasksInv` says that no two reads of the outline under way have the same number and that the
newest one, if it was answered, has a version no older than the one on screen. A load that is
past its read knows the store's own outline on screen, so it may end the cache.

`ViewProofs` is about the six parts of the window that the run `views` checks, and states its
theorems for that composition (`MCSpec`): in each scene the invariant of the scene holds
(`ViewsInvariance`), for any numbers of edits, calls, operations, reloads, navigations, changes
and gestures. It assumes that `None` is none of the values that it stands in for
(`NoneAssumption`) and that there are finitely many calls of save (`CallsAssumption`).

- `RowStaysUpToDate`: `MCSpec => []RowIsUpToDate`. A read may have been served before the last
  edit or toggle, and be published after it. `ReadIsRight` says what the controller's own
  notes on the read (the draft it began with, the edits and collapses since) make of it:
  where they have nothing to say, the read has brought what is there. `NavIsFlushed` says the
  same of a navigation and the versions it has saved.
- `NoticesStayTrue`: `MCSpec => []NoticesAreTrue`. `FileOpIsRight` says of an operation under
  way what its notice will say of it when it ends. What makes this stable is that saved
  texts, restores and changes only ever grow, and that reads are published in their order.
- `SelectionStaysConsistent`: `MCSpec => []SelectionIsConsistent`, and `DraftsStay`:
  `MCSpec => DraftsAreKept`. Of `SInv` all steps need that a form with unsaved input or a save
  under way is of the selected work: then whoever may change the selection, because the form
  is clean or stays with its work, leaves the input alone.
- `ManuscriptsStay`: `MCSpec => []ManuscriptsAreKept`. Calls of save wait for each other, and
  a navigation goes on when its own has ended. `LInv` says that one call writes at most, that
  the manuscript counts as unsaved until what it wrote is read back, and that whoever waited
  for a call that succeeded finds nothing unsaved, which holds because those who wait are
  continued before anything else happens (`Quiet`).
- `PanelsStayUpToDate`: `MCSpec => PanelsAreUpToDate`. Whatever makes a panel want another
  answer raises the number of the newest request, and either asks for the subject, or clears
  the panel, or leaves an effect or a timer due that will (`ShownIsRight`). The controllers
  check an answer differently: those that look only at its number are right because their
  newest request is about the subject until an effect is due (`KeysAreRight`). It assumes that
  the panels are the ten of the model (`PanelsAssumption`) and that `None` is nothing that a
  panel asks for or shows (`ShownAssumption`).
- `WhatIsUsedIsDrawn`: `MCSpec => []ViewportShowsWhatIsUsed`, and `ThePlaceStays`:
  `MCSpec => PlaceStays`, for any rows, heights, overscan and threshold. `RowsAssumption` says
  that there are finitely many rows, each known by a number, that heights are natural numbers,
  that the viewport is not empty, and that `None` is neither a row nor a place. Offsets are sums of
  heights, and so are the bottoms of the drawn rows on the page. Both are recursive functions
  of an index, and what is said of them holds for all indices because a least one for which it
  failed does not exist (`CountingUp`): offsets never decrease (`OffsetsGrow`), the rows of the
  window reach over what is in view (`InViewIsDrawn`), and the gaps put each of them where the
  layout has it (`PageIsTheLayout`). `ViewportInv` adds that the row with the focus is pinned
  (`FocusIsPinned`), that the anchor of the scroll position is the place that is read and the
  pending one, if there is one, the same (`AnchorsAreThePlace`), that the position is within
  the content and known to the controller unless the browser has cut it off
  (`PositionIsKnown`), and that, while no correction is pending, it is the position of the
  place (`PlaceIsWhereItWas`). The last is why a frame that finds nothing to correct may do
  nothing.

## Only model-checked, and why

Liveness (`EverythingIsAnswered`, `DraftsAreSavedOrReported`, `StartupIsAnswered`)
needs fairness and ENABLED, which are beyond the prover.
`StructureIsAnalysed` compares what is computed from graphs and pictures of any size with what
it should be, and would need induction over the steps of those computations.

## Abstractions to know about

- In `GraphStore` a service call is atomic, except the rewrite. In the code a service
  reads memory across awaits before its mutation, so its checks may be stale when the
  mutation runs. Where the mutation itself repeats the check (purge, merge, revisions,
  snapshots, targeted writes, batches) this makes no difference; where it does not
  (moving, placing, linking), the commit validation still guards the references to works,
  branches and revisions, but nobody checks that a parent is there, which is why `Parents`
  is any id that was ever used; and a full record written back may undo a concurrent change:
  that is `OccurrenceEditing`. For the same reason `RefusalsAreKnown` speaks of calls whose
  checks are still current.
- Materializing suggestions stores one candidate per step; the code stores all of a
  listing in one batch, all or none.
- Targeted mutations are commits like any other in `GraphStore`; that their checks on one
  record suffice is the constant `ValidStates` of `SqlitePersistence`.
- The lifecycle of branches is in `BranchService`, with the branches of one work only; in
  `GraphStore` branches are never archived.
- Restoring a backup replaces the whole graph in one full mutation and is not an action; what
  only an old backup can hold is an initial state (`OldBackup`, without an item related to
  itself).
- `LegacyMigration` numbers the versions of the legacy data; the older program may be run on any
  of them, also on none, and makes a new one.
- `OutlineWindow` follows one row and takes the autosave as one writer that keeps its order,
  which is what `WritesNeverGoBack` says of it.
- `PanelReads` follows one panel at a time; panels share the selection only. A promotion
  that ends after the user selected something else reads the panel for what was selected
  before, displacing the read of the present selection, and drops the answer: such
  states are `excused`, until the next request.
- `Selection` keeps the current entry of the history of a pane.

## Not modelled

- Search, rule queries and discovery only read the graph; which candidates discovery
  finds is nondeterministic in `GraphStore`.
- Parsers, exporters, diffs, dates and timelines are pure conversions of texts and
  positions; no order of events can break them and unit tests reach every case.
- Of the family tree: the camera, the edges and averages of a cluster, highlighting, and which
  labels are shown. The last (`ui/tree_label_visibility.ts:24`) looks for nodes in the cells of
  96 pixels that the rectangle of a label touches; a node whose centre lies in the next
  cell is not looked at, although the square around it may reach into the label.
- The backup codec and the importers convert whole files; what they do to the store is one
  full mutation or one batch of `SqlitePersistence`, and what the window makes of it is
  `FileExchange`.
- `ResumePositionAutosave` is a smaller relative of `WorkingCopyAutosave`.
- The lists of works in the window (`ui/work_list_state.svelte.ts`) publish whatever answer
  comes last; the project knows it (`docs/design/ui-state-ownership.md:77`).
- Drawing, dragging, key bindings, themes and layout of the window, logs, the update check,
  bindings and scripts: input and output only.

These are the greater part of the lines of the repository: the views and projections
alone are more than half of it.

## Plan

1. Done: `GraphStore`, `SqlitePersistence` with `DurableStore`, `WorkingCopyAutosave`,
   `JsonPersistence`, `LegacyMigration`, `OccurrenceEditing`, `BranchService`,
   `OutlineStructure`, `SnapshotPolicy`, `Tags` with `TagNames`, `Startup`, `Lineage`,
   `TreePicture` and the seven modules of the window; the proofs of the two stores, of all
   properties of the graph, of the migration, the tags, the snapshots, the branches, the empty
   items, the placements, the drafts, the start, and of the window a row, the panels, the
   selection, the manuscripts, the files and the viewport.
2. Models: quick capture and the lists of works in the window.
