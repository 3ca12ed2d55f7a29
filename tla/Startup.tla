------------------------------- MODULE Startup -------------------------------
(***************************************************************************)
(* How Radiora starts: the desktop process bootstraps its storage on the   *)
(* first question the window asks (main.ts), and the window shows the      *)
(* snapshot cached by an earlier run, polls the status, loads the outline  *)
(* and is revoked by whatever the user does meanwhile (StartupController,  *)
(* loadStartupData, OutlineController, ScreenNavigation).                  *)
(*                                                                         *)
(* The data of the store is its version, a number that every edit raises.  *)
(* A task is an async function of the window suspended at an await: the    *)
(* process serves the request it waits for at one moment and the window    *)
(* receives the answer at a later one.                                     *)
(***************************************************************************)
EXTENDS Naturals

CONSTANTS
  None,
  MaxData,   \* a bound on the edits
  MaxUser    \* a bound on what the user does: retry, reload, navigate, edit, close

VARIABLES
  status,   \* startupStatus of the process
  boot,     \* bootstrapPromise: "none", "stopping" the old store, "opening" a new one
  session,  \* currentSession is set
  draining, \* the stores being closed, by whom: "boot" or "close"
  closing,  \* closingWindow
  data,     \* the version in the store
  cacheFile,\* the snapshot cache on disk
  phase,    \* the status the window shows
  cacheActive, dataLoaded,
  gen,      \* the generation of the startup load
  ogen,     \* the generation of the outline's reads
  shown,    \* the outline on screen: where it is from and its version
  tasks,    \* the suspended async functions of the window
  nav,      \* the navigation under way
  steps,    \* how often the user has acted
  revoked   \* the user has navigated while the status was "starting"

process == <<status, boot, session, draining, closing>>
store == <<data, cacheFile>>
window == <<phase, cacheActive, dataLoaded, gen, ogen, shown, nav, revoked>>
vars == <<process, store, window, tasks, steps>>

Status == {"starting", "ready", "failed"}

Task(kind, g, og, at, val) == [kind |-> kind, gen |-> g, og |-> og, at |-> at, val |-> val]

\* #current of the StartupController.
current(t) == t.gen = gen

Become(t, u) == tasks' = (tasks \ {t}) \cup {u}

Move(t, at, val) == Become(t, [t EXCEPT !.at = at, !.val = val])

End(t) == tasks' = tasks \ {t}

Init ==
  /\ status = "starting" /\ boot = "none" /\ session = FALSE
  /\ draining = {} /\ closing = FALSE
  /\ data = 1 /\ cacheFile \in {None, 0}
  /\ phase = "starting" /\ cacheActive = FALSE /\ dataLoaded = FALSE
  /\ gen = 1 /\ ogen = 0 /\ shown = [from |-> "nothing", version |-> 0]
  \* start: a poll and the reading of the cache.
  /\ tasks = {Task("poll", 1, 0, "asked", None), Task("cache", 1, 0, "asked", None)}
  /\ nav = "none" /\ steps = 0 /\ revoked = FALSE

-----------------------------------------------------------------------------
(* The desktop process.                                                    *)

\* bootstrap, up to its first await: callers join the bootstrap under way, or
\* the status is reset and stopBackend takes the session.
Bootstrap ==
  IF boot = "none"
    THEN /\ status' = "starting" /\ boot' = "stopping" /\ session' = FALSE
         /\ draining' = draining \cup (IF session THEN {"boot"} ELSE {})
    ELSE UNCHANGED <<status, boot, session, draining>>

\* The store of an earlier session has closed; its errors are only logged.
StoreClosed(by) ==
  /\ by \in draining
  /\ draining' = draining \ {by}
  /\ UNCHANGED <<status, boot, session, closing, store, window, tasks, steps>>

\* Faulty: the old store closes in the background.
openAtOnce == TRUE

\* await stopBackend()
stopped == "boot" \notin draining

OpenStore ==
  /\ boot = "stopping" /\ stopped
  /\ boot' = "opening"
  /\ UNCHANGED <<status, session, draining, closing, store, window, tasks, steps>>

\* bootstrapStorage settles: the promise is forgotten and the callers that
\* joined it are answered.
BootEnds(result) ==
  /\ boot = "opening"
  /\ boot' = "none" /\ status' = result /\ session' = (result = "ready")
  /\ tasks' = {IF t.at = "joined" THEN [t EXCEPT !.at = "answered", !.val = result] ELSE t :
                 t \in tasks}
  /\ UNCHANGED <<draining, closing, store, window, steps>>

\* The close event of the window: stopBackend, then appWindow.close().
Close ==
  /\ ~closing /\ steps < MaxUser
  /\ closing' = TRUE /\ session' = FALSE /\ steps' = steps + 1
  /\ draining' = draining \cup (IF session THEN {"close"} ELSE {})
  /\ UNCHANGED <<status, boot, store, window, tasks>>

\* getStartupStatus: the first question starts the bootstrap.
ServeStatus(t) ==
  /\ t.kind = "poll" /\ t.at = "asked"
  /\ IF status = "starting" THEN Bootstrap ELSE UNCHANGED <<status, boot, session, draining>>
  /\ Move(t, "answered", status)
  /\ UNCHANGED <<closing, store, window, steps>>

\* retryStartup.
ServeRetry(t) ==
  /\ t.kind = "retry" /\ t.at = "asked"
  /\ Bootstrap /\ Move(t, "joined", None)
  /\ UNCHANGED <<closing, store, window, steps>>

\* listOutline needs the service of an open session.
ServeOutline(t) ==
  /\ t.at = "reading" /\ session
  /\ Move(t, "read", data)
  /\ UNCHANGED <<process, store, window, steps>>

ServeCache(t) ==
  /\ t.kind = "cache" /\ t.at = "asked"
  /\ Move(t, "answered", cacheFile)
  /\ UNCHANGED <<process, store, window, steps>>

-----------------------------------------------------------------------------
(* The window: StartupController.                                          *)

\* saveSnapshotCache and its conditions.  The file is written in place: a torn
\* one loads as none.
Persist(version, active) ==
  IF ~active /\ phase = "ready" THEN cacheFile' \in {version, None} ELSE UNCHANGED cacheFile

\* Faulty: the status is asked once.
askOnce(t, s) ==
  IF s = "ready" THEN Become(t, Task("load", t.gen, 0, "relations", None)) ELSE End(t)

\* The tasks after a status was received: #poll and retry go on with
\* #handleReady, wait, or end.
AfterStatus(t, s) ==
  CASE s = "ready" -> Become(t, Task("load", t.gen, 0, "relations", None))
    [] s = "starting" -> Become(t, Task("poll", t.gen, 0, "waiting", None))
    [] OTHER -> End(t)

\* The call itself may fail, which counts as a failed startup.
StatusArrives(t) ==
  /\ t.kind \in {"poll", "retry"} /\ t.at = "answered"
  /\ \E s \in {t.val, "failed"} :
       IF current(t) THEN phase' = s /\ AfterStatus(t, s)
                     ELSE End(t) /\ UNCHANGED phase
  /\ UNCHANGED <<process, store, cacheActive, dataLoaded, gen, ogen, shown, nav, steps, revoked>>

\* #wait ends; a revoked loop ends with it.
PollAgain(t) ==
  /\ t.kind = "poll" /\ t.at = "waiting"
  /\ IF current(t) THEN Move(t, "asked", None) ELSE End(t)
  /\ UNCHANGED <<process, store, window, steps>>

\* #handleReady: the load threw.
LoadThrows(t) ==
  /\ t.kind = "load" /\ t.at \in {"relations", "reading", "discard"}
  /\ End(t)
  /\ phase' = IF current(t) /\ ~dataLoaded THEN "failed" ELSE phase
  /\ UNCHANGED <<process, store, cacheActive, dataLoaded, gen, ogen, shown, nav, steps, revoked>>

\* loadStartupData: the relation types are there, the outline is read.
RelationsArrive(t) ==
  /\ t.kind = "load" /\ t.at = "relations" /\ session
  /\ IF current(t)
       THEN ogen' = ogen + 1 /\ Become(t, [t EXCEPT !.og = ogen + 1, !.at = "reading"])
       ELSE End(t) /\ UNCHANGED ogen
  /\ UNCHANGED <<process, store, phase, cacheActive, dataLoaded, gen, shown, nav, steps, revoked>>

\* OutlineController.begin: the newest read publishes, if its caller still may.
mayPublish(t) == t.og = ogen /\ (t.kind = "load" => current(t))

Publish(version) == shown' = [from |-> "live", version |-> version]

\* Faulty: a load whose read was revoked goes on.
goOn(t) == TRUE

\* load() has returned true.
loaded(t) == mayPublish(t)

\* reload returns: the startup load goes on with discardRestored, fails because a
\* newer read revoked it, or was revoked itself.
StartupOutlineArrives(t) ==
  /\ t.kind = "load" /\ t.at = "read"
  /\ IF mayPublish(t) THEN Publish(t.val) ELSE UNCHANGED shown
  /\ IF current(t) /\ loaded(t)
       THEN Persist(t.val, cacheActive) /\ Move(t, "discard", None)
       ELSE End(t) /\ UNCHANGED cacheFile
  /\ phase' = IF current(t) /\ ~loaded(t) /\ ~dataLoaded THEN "failed" ELSE phase
  /\ UNCHANGED <<process, data, cacheActive, dataLoaded, gen, ogen, nav, steps, revoked>>

\* discardRestored is done: markDataLoaded ends the cache.
StartupLoadEnds(t) ==
  /\ t.kind = "load" /\ t.at = "discard" /\ session
  /\ End(t)
  /\ IF current(t)
       THEN dataLoaded' = TRUE /\ cacheActive' = FALSE /\ Persist(shown.version, FALSE)
       ELSE UNCHANGED <<dataLoaded, cacheActive, cacheFile>>
  /\ UNCHANGED <<process, data, phase, gen, ogen, shown, nav, steps, revoked>>

\* Faulty: the cache is put over whatever is on screen.
restoreAlways == TRUE

\* restoreInitial and OutlineController.restoreCache: not over a formal result.
mayRestore == ~dataLoaded /\ shown.from # "live"

CacheArrives(t) ==
  /\ t.kind = "cache" /\ t.at = "answered"
  /\ End(t)
  /\ IF current(t) /\ t.val # None /\ mayRestore
       THEN shown' = [from |-> "cache", version |-> t.val] /\ cacheActive' = TRUE
       ELSE UNCHANGED <<shown, cacheActive>>
  /\ UNCHANGED <<process, store, phase, dataLoaded, gen, ogen, nav, steps, revoked>>

-----------------------------------------------------------------------------
(* The window: what the user does.                                         *)

Acts == steps < MaxUser /\ steps' = steps + 1

\* retry: the button is there when the status is "failed".
Retry ==
  /\ phase = "failed" /\ Acts
  /\ gen' = gen + 1 /\ phase' = "starting"
  /\ tasks' = tasks \cup {Task("retry", gen + 1, 0, "asked", None)}
  /\ UNCHANGED <<process, store, cacheActive, dataLoaded, ogen, shown, nav, revoked>>

\* reloadData: the button beside the cached outline.
ReloadData ==
  /\ cacheActive /\ phase = "ready" /\ Acts
  /\ gen' = gen + 1
  /\ tasks' = tasks \cup {Task("load", gen + 1, 0, "relations", None)}
  /\ UNCHANGED <<process, store, phase, cacheActive, dataLoaded, ogen, shown, nav, revoked>>

\* invalidateDataLoad
invalidateDataLoad(g) == g + 1

\* ScreenNavigationWorkspace.navigate.  The shell is inert over a cached outline,
\* but the commands of the keyboard are enabled when the status is "ready".
Navigate == \E view \in {"outline", "other"} :
  /\ ~cacheActive \/ phase = "ready"
  /\ Acts
  /\ gen' = invalidateDataLoad(gen) /\ ogen' = ogen + 1 /\ nav' = view
  /\ revoked' = (revoked \/ phase = "starting")
  /\ UNCHANGED <<process, store, phase, cacheActive, dataLoaded, shown, tasks>>

\* The drafts are saved: the outline is read again for the outline screen only.
\* begin revokes whatever was being read.
NavigationPrepared ==
  /\ nav # "none" /\ nav' = "none"
  /\ ogen' = ogen + 1
  /\ tasks' = IF nav = "outline" THEN tasks \cup {Task("read", 0, ogen + 1, "reading", None)}
                                 ELSE tasks
  /\ UNCHANGED <<process, store, phase, cacheActive, dataLoaded, gen, shown, steps, revoked>>

\* An edit and the load that follows it.
Edit ==
  /\ phase = "ready" /\ session /\ shown.from # "nothing"
  /\ data < MaxData /\ Acts
  /\ data' = data + 1 /\ gen' = invalidateDataLoad(gen) /\ ogen' = ogen + 1
  /\ tasks' = tasks \cup {Task("read", 0, ogen + 1, "reading", None)}
  /\ UNCHANGED <<process, cacheFile, phase, cacheActive, dataLoaded, shown, nav, revoked>>

OutlineArrives(t) ==
  /\ t.kind = "read" /\ t.at = "read"
  /\ End(t)
  /\ IF mayPublish(t) THEN Publish(t.val) /\ Persist(t.val, cacheActive)
                      ELSE UNCHANGED <<shown, cacheFile>>
  /\ UNCHANGED <<process, data, phase, cacheActive, dataLoaded, gen, ogen, nav, steps, revoked>>

ReadFails(t) ==
  /\ t.kind = "read" /\ t.at = "reading" /\ End(t)
  /\ UNCHANGED <<process, store, window, steps>>

-----------------------------------------------------------------------------
Serve(t) == ServeStatus(t) \/ ServeRetry(t) \/ ServeOutline(t) \/ ServeCache(t)

Arrive(t) ==
  \/ StatusArrives(t) \/ PollAgain(t) \/ LoadThrows(t) \/ RelationsArrive(t)
  \/ StartupOutlineArrives(t) \/ StartupLoadEnds(t) \/ CacheArrives(t)
  \/ OutlineArrives(t) \/ ReadFails(t)

Boots == OpenStore \/ \E r \in {"ready", "failed"} : BootEnds(r)

Drains == \E by \in {"boot", "close"} : StoreClosed(by)

User == Close \/ Retry \/ ReloadData \/ Navigate \/ Edit

Next ==
  \/ Boots \/ Drains \/ User \/ NavigationPrepared
  \/ \E t \in tasks : Serve(t) \/ Arrive(t)

\* The process serves its requests and answers arrive; the user need not act.
Fairness ==
  /\ WF_vars(Boots) /\ WF_vars(Drains) /\ WF_vars(NavigationPrepared)
  /\ \A k \in {"poll", "retry", "load", "cache", "read"} :
       WF_vars(\E t \in tasks : t.kind = k /\ (Serve(t) \/ Arrive(t)))

Spec == Init /\ [][Next]_vars /\ Fairness

-----------------------------------------------------------------------------
TypeOK ==
  /\ status \in Status /\ boot \in {"none", "stopping", "opening"}
  /\ session \in BOOLEAN /\ draining \subseteq {"boot", "close"} /\ closing \in BOOLEAN
  /\ data \in 1..MaxData /\ cacheFile \in {None} \cup 0..MaxData
  /\ phase \in Status /\ cacheActive \in BOOLEAN /\ dataLoaded \in BOOLEAN
  /\ gen \in Nat /\ ogen \in Nat /\ nav \in {"none", "outline", "other"}
  /\ shown \in [from : {"nothing", "cache", "live"}, version : 0..MaxData]
  /\ steps \in 0..MaxUser /\ revoked \in BOOLEAN
  /\ \A t \in tasks : t.kind \in {"poll", "retry", "load", "cache", "read"}

\* The stores that are open: of the session, being opened, being closed.
openStores ==
  draining \cup (IF session THEN {"session"} ELSE {})
           \cup (IF boot = "opening" THEN {"opening"} ELSE {})

\* Until the window closes, one store at most is open on the database: a retry
\* joins the bootstrap under way, and a new store waits for the old one to close.
OneStoreAtATime == closing \/ \A a, b \in openStores : a = b

\* What comes from the cache of an earlier run is only ever shown behind the
\* inert shell: the load that ends the cache has put the store's own outline on
\* screen, whatever reads were revoked meanwhile.
StaleOutlineIsInert == shown.from = "cache" => cacheActive

\* The outline on screen never goes back, neither to the cached snapshot nor to
\* an older answer of the store, in whatever order loads are answered.
ShownGoesForward ==
  shown.from = "live" => shown'.from = "live" /\ shown'.version >= shown.version

ShownNeverGoesBack == [][ShownGoesForward]_vars

\* The window learns whether startup succeeded, unless the user revoked it by
\* navigating (or the last store is being closed with the window).
StartupIsAnswered == phase = "starting" ~> phase # "starting" \/ revoked

\* vitest/startup_controller.svelte.test.ts:70, "monitors startup polling until
\* ready": the window that is starting learns how startup ended.
MonitorsUntilAnswered == phase = "starting" ~> phase # "starting"
=============================================================================
