------------------------------ MODULE MCWindow ------------------------------
(***************************************************************************)
(* What must come to an end in the window, on small instances: the saving  *)
(* of drafts, and the start of the program.  scene is chosen once; what    *)
(* belongs to the other scene stands still.                                *)
(***************************************************************************)
EXTENDS MCWorkingCopyAutosave

CONSTANTS None, MaxData, MaxUser

VARIABLES
  scene,
  status, boot, session, draining, closing, data, cacheFile, phase, cacheActive,
  dataLoaded, gen, ogen, outline, tasks, nav, steps, revoked

Starting == INSTANCE Startup WITH shown <- outline

drafts == vars
startup ==
  <<status, boot, session, draining, closing, data, cacheFile, phase, cacheActive,
    dataLoaded, gen, ogen, outline, tasks, nav, steps, revoked>>
mcvars == <<scene, drafts, startup>>

StartupRests ==
  /\ status = "ready" /\ boot = "none" /\ session = TRUE /\ draining = {} /\ closing = FALSE
  /\ data = 1 /\ cacheFile = None /\ phase = "ready" /\ cacheActive = FALSE
  /\ dataLoaded = TRUE /\ gen = 1 /\ ogen = 1 /\ outline = [from |-> "live", version |-> 1]
  /\ tasks = {} /\ nav = "none" /\ steps = 0 /\ revoked = FALSE

MCInit ==
  /\ Init
  /\ \/ scene = "drafts" /\ StartupRests
     \/ scene = "startup" /\ Starting!Init

Saving(A) == scene = "drafts" /\ A /\ UNCHANGED <<scene, startup>>
Starts(A) == scene = "startup" /\ A /\ UNCHANGED <<scene, drafts>>

MCNext == Saving(Next) \/ Starts(Starting!Next)

\* The fairness of either scene: timers fire, the process serves and answers.
MCFairness ==
  /\ \A b \in Branches : WF_mcvars(Saving(Background(b)))
  /\ WF_mcvars(Starts(Starting!Boots))
  /\ WF_mcvars(Starts(Starting!Drains))
  /\ WF_mcvars(Starts(Starting!NavigationPrepared))
  /\ \A k \in {"poll", "retry", "load", "cache", "read"} :
       WF_mcvars(Starts(\E t \in tasks :
                          t.kind = k /\ (Starting!Serve(t) \/ Starting!Arrive(t))))

MCSpec == MCInit /\ [][MCNext]_mcvars /\ MCFairness

-----------------------------------------------------------------------------
\* See Startup: one store is open, a cached outline is inert, what is shown never
\* goes back, and the window learns how startup ended.
OneStoreAtATime == Starting!OneStoreAtATime
ShownIsNeverStale ==
  [][Starting!StaleOutlineIsInert' /\ Starting!ShownGoesForward]_mcvars
StartupIsAnswered == Starting!StartupIsAnswered
=============================================================================
