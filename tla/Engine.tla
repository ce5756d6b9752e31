------------------------------- MODULE Engine -------------------------------
(***************************************************************************)
(* internal/engine/engine.go: the monitoring engine.                       *)
(*                                                                         *)
(* Three kinds of goroutine meet here.  Start loads the baseline, launches *)
(* one monitor loop per target, waits for its context, stops the loops and *)
(* saves the baseline.  ReloadConfig, called from the SIGHUP handler or    *)
(* the embedding API at any time, stops the running generation of loops,   *)
(* swaps the configuration and launches the next generation.  A monitor    *)
(* loop checks its target over and over: acquire the worker semaphore, run *)
(* the safety stage, probe with retries, update the known-state store,     *)
(* store the status row, raise the alert, release.                         *)
(*                                                                         *)
(* runMu serialises Start's launch and stop with reloads; the engine's     *)
(* other lock only makes single steps atomic.  The known-state store is    *)
(* reduced to its memory (module Baseline) and to whether the file holds   *)
(* what memory holds; module KnownState models how it is written.          *)
(***************************************************************************)
EXTENDS Classification, Sequences, FiniteSets

CONSTANTS
    Ids,               \* target ids
    Restored,          \* the records a known-state file may hold
    Configs,           \* the configurations Start and reloads may be given
    ProbeResults,      \* what the prober (and header building) may return
    SafetyResults,     \* the blocking results of the pre-protocol stage
    Retries,           \* check.retries
    KnownStateEnabled, \* known_state.enabled, with a store configured
    MaxReloads         \* bound on the reloads of a behaviour

(* compileTargets only lets validated configurations through: New and      *)
(* ReloadConfig raise max_workers to 1 and replace a history size below 1. *)
Config == [targets : SUBSET Ids, workers : Nat \ {0}, cap : Nat \ {0}]

ASSUME EngineAssumption ==
    /\ Restored \subseteq TargetState
    /\ Configs \subseteq Config
    /\ \A c \in Configs : IsFiniteSet(c.targets)
    /\ ProbeResults \subseteq ProbeResult
    /\ SafetyResults \subseteq ProbeResult
    /\ Retries \in Nat
    /\ KnownStateEnabled \in BOOLEAN
    /\ MaxReloads \in Nat

VARIABLES
    phase,     \* where Start is
    ctxDone,   \* Start's context has been cancelled
    runCtx,    \* e.runCtx is set (it is Start's context)
    runMu,     \* who holds e.runMu: "free", "start" or "reload"
    running,   \* e.targetsCancel # nil
    gen,       \* how many generations of loops have been launched
    cancelled, \* the generations whose context has been cancelled
    cfg,       \* e.cfg, e.targets, e.eventCap and the size of e.sem
    request,   \* the configuration ReloadConfig is applying
    reloads,   \* how many reloads have begun
    loop,      \* one record per target and generation
    sem,       \* the loops holding a unit of e.sem
    statuses,  \* e.statuses
    events,    \* e.events
    mem,       \* the known-state snapshot
    saved,     \* the known-state file holds what mem holds
    lastSave   \* what Start's final Save returned

lifecycle == <<phase, ctxDone, runCtx, runMu, running, gen, cancelled, cfg,
               request, reloads, lastSave>>
vars == <<phase, ctxDone, runCtx, runMu, running, gen, cancelled, cfg,
          request, reloads, loop, sem, statuses, events, mem, saved, lastSave>>

-----------------------------------------------------------------------------

Generations == 1..(MaxReloads + 1)

(* A monitor loop is named by its target and its generation.               *)
Loops == Ids \X Generations

Pcs == {"none", "acquire", "safety", "attempt", "update", "persist", "store",
        "alert", "select"}

NoResult == [state |-> "unknown", severity |-> "info", class |-> "none",
             regression |-> FALSE]

(* res is what the check has come to so far, prevOK and cur what the store *)
(* answered.                                                               *)
NoLoop == [pc |-> "none", attempt |-> 0, res |-> NoResult, prevOK |-> FALSE,
           cur |-> NoState]

LoopState == [pc : Pcs, attempt : 0..Retries, res : CheckResult,
              prevOK : BOOLEAN, cur : TargetState]

(* A row of e.statuses; gen is not in the code, it records which generation *)
(* of loops stored the row.                                                 *)
NoStatus == [state |-> "none", gen |-> 0]

Event == [target : Ids, state : HealthState, regression : BOOLEAN,
          class : FailureClass]

(* The context of a loop is a child of Start's and has its own cancel.     *)
Live(l) == ~ctxDone /\ l[2] \notin cancelled

Alive == {l \in Loops : loop[l].pc # "none"}

(* The loops between sem.Acquire and the deferred Release.                 *)
Checking == {l \in Loops : loop[l].pc \notin {"none", "acquire", "select"}}

Blank == [t \in Ids |-> NoState]

Init ==
    /\ phase = "new"
    /\ ctxDone = FALSE
    /\ runCtx = FALSE
    /\ runMu = "free"
    /\ running = FALSE
    /\ gen = 0
    /\ cancelled = {}
    /\ cfg \in Configs
    /\ request = cfg
    /\ reloads = 0
    /\ loop = [l \in Loops |-> NoLoop]
    /\ sem = {}
    /\ statuses = [t \in Ids |-> NoStatus]
    /\ events = <<>>
    /\ mem = Blank
    /\ saved = TRUE
    /\ lastSave = "none"

-----------------------------------------------------------------------------
(* Start. *)

CancelContext ==
    /\ ~ctxDone
    /\ ctxDone' = TRUE
    /\ UNCHANGED <<phase, runCtx, runMu, running, gen, cancelled, cfg, request,
                   reloads, loop, sem, statuses, events, mem, saved, lastSave>>

(* store.Load: memory is what the file holds, or empty without a file.     *)
LoadBaseline ==
    /\ phase = "new" /\ ~ctxDone
    /\ phase' = "loaded"
    /\ mem' \in [Ids -> Restored]
    /\ UNCHANGED <<ctxDone, runCtx, runMu, running, gen, cancelled, cfg, request,
                   reloads, loop, sem, statuses, events, saved, lastSave>>

(* The file does not decode, or the context is done: Start returns.        *)
LoadFails ==
    /\ phase = "new"
    /\ phase' = "failed"
    /\ UNCHANGED <<ctxDone, runCtx, runMu, running, gen, cancelled, cfg, request,
                   reloads, loop, sem, statuses, events, mem, saved, lastSave>>

(* The loops that exist after generation g is launched for the targets T.  *)
launchTargets(g, T) ==
    [l \in Loops |-> IF l[2] = g /\ l[1] \in T
                     THEN [NoLoop EXCEPT !.pc = "acquire"] ELSE loop[l]]

startTargets ==
    /\ phase = "loaded"
    /\ runMu = "free"
    /\ phase' = "running"
    /\ runCtx' = TRUE
    /\ running' = TRUE
    /\ gen' = gen + 1
    /\ loop' = launchTargets(gen + 1, cfg.targets)
    /\ UNCHANGED <<ctxDone, runMu, cancelled, cfg, request, reloads, sem,
                   statuses, events, mem, saved, lastSave>>

(* stopTargets: take runMu and cancel the running generation ...           *)
StopBegin ==
    /\ phase = "running" /\ ctxDone
    /\ runMu = "free"
    /\ phase' = "stopping"
    /\ runMu' = "start"
    /\ running' = FALSE
    /\ cancelled' = IF running THEN cancelled \cup {gen} ELSE cancelled
    /\ UNCHANGED <<ctxDone, runCtx, gen, cfg, request, reloads, loop, sem,
                   statuses, events, mem, saved, lastSave>>

(* ... and wait, holding runMu, until every loop has exited.               *)
StopWait ==
    /\ phase = "stopping"
    /\ Alive = {}
    /\ phase' = "saving"
    /\ runMu' = "free"
    /\ UNCHANGED <<ctxDone, runCtx, running, gen, cancelled, cfg, request,
                   reloads, loop, sem, statuses, events, mem, saved, lastSave>>

(* The final Save, with a context of its own; its error is dropped.        *)
FinalSave ==
    /\ phase = "saving"
    /\ phase' = "stopped"
    /\ \/ saved' = TRUE /\ lastSave' = "ok"
       \/ saved' = saved /\ lastSave' = "error"
    /\ UNCHANGED <<ctxDone, runCtx, runMu, running, gen, cancelled, cfg,
                   request, reloads, loop, sem, statuses, events, mem>>

-----------------------------------------------------------------------------
(* ReloadConfig.  A configuration that does not compile changes nothing.   *)

(* Mutant of ReloadBegin: forgets to cancel the running generation.        *)
ReloadKeepsRunning(c) ==
    /\ reloads < MaxReloads
    /\ runMu = "free"
    /\ runMu' = "reload"
    /\ request' = c
    /\ reloads' = reloads + 1
    /\ running' = FALSE
    /\ UNCHANGED <<phase, ctxDone, runCtx, gen, cancelled, cfg, loop, sem,
                   statuses, events, mem, saved, lastSave>>

ReloadBegin(c) ==
    /\ reloads < MaxReloads
    /\ runMu = "free"
    /\ runMu' = "reload"
    /\ request' = c
    /\ reloads' = reloads + 1
    /\ running' = FALSE
    /\ cancelled' = IF running THEN cancelled \cup {gen} ELSE cancelled
    /\ UNCHANGED <<phase, ctxDone, runCtx, gen, cfg, loop, sem, statuses,
                   events, mem, saved, lastSave>>

(* Mutant of ReloadMayProceed: cancels the loops and does not wait.        *)
ReloadAtOnce == TRUE

(* e.wg.Wait() is only called for a generation that was just cancelled.    *)
ReloadMayProceed == gen \in cancelled => Alive = {}

(* Swap the configuration and the semaphore, drop the rows, and launch the *)
(* next generation if Start has run.                                       *)
ReloadSwap ==
    /\ runMu = "reload"
    /\ ReloadMayProceed
    /\ runMu' = "free"
    /\ cfg' = request
    /\ sem' = {}
    /\ statuses' = [t \in Ids |-> NoStatus]
    /\ IF runCtx
       THEN /\ gen' = gen + 1
            /\ running' = TRUE
            /\ loop' = launchTargets(gen + 1, request.targets)
       ELSE UNCHANGED <<gen, running, loop>>
    /\ UNCHANGED <<phase, ctxDone, runCtx, cancelled, request, reloads, events,
                   mem, saved, lastSave>>

-----------------------------------------------------------------------------
(* A monitor loop: executeCheck, then wait for the ticker or the context.  *)

(* semaphore.Weighted.Acquire succeeds only while the context is live.     *)
Acquire(l) ==
    /\ loop[l].pc = "acquire"
    /\ Live(l)
    /\ Cardinality(sem) < cfg.workers
    /\ sem' = sem \cup {l}
    /\ loop' = [loop EXCEPT ![l].pc = "safety", ![l].attempt = 0]
    /\ UNCHANGED <<lifecycle, statuses, events, mem, saved>>

AcquireFails(l) ==
    /\ loop[l].pc = "acquire"
    /\ ~Live(l)
    /\ loop' = [loop EXCEPT ![l].pc = "select"]
    /\ UNCHANGED <<lifecycle, sem, statuses, events, mem, saved>>

(* The registered HURL tests pass (or there are none) ...                  *)
SafetyPasses(l) ==
    /\ loop[l].pc = "safety"
    /\ loop' = [loop EXCEPT ![l].pc = "attempt"]
    /\ UNCHANGED <<lifecycle, sem, statuses, events, mem, saved>>

(* ... or block the probe: their result is classified without a retry.     *)
SafetyBlocks(l, r) ==
    /\ loop[l].pc = "safety"
    /\ loop' = [loop EXCEPT ![l].pc = "update",
                            ![l].res = Unclassified(Completed(r))]
    /\ UNCHANGED <<lifecycle, sem, statuses, events, mem, saved>>

(* One attempt.  A cancelled context makes the probe fail, but a result    *)
(* that was already on its way may still be returned.                      *)
Attempt(l, r) ==
    /\ loop[l].pc = "attempt"
    /\ loop' =
         IF IsFailureState(r.state) /\ loop[l].attempt < Retries
         THEN [loop EXCEPT ![l].attempt = @ + 1]
         ELSE [loop EXCEPT ![l].pc = "update", ![l].attempt = 0,
                           ![l].res = Unclassified(Completed(r))]
    /\ UNCHANGED <<lifecycle, sem, statuses, events, mem, saved>>

(* store.Update refuses a cancelled context and leaves memory alone.       *)
UpdateSkipped(l) ==
    /\ loop[l].pc = "update"
    /\ KnownStateEnabled => ~Live(l)
    /\ loop' = [loop EXCEPT ![l].pc = "store"]
    /\ UNCHANGED <<lifecycle, sem, statuses, events, mem, saved>>

UpdateMemory(l) ==
    /\ loop[l].pc = "update"
    /\ KnownStateEnabled /\ Live(l)
    /\ LET prev == mem[l[1]]
           cur  == Observe(prev, toKnownStateStatus(loop[l].res.state))
       IN  /\ mem' = [mem EXCEPT ![l[1]] = cur]
           /\ loop' = [loop EXCEPT ![l].pc = "persist",
                                   ![l].prevOK = prev.ever, ![l].cur = cur]
    /\ saved' = FALSE
    /\ UNCHANGED <<lifecycle, sem, statuses, events>>

(* Update's Save returns: the result is classified against the baseline.   *)
(* Saves of other loops overlap with this one, so the file may end up with *)
(* an older snapshot.                                                      *)
PersistOk(l) ==
    /\ loop[l].pc = "persist"
    /\ saved' \in BOOLEAN
    /\ loop' = [loop EXCEPT ![l].pc = "store",
                            ![l].res = classifyWithPolicy(@, loop[l].prevOK,
                                                          loop[l].cur),
                            ![l].prevOK = FALSE, ![l].cur = NoState]
    /\ UNCHANGED <<lifecycle, sem, statuses, events, mem>>

(* Save failed (the context was cancelled after the update, the rename was *)
(* lost to another loop, the disk is full): Update returns the error, and  *)
(* the result is reported as if there were no baseline.                    *)
PersistFails(l) ==
    /\ loop[l].pc = "persist"
    /\ loop' = [loop EXCEPT ![l].pc = "store", ![l].prevOK = FALSE,
                            ![l].cur = NoState]
    /\ UNCHANGED <<lifecycle, sem, statuses, events, mem, saved>>

storeStatus(l) ==
    /\ loop[l].pc = "store"
    /\ statuses' = [statuses EXCEPT
                      ![l[1]] = [state |-> loop[l].res.state, gen |-> l[2]]]
    /\ loop' = [loop EXCEPT ![l].pc = "alert"]
    /\ UNCHANGED <<lifecycle, sem, events, mem, saved>>

(* The ring buffer: below the cap it grows, otherwise the oldest event is  *)
(* shifted out and the length stays what it was.                           *)
Recorded(e) ==
    IF Len(events) < cfg.cap THEN Append(events, e)
                             ELSE Append(Tail(events), e)

(* Mutant of maybeAlert: the worker is not released.                       *)
maybeAlertLeaks(l) ==
    /\ loop[l].pc = "alert"
    /\ LET r == loop[l].res
       IN  events' = IF Alerts(r)
                     THEN Recorded([target |-> l[1], state |-> r.state,
                                    regression |-> r.regression,
                                    class |-> r.class])
                     ELSE events
    /\ loop' = [loop EXCEPT ![l] = [NoLoop EXCEPT !.pc = "select"]]
    /\ UNCHANGED <<lifecycle, sem, statuses, mem, saved>>

maybeAlert(l) ==
    /\ loop[l].pc = "alert"
    /\ LET r == loop[l].res
       IN  events' = IF Alerts(r)
                     THEN Recorded([target |-> l[1], state |-> r.state,
                                    regression |-> r.regression,
                                    class |-> r.class])
                     ELSE events
    /\ sem' = sem \ {l}
    /\ loop' = [loop EXCEPT ![l] = [NoLoop EXCEPT !.pc = "select"]]
    /\ UNCHANGED <<lifecycle, statuses, mem, saved>>

(* Both cases of the select may be ready; Go picks either.                 *)
Tick(l) ==
    /\ loop[l].pc = "select"
    /\ loop' = [loop EXCEPT ![l].pc = "acquire"]
    /\ UNCHANGED <<lifecycle, sem, statuses, events, mem, saved>>

Exit(l) ==
    /\ loop[l].pc = "select"
    /\ ~Live(l)
    /\ loop' = [loop EXCEPT ![l] = NoLoop]
    /\ UNCHANGED <<lifecycle, sem, statuses, events, mem, saved>>

-----------------------------------------------------------------------------

(* The steps of a check after it got its worker; none of them blocks.      *)
CheckStep(l) ==
    \/ SafetyPasses(l)
    \/ \E r \in SafetyResults : SafetyBlocks(l, r)
    \/ \E r \in ProbeResults : Attempt(l, r)
    \/ UpdateSkipped(l) \/ UpdateMemory(l)
    \/ PersistOk(l) \/ PersistFails(l)
    \/ storeStatus(l)
    \/ maybeAlert(l)

LoopStep(l) ==
    \/ Acquire(l) \/ AcquireFails(l)
    \/ CheckStep(l)
    \/ Tick(l) \/ Exit(l)

StartStep ==
    \/ LoadBaseline \/ LoadFails \/ startTargets
    \/ StopBegin \/ StopWait \/ FinalSave

Next ==
    \/ CancelContext
    \/ StartStep
    \/ \E c \in Configs : ReloadBegin(c)
    \/ ReloadSwap
    \/ \E l \in Loops : LoopStep(l)

(* Goroutines that can run do run.  A probe returns because every attempt  *)
(* has a timeout.  The semaphore serves its waiters first come first       *)
(* served and sync.Mutex hands over to a waiter that starves, so a waiter  *)
(* that is repeatedly possible is eventually served.  Of the two ready     *)
(* cases of a select neither is chosen for ever.                           *)
Fairness ==
    /\ SF_vars(StartStep)
    /\ WF_vars(ReloadSwap)
    /\ \A l \in Loops : /\ SF_vars(Acquire(l))
                        /\ SF_vars(Exit(l))
                        /\ WF_vars(AcquireFails(l) \/ CheckStep(l) \/ Tick(l))

Spec == Init /\ [][Next]_vars

-----------------------------------------------------------------------------
(* Properties. *)

TypeOK ==
    /\ phase \in {"new", "loaded", "running", "stopping", "saving", "stopped",
                  "failed"}
    /\ ctxDone \in BOOLEAN /\ runCtx \in BOOLEAN /\ running \in BOOLEAN
    /\ runMu \in {"free", "start", "reload"}
    /\ gen \in 0..(MaxReloads + 1)
    /\ cancelled \subseteq 0..(MaxReloads + 1)
    /\ cfg \in Configs /\ request \in Configs
    /\ reloads \in 0..MaxReloads
    /\ loop \in [Loops -> LoopState]
    /\ sem \subseteq Loops
    /\ statuses \in [Ids -> [state : HealthState \cup {"none"},
                             gen : 0..(MaxReloads + 1)]]
    /\ events \in Seq(Event)
    /\ mem \in [Ids -> TargetState]
    /\ saved \in BOOLEAN
    /\ lastSave \in {"none", "ok", "error"}

(* Loops of two generations are never alive together, so a target is never *)
(* probed by two loops and its known-state record has one writer.  This is *)
(* what cancelling and waiting under runMu is for, also when a reload      *)
(* races Start's launch, shutdown, or comes after shutdown.                *)
OneGeneration == \A l, m \in Alive : l[2] = m[2]

(* At most max_workers checks run at once, measured against the configured *)
(* size in force now: a reload that lowers max_workers (and makes a new    *)
(* semaphore) is not exceeded by checks the old one let in.                *)
WorkersBounded == Cardinality(Checking) <= cfg.workers

(* A row belongs to a configured target and was stored by a loop of the    *)
(* current generation: no check of a replaced configuration reports into   *)
(* the new one (ReloadConfig clears the rows only after the wait).         *)
RowsCurrent ==
    \A t \in Ids : statuses[t].state # "none" =>
        t \in cfg.targets /\ statuses[t].gen = gen

View == INSTANCE EngineView
    WITH TargetIDs <- Ids,
         targets <- cfg.targets,
         rows <- [t \in Ids |-> statuses[t].state],
         TargetSets <- {c.targets : c \in Configs}

(* Readers of the engine see one configured set, rows for its members      *)
(* only, and reloads as single steps.                                      *)
ImplementsEngineView ==
    View!ViewInit /\ [][View!ViewNext(HealthState)]_(View!viewVars)

(* IsReady compares two lengths; it is true only when each configured      *)
(* target has been checked since the last reload.                          *)
ReadyMeansAllChecked ==
    View!IsReady => \A t \in cfg.targets : statuses[t].state # "none"

(* The alert being raised describes the baseline as it stands when it is   *)
(* raised: the target's last recorded outcome is a failure; "regression"   *)
(* means it has been healthy, "outage" that it never was, that the         *)
(* threshold is met, and that it is not an authentication or configuration *)
(* failure during bootstrap.  So a degraded outcome raises none, and the   *)
(* aggressive policy and the outage rule never overrule a regression.      *)
AlertsMatchBaseline ==
    [][events' # events =>
         LET e == events'[Len(events')]
             k == mem[e.target]
         IN  /\ k.status = "failed"
             /\ e.regression <=> k.ever
             /\ e.state = IF k.ever THEN "regression" ELSE "outage"
             /\ ~k.ever => /\ k.fails >= OutageThreshold
                           /\ e.class \notin {"auth", "config"}]_vars

(* A shutdown whose final Save succeeded leaves the whole baseline on      *)
(* disk, whatever overlapping saves of the loops left there before.        *)
BaselineSavedOnStop == phase = "stopped" /\ lastSave = "ok" => saved

(* Cancelling Start's context ends in Start returning: the loops, a reload *)
(* that holds runMu and stopTargets do not wait for each other.            *)
StopCompletes == ctxDone /\ phase = "running" ~> phase = "stopped"

(* A reload that began is applied.                                         *)
ReloadCompletes == runMu = "reload" ~> runMu = "free"

(* With the configuration settled, no target is starved of its check by    *)
(* the others sharing the worker semaphore.                                *)
EveryTargetChecked ==
    \A t \in Ids :
        phase = "running" /\ reloads = MaxReloads /\ runMu = "free"
            /\ t \in cfg.targets
        ~> statuses[t].state # "none" \/ ctxDone

-----------------------------------------------------------------------------
(* What the documentation says of the program, and the code does not do.   *)

(* "I am alerted immediately when a previously-healthy target begins       *)
(* failing": a check that was not cancelled and recorded a failure of a    *)
(* target with a healthy baseline ends with its alert.                     *)
RegressionAlerted ==
    [][\A l \in Loops :
         /\ loop[l].pc = "alert" /\ loop'[l].pc = "select"
         /\ KnownStateEnabled /\ Live(l)
         /\ mem[l[1]].ever /\ mem[l[1]].status = "failed"
         => /\ events' # <<>>
            /\ events'[Len(events')].target = l[1]
            /\ events'[Len(events')].regression]_vars

(* What a reload, a stop and the checks they interrupt never break, in any *)
(* order: one generation of loops, bounded by the workers in force; rows   *)
(* and readiness of the configured targets only; and a stop that leaves    *)
(* the baseline on disk.                                                   *)
LoopsSafe ==
    /\ OneGeneration
    /\ WorkersBounded
    /\ RowsCurrent
    /\ ReadyMeansAllChecked
    /\ BaselineSavedOnStop

(* Stops and reloads that begin are carried out, and nobody is starved:    *)
(* runMu, the wait group and the semaphore make no circle.                 *)
EngineProgress ==
    /\ StopCompletes
    /\ ReloadCompletes
    /\ EveryTargetChecked
=============================================================================
