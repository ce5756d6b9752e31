------------------------------ MODULE Instance ------------------------------
(***************************************************************************)
(* pkg/smokealarm/smokealarm.go: the embedding API.  An Instance owns an   *)
(* engine and a health server; a host program calls Start, Reload and      *)
(* Shutdown from goroutines of its own.  The instance's lock is held only  *)
(* around single reads and writes of its fields, so calls interleave.      *)
(*                                                                         *)
(* The engine is reduced to the life of the goroutine that runs eng.Start  *)
(* (module Engine has the rest) and to its startOnce and stopOnce, which   *)
(* all runs of the instance share: a second Start of the same engine waits *)
(* for its context without monitoring, and whichever run is cancelled      *)
(* first stops the loops and saves while the others wait for it.  Every    *)
(* reload of the engine launches the loops anew on the context of the run  *)
(* that monitors, also after stopOnce has been used; loops on a context    *)
(* that is done get no slot of the semaphore, and write nothing.           *)
(***************************************************************************)
EXTENDS Naturals

CONSTANTS
    Callers,    \* goroutines of the host program
    MaxStarts   \* bound on the calls of Start that get past its first check

ASSUME InstanceAssumption == MaxStarts \in Nat \ {0}

VARIABLES
    started,    \* in.started
    run,        \* the number of the last Start; names in.cancel, in.engineDone
    cancelledRuns,  \* the runs whose context has been cancelled
    done,       \* the runs whose engineDone channel has been closed
    engine,     \* per run, where the goroutine running eng.Start is
    launched,   \* the engine's startOnce has been used
    monitor,    \* the run that launched the monitor loops, 0 for none
    loops,      \* monitor loops are running that may still write
    stop,       \* the engine's stopOnce: "unused", "running" or "finished"
    stopper,    \* the run that used stopOnce, 0 for none
    call,       \* per caller, what it is doing
    bound,      \* where the health listener is: "none", "asked" or "moved"
    probed      \* the address the engine's self-check target names

instanceVars == <<started, run, cancelledRuns, done, engine, launched, monitor,
                  loops, stop, stopper, call, bound, probed>>

Runs == 1..MaxStarts

NoCall == [op |-> "none", pc |-> "idle", run |-> 0]
CallAt(c, pc) == [call EXCEPT ![c].pc = pc]
Returned(c) == [call EXCEPT ![c] = NoCall]
In(c, op, pc) == call[c].op = op /\ call[c].pc = pc

EngineAlive == {r \in Runs : engine[r] \in {"enter", "wait", "save"}}

(* The engine's own variables, of which a caller changes the loops alone.  *)
engineVars == <<engine, launched, monitor, loops, stop, stopper>>

(* The end of Engine.ReloadConfig: the loops of the previous generation    *)
(* have been waited for, and new ones get the run context, if there is one.*)
Relaunch ==
    /\ loops' = (monitor # 0 /\ monitor \notin cancelledRuns)
    /\ UNCHANGED <<engine, launched, monitor, stop, stopper>>

InstanceInit ==
    /\ started = FALSE
    /\ run = 0
    /\ cancelledRuns = {}
    /\ done = {}
    /\ engine = [r \in Runs |-> "none"]
    /\ launched = FALSE
    /\ monitor = 0
    /\ loops = FALSE
    /\ stop = "unused"
    /\ stopper = 0
    /\ call = [c \in Callers |-> NoCall]
    /\ bound = "none"
    /\ probed = "asked"

-----------------------------------------------------------------------------
(* Start.  A second call while started is refused and changes nothing.     *)

StartBegin(c) ==
    /\ call[c] = NoCall
    /\ ~started
    /\ run < MaxStarts
    /\ started' = TRUE
    /\ run' = run + 1
    /\ call' = [call EXCEPT ![c] = [op |-> "start", pc |-> "bind",
                                    run |-> run + 1]]
    /\ UNCHANGED <<cancelledRuns, done, engineVars, bound, probed>>

(* Mutant of StartBindFails: leaves the channel open.                      *)
StartBindFailsOpen(c) ==
    /\ In(c, "start", "bind")
    /\ cancelledRuns' = cancelledRuns \cup {call[c].run}
    /\ call' = Returned(c)
    /\ UNCHANGED <<started, run, done, engineVars, bound, probed>>

(* The channel is closed in place of the goroutine that will never run.    *)
StartBindFails(c) ==
    /\ In(c, "start", "bind")
    /\ cancelledRuns' = cancelledRuns \cup {call[c].run}
    /\ done' = done \cup {call[c].run}
    /\ call' = Returned(c)
    /\ UNCHANGED <<started, run, engineVars, bound, probed>>

(* The configured port is free, or a higher one is taken.                  *)
StartBinds(c) ==
    /\ In(c, "start", "bind")
    /\ \/ bound' = "asked" /\ call' = CallAt(c, "launch")
       \/ bound' = "moved" /\ call' = CallAt(c, "rewrite")
    /\ UNCHANGED <<started, run, cancelledRuns, done, engineVars, probed>>

(* RewriteSelfReferences and the engine reload that applies it.            *)
StartRewrites(c) ==
    /\ In(c, "start", "rewrite")
    /\ probed' = bound
    /\ Relaunch
    /\ call' = CallAt(c, "launch")
    /\ UNCHANGED <<started, run, cancelledRuns, done, bound>>

StartLaunches(c) ==
    /\ In(c, "start", "launch")
    /\ engine' = [engine EXCEPT ![call[c].run] = "enter"]
    /\ call' = Returned(c)
    /\ UNCHANGED <<started, run, cancelledRuns, done, launched, monitor, loops,
                   stop, stopper, bound, probed>>

-----------------------------------------------------------------------------
(* Shutdown.  On an instance that is not started it returns nil at once.   *)

ShutdownNothing(c) ==
    /\ call[c] = NoCall
    /\ ~started
    /\ call' = [call EXCEPT ![c] = [op |-> "shutdown", pc |-> "nil", run |-> run]]
    /\ UNCHANGED <<started, run, cancelledRuns, done, engineVars, bound, probed>>

ShutdownBegin(c) ==
    /\ call[c] = NoCall
    /\ started
    /\ started' = FALSE
    /\ call' = [call EXCEPT ![c] = [op |-> "shutdown", pc |-> "cancel",
                                    run |-> run]]
    /\ UNCHANGED <<run, cancelledRuns, done, engineVars, bound, probed>>

(* Cancel the run and stop the health server.                              *)
ShutdownCancels(c) ==
    /\ In(c, "shutdown", "cancel")
    /\ cancelledRuns' = cancelledRuns \cup {call[c].run}
    /\ call' = CallAt(c, "join")
    /\ UNCHANGED <<started, run, done, engineVars, bound, probed>>

ShutdownJoins(c) ==
    /\ In(c, "shutdown", "join")
    /\ call[c].run \in done
    /\ call' = CallAt(c, "nil")
    /\ UNCHANGED <<started, run, cancelledRuns, done, engineVars, bound, probed>>

(* The caller's context ends first; the error says so.                     *)
ShutdownTimesOut(c) ==
    /\ In(c, "shutdown", "join")
    /\ call' = Returned(c)
    /\ UNCHANGED <<started, run, cancelledRuns, done, engineVars, bound, probed>>

(* The caller has its nil and goes on.                                     *)
ShutdownReturned(c) ==
    /\ In(c, "shutdown", "nil")
    /\ call' = Returned(c)
    /\ UNCHANGED <<started, run, cancelledRuns, done, engineVars, bound, probed>>

-----------------------------------------------------------------------------

(* The context the host gave to Start is cancelled.                        *)
HostCancels(r) ==
    /\ r <= run /\ r \notin cancelledRuns
    /\ cancelledRuns' = cancelledRuns \cup {r}
    /\ UNCHANGED <<started, run, done, engineVars, call, bound, probed>>

(* Reload normalises the given configuration (defaults, self-check target  *)
(* at the configured health address) and reloads the engine with it.       *)
InstanceReload(c) ==
    /\ call[c] = NoCall
    /\ probed' = "asked"
    /\ Relaunch
    /\ UNCHANGED <<started, run, cancelledRuns, done, call, bound>>

(* eng.Start of run r.  The first one loads the baseline and launches the  *)
(* loops, or returns the error of Load (its context is already done, or    *)
(* the file does not decode); a later one finds startOnce used.            *)
EngineEnters(r) ==
    /\ engine[r] = "enter"
    /\ launched' = TRUE
    /\ \/ /\ engine' = [engine EXCEPT ![r] = "wait"]
          /\ IF launched THEN UNCHANGED <<monitor, loops>>
             ELSE monitor' = r /\ loops' = (r \notin cancelledRuns)
          /\ done' = done
       \/ /\ ~launched
          /\ engine' = [engine EXCEPT ![r] = "gone"]
          /\ done' = done \cup {r}
          /\ UNCHANGED <<monitor, loops>>
    /\ UNCHANGED <<started, run, cancelledRuns, stop, stopper, call, bound, probed>>

(* The loops leave when the context they run on is done.                   *)
LoopsEnd(r) ==
    /\ loops
    /\ monitor = r
    /\ r \in cancelledRuns
    /\ loops' = FALSE
    /\ UNCHANGED <<started, run, cancelledRuns, done, engine, launched, monitor,
                   stop, stopper, call, bound, probed>>

(* The run's context is done and stopOnce is free: stop the loops and wait *)
(* for them, then save.  This may be a run other than the one whose        *)
(* context the loops run on, and a reload may launch them again.           *)
EngineStops(r) ==
    /\ engine[r] = "wait"
    /\ r \in cancelledRuns
    /\ stop = "unused"
    /\ engine' = [engine EXCEPT ![r] = "save"]
    /\ stop' = "running"
    /\ stopper' = r
    /\ loops' = FALSE
    /\ UNCHANGED <<started, run, cancelledRuns, done, launched, monitor, call,
                   bound, probed>>

(* Mutant of EngineStopped: a flag in place of sync.Once, which does not   *)
(* make a second caller wait for the first.                                *)
EngineStoppedEarly(r) ==
    /\ engine[r] = "wait"
    /\ r \in cancelledRuns
    /\ stop # "unused"
    /\ engine' = [engine EXCEPT ![r] = "gone"]
    /\ done' = done \cup {r}
    /\ UNCHANGED <<started, run, cancelledRuns, launched, monitor, loops, stop,
                   stopper, call, bound, probed>>

(* sync.Once blocks a second caller until the first has finished.          *)
EngineStopped(r) ==
    /\ engine[r] = "wait"
    /\ r \in cancelledRuns
    /\ stop = "finished"
    /\ engine' = [engine EXCEPT ![r] = "gone"]
    /\ done' = done \cup {r}
    /\ UNCHANGED <<started, run, cancelledRuns, launched, monitor, loops, stop,
                   stopper, call, bound, probed>>

(* The last write of the baseline file, then the deferred close.           *)
EngineSaves(r) ==
    /\ engine[r] = "save"
    /\ engine' = [engine EXCEPT ![r] = "gone"]
    /\ stop' = "finished"
    /\ done' = done \cup {r}
    /\ UNCHANGED <<started, run, cancelledRuns, launched, monitor, loops, stopper,
                   call, bound, probed>>

EngineStep(r) ==
    \/ EngineEnters(r) \/ EngineStops(r) \/ EngineStopped(r) \/ EngineSaves(r)
    \/ LoopsEnd(r)

InstanceStartStep(c) ==
    StartBindFails(c) \/ StartBinds(c) \/ StartRewrites(c) \/ StartLaunches(c)

ShutdownStep(c) == ShutdownCancels(c) \/ ShutdownJoins(c) \/ ShutdownReturned(c)

InstanceNext ==
    \/ \E c \in Callers :
          \/ StartBegin(c) \/ InstanceStartStep(c)
          \/ ShutdownNothing(c) \/ ShutdownBegin(c)
          \/ ShutdownStep(c) \/ ShutdownTimesOut(c)
          \/ InstanceReload(c)
    \/ \E r \in Runs : HostCancels(r) \/ EngineStep(r)

(* Goroutines inside a call, and the engine's, keep running.               *)
InstanceFairness ==
    /\ \A c \in Callers : WF_instanceVars(InstanceStartStep(c)) /\ WF_instanceVars(ShutdownStep(c))
    /\ \A r \in Runs : WF_instanceVars(EngineStep(r))
InstanceSpec == InstanceInit /\ [][InstanceNext]_instanceVars /\ InstanceFairness

-----------------------------------------------------------------------------
(* Properties. *)

(* The channel Shutdown waits for is closed only when the run's goroutine  *)
(* has ended, or its Start failed before launching one.  If the loops run  *)
(* on that run's context the final save is over too, whichever run's       *)
(* goroutine made it; and when the run itself stopped the loops, no loop   *)
(* can write any more, whatever reloads have come since.                   *)
DoneMeansQuiet ==
    \A r \in done : /\ engine[r] \in {"none", "gone"}
                    /\ monitor = r => /\ stop = "finished"
                                      /\ loops => stopper # r

(* A Shutdown returns even without a deadline, also after a Start that     *)
(* failed or is still on its way.                                          *)
ShutdownReturns ==
    \A c \in Callers : call[c].op = "shutdown" ~> call[c].op # "shutdown"

(* Refuted, and of no run: "Shutdown does not return until the engine has  *)
(* stopped" (smokealarm.go:365).  A second Shutdown, called while the      *)
(* first waits, is given nil at once with the engine still running.        *)
ShutdownWaitsForEngine ==
    \A c \in Callers : In(c, "shutdown", "nil") =>
        {r \in EngineAlive : r <= call[c].run} = {}

(* Refuted, and of no run: once the channel of the run that monitors is    *)
(* closed its loops are gone (smokealarm.go:365 again).  The host starts a *)
(* second run while the first is being shut down, the second is cancelled  *)
(* first and uses up stopOnce, a Reload launches the loops again on the    *)
(* first run's context, and that one, cancelled, finds nothing to stop.    *)
LoopsGoneWhenDone == monitor \in done => ~loops
=============================================================================
