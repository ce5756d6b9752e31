----------------------------- MODULE OpsRuntime -----------------------------
(***************************************************************************)
(* internal/ops/runtime.go: Runtime.Run of processes that share a lock     *)
(* file: the lock, the start of what it runs (bootstrap), the goroutines   *)
(* of runForeground and runBackground (engine, health server, sync loop),  *)
(* and the end.  A process may be killed anywhere.                         *)
(***************************************************************************)
EXTENDS Naturals, FiniteSets

CONSTANTS Runtimes, Foreground      \* those in foreground mode

ASSUME RuntimeAssumption == Foreground \subseteq Runtimes

VARIABLES
    pidFile,    \* <<>>, <<"empty", r>> or <<"pid", r>>
    runPhase,      \* per process: its place in Run
    parts,      \* the goroutines that run
    ctx,        \* runCtx: "live" or "done"
    errCh,      \* whether a failure was sent
    mdns        \* whether the service is advertised

runtimeVars == <<pidFile, runPhase, parts, ctx, errCh, mdns>>
bodyVars == <<parts, ctx, errCh, mdns>>

Parts == {"engine", "health", "sync"}

RuntimeInit ==
    /\ pidFile = <<>>
    /\ runPhase = [r \in Runtimes |-> "new"] /\ parts = [r \in Runtimes |-> {}]
    /\ ctx = [r \in Runtimes |-> "live"] /\ errCh = [r \in Runtimes |-> FALSE]
    /\ mdns = [r \in Runtimes |-> FALSE]

Moves(r, p) == runPhase' = [runPhase EXCEPT ![r] = p]
Gone(r) == runPhase[r] \in {"ended", "killed"}

(* acquireLock: O_EXCL, then the pid in a second step.                     *)
OpenLock(r) ==
    /\ runPhase[r] \in {"new", "reopen"}
    /\ IF pidFile = <<>> THEN pidFile' = <<"empty", r>> /\ Moves(r, "pid")
       ELSE UNCHANGED pidFile /\ Moves(r, IF runPhase[r] = "new" THEN "stale?" ELSE "ended")
    /\ UNCHANGED bodyVars

WriteLockPid(r) ==
    /\ runPhase[r] = "pid"
    /\ pidFile' = IF pidFile = <<"empty", r>> THEN <<"pid", r>> ELSE pidFile
    /\ Moves(r, "locked")
    /\ UNCHANGED bodyVars

(* An empty file has pid 0, which no process has: it is stale too.         *)
StaleLock(r) ==
    /\ runPhase[r] = "stale?"
    /\ Moves(r, IF \E q \in Runtimes : ~Gone(q) /\ pidFile = <<"pid", q>> THEN "ended"
                ELSE IF pidFile = <<>> THEN "ended" ELSE "remove")
    /\ UNCHANGED <<pidFile, bodyVars>>

RemoveStale(r) ==
    /\ runPhase[r] = "remove"
    /\ pidFile' = <<>>
    /\ Moves(r, "reopen")
    /\ UNCHANGED bodyVars

(* bootstrap, which advertises and, as it returns, withdraws again; then   *)
(* the goroutines.                                                         *)
Bootstrap(r) ==
    /\ runPhase[r] = "locked"
    /\ mdns' = [mdns EXCEPT ![r] = TRUE]
    /\ Moves(r, "booting")
    /\ UNCHANGED <<pidFile, parts, ctx, errCh>>

Run(r) ==
    /\ runPhase[r] = "booting"
    /\ mdns' = [mdns EXCEPT ![r] = FALSE]
    /\ parts' = [parts EXCEPT ![r] = Parts]
    /\ Moves(r, "running")
    /\ UNCHANGED <<pidFile, ctx, errCh>>

(* bootstrap fails (an engine that cannot be made, a port that is taken),  *)
(* or the mode is none of the two: Run returns, which releases the lock.   *)
RunFails(r) ==
    /\ runPhase[r] \in {"locked", "booting"}
    /\ mdns' = [mdns EXCEPT ![r] = FALSE]
    /\ pidFile' = <<>>
    /\ Moves(r, "ended")
    /\ UNCHANGED <<parts, ctx, errCh>>

(* Mutant of PartFails: nobody is told.                                    *)
PartFailsQuietly(r, g) ==
    /\ runPhase[r] = "running" /\ g \in parts[r] \ {"sync"}
    /\ parts' = [parts EXCEPT ![r] = @ \ {g}]
    /\ UNCHANGED <<pidFile, runPhase, ctx, errCh, mdns>>

(* The engine or the health server returns an error: it is sent, and in    *)
(* foreground mode the context is cancelled.                               *)
PartFails(r, g) ==
    /\ runPhase[r] \in {"running", "waiting"} /\ ctx[r] = "live" /\ g \in parts[r] \ {"sync"}
    /\ parts' = [parts EXCEPT ![r] = @ \ {g}]
    /\ errCh' = [errCh EXCEPT ![r] = TRUE]
    /\ ctx' = [ctx EXCEPT ![r] = IF r \in Foreground THEN "done" ELSE @]
    /\ UNCHANGED <<pidFile, runPhase, mdns>>

(* Every goroutine ends with the context.                                  *)
PartEnds(r, g) ==
    /\ ctx[r] = "done" /\ g \in parts[r]
    /\ parts' = [parts EXCEPT ![r] = @ \ {g}]
    /\ UNCHANGED <<pidFile, runPhase, ctx, errCh, mdns>>

(* A signal, also while it boots, or the UI's quit: cancel.                *)
StopSignal(r) ==
    /\ ~Gone(r) /\ ctx[r] = "live"
    /\ ctx' = [ctx EXCEPT ![r] = "done"]
    /\ UNCHANGED <<pidFile, runPhase, parts, errCh, mdns>>

(* The select of runBackground, the end of the UI in runForeground: from   *)
(* here on it waits for the goroutines.                                    *)
Await(r) ==
    /\ runPhase[r] = "running"
    /\ ctx[r] = "done" \/ (errCh[r] /\ r \notin Foreground)
    /\ Moves(r, "waiting")
    /\ UNCHANGED <<pidFile, bodyVars>>

(* wg.Wait is over: Run returns and the deferred release removes the file. *)
Return(r) ==
    /\ runPhase[r] = "waiting" /\ parts[r] = {}
    /\ pidFile' = <<>>
    /\ Moves(r, "ended")
    /\ UNCHANGED bodyVars

Kill(r) ==
    /\ ~Gone(r) /\ runPhase[r] # "new"
    /\ parts' = [parts EXCEPT ![r] = {}] /\ mdns' = [mdns EXCEPT ![r] = FALSE]
    /\ Moves(r, "killed")
    /\ UNCHANGED <<pidFile, ctx, errCh>>

Proceed(r) ==
    \/ OpenLock(r) \/ WriteLockPid(r) \/ StaleLock(r) \/ RemoveStale(r)
    \/ Bootstrap(r) \/ Run(r) \/ Await(r) \/ Return(r)
    \/ \E g \in Parts : PartEnds(r, g)
RuntimeNext == \E r \in Runtimes :
    \/ Proceed(r) \/ RunFails(r) \/ StopSignal(r) \/ Kill(r)
    \/ \E g \in Parts : PartFails(r, g)

(* What the process does by itself happens; signals and failures may not.  *)
RuntimeFairness == \A r \in Runtimes : WF_runtimeVars(Proceed(r))
RuntimeSpec == RuntimeInit /\ [][RuntimeNext]_runtimeVars /\ RuntimeFairness
-----------------------------------------------------------------------------
(* An engine that died in a runtime is known to it: the run is cancelled,  *)
(* or in background mode the error is there to be received; and a runtime  *)
(* that is gone has no goroutine left and nothing advertised               *)
(* (runForeground, runBackground, bootstrap).                              *)
DeathsKnown ==
    \A r \in Runtimes :
        /\ runPhase[r] \in {"running", "waiting"} /\ "engine" \notin parts[r] =>
              ctx[r] = "done" \/ (errCh[r] /\ r \notin Foreground)
        /\ Gone(r) => parts[r] = {} /\ ~mdns[r]

(* "another instance is already running" (acquireLock): one at a time.     *)
OneInstance ==
    Cardinality({r \in Runtimes : runPhase[r] \in {"locked", "booting", "running", "waiting"}}) <= 1

(* A failure in the background ends the run as well: it does not, for the  *)
(* goroutines that are left wait for a context nobody cancels.             *)
BackgroundFailureEnds ==
    \A r \in Runtimes : (runPhase[r] = "running" /\ errCh[r]) ~> Gone(r)

(* What is advertised is served, and what is served is advertised.         *)
AdvertisedWhileRunning == \A r \in Runtimes : runPhase[r] = "running" => mdns[r]

(* Gone, with no goroutine left and, unless it was killed, the lock file   *)
(* no longer its own.                                                      *)
Over(r) ==
    /\ Gone(r) /\ parts[r] = {}
    /\ runPhase[r] = "ended" => pidFile \notin {<<"empty", r>>, <<"pid", r>>}

(* A runtime that is told to stop, wherever it is, and in the foreground   *)
(* one whose engine died, ends with none of its goroutines left and gives  *)
(* up its lock: the user is not left with a dashboard over a dead engine   *)
(* (runForeground, runBackground).                                         *)
RuntimeEnds ==
    /\ \A r \in Runtimes : (ctx[r] = "done") ~> Over(r)
    /\ \A r \in Foreground : (runPhase[r] = "running" /\ "engine" \notin parts[r]) ~> Over(r)
=============================================================================
