----------------------------- MODULE Lifecycle -----------------------------
(***************************************************************************)
(* internal/ops/update.go: LifecycleController.Execute, the unattended     *)
(* stop, deploy, restart, verify and commit of an update, its rollback,    *)
(* and the lock file that keeps a second controller out.  Two controllers  *)
(* (two processes of the update tool) act on one installation; the         *)
(* commands they run are external and may fail.  A step whose command or   *)
(* check the plan leaves empty is skipped.  Plans without a lock file, or  *)
(* without a command to start the service, are left out: nothing then      *)
(* keeps a second controller away, or what runs is not Execute's doing.    *)
(***************************************************************************)
EXTENDS Naturals, Sequences

CONSTANTS
    Controllers,    \* processes that run an update
    Plan,           \* what the plan has: "lock", "start", and perhaps "stop", "verify"
    HasHook         \* whether the deploy step returns a rollback hook

ASSUME LifecycleAssumption ==
    /\ Controllers # {} /\ HasHook \in BOOLEAN /\ "none" \notin Controllers
    /\ {"lock", "start"} \subseteq Plan

VARIABLES
    lock,       \* the process the lock file names, or "none"
    runtime,    \* what runs: "old", "new" or "down"
    installed,  \* the payload in place: "old" or "new"
    marked,     \* the version the current marker names, "none" when there is none
    previous,   \* and the previous marker: "none" at first
    up          \* per controller: its step and its UpdateResult

lifecycleVars == <<lock, runtime, installed, marked, previous, up>>
placeVars == <<lock, runtime, installed, marked, previous>>

Idle == [step |-> "idle", old |-> "none", failed |-> FALSE,
         result |-> "none", rolledBack |-> FALSE]

LifecycleInit ==
    /\ lock = "none" /\ runtime = "old" /\ installed = "old"
    /\ marked \in {"old", "none"} /\ previous = "none"
    /\ up = [c \in Controllers |-> Idle]

At(c, step) == up[c].step = step
Goto(c, step) == up' = [up EXCEPT ![c].step = step]

(* The end of Execute: the result is set and the lock is removed.          *)
Finish(c, result) ==
    /\ up' = [up EXCEPT ![c].step = "done", ![c].result = result]
    /\ lock' = "none"

(* acquireLock creates the file or fails; nobody asks whether the process  *)
(* it names is alive.  The old version is read right after.                *)
AcquireUpdateLock(c) ==
    /\ At(c, "idle") /\ lock = "none"
    /\ lock' = c
    /\ up' = [up EXCEPT ![c].step = "stop", ![c].old = marked]
    /\ UNCHANGED <<runtime, installed, marked, previous>>

(* The file exists, or it cannot be created.                               *)
LockContention(c) ==
    /\ At(c, "idle")
    /\ up' = [up EXCEPT ![c].step = "done", ![c].result = "LOCK_CONTENTION"]
    /\ UNCHANGED placeVars

(* A command that fails may still have stopped it.                         *)
StopRuntime(c) ==
    /\ At(c, "stop")
    /\ \/ /\ runtime' = IF "stop" \in Plan THEN "down" ELSE runtime
          /\ Goto(c, "deploy") /\ UNCHANGED lock
       \/ "stop" \in Plan /\ Finish(c, "STOP_TIMEOUT") /\ runtime' \in {runtime, "down"}
    /\ UNCHANGED <<installed, marked, previous>>

(* A deploy step that fails returns at once: nothing is rolled back, and   *)
(* the runtime that was stopped is not started again.                      *)
Deploy(c) ==
    /\ At(c, "deploy")
    /\ \/ installed' = "new" /\ Goto(c, "start") /\ UNCHANGED lock
       \/ Finish(c, "DEPLOY_FAILED") /\ UNCHANGED installed
    /\ UNCHANGED <<runtime, marked, previous>>

StartRuntime(c) ==
    /\ At(c, "start")
    /\ \/ runtime' = installed /\ Goto(c, "verify")
       \/ /\ up' = [up EXCEPT ![c].step = "rbStop", ![c].result = "START_FAILED"]
          /\ UNCHANGED runtime
    /\ UNCHANGED <<lock, installed, marked, previous>>

(* verify polls until the deadline; what is not up never answers 200.      *)
Verify(c) ==
    /\ At(c, "verify")
    /\ \/ ("verify" \in Plan => runtime = "new") /\ Goto(c, "commit")
       \/ /\ "verify" \in Plan
          /\ up' = [up EXCEPT ![c].step = "rbStop", ![c].result = "VERIFY_FAILED"]
    /\ UNCHANGED placeVars

(* The two markers are two files, written one after the other; a first     *)
(* installation has no version to remember.                                *)
CommitPrevious(c) ==
    /\ At(c, "commit")
    /\ \/ /\ previous' = IF up[c].old # "none" THEN up[c].old ELSE previous
          /\ Goto(c, "commit2") /\ UNCHANGED lock
       \/ up[c].old # "none" /\ Finish(c, "COMMIT_FAILED") /\ UNCHANGED previous
    /\ UNCHANGED <<runtime, installed, marked>>

CommitCurrent(c) ==
    /\ At(c, "commit2")
    /\ \/ marked' = installed /\ Finish(c, "committed")
       \/ Finish(c, "COMMIT_FAILED") /\ UNCHANGED marked
    /\ UNCHANGED <<runtime, installed, previous>>

(* rollback: stop, the hook, the command and the start are each tried,     *)
(* whatever became of the ones before; only if all succeed is it one.      *)
RollbackStop(c) ==
    /\ At(c, "rbStop")
    /\ \/ runtime' = (IF "stop" \in Plan THEN "down" ELSE runtime) /\ Goto(c, "rbHook")
       \/ /\ "stop" \in Plan
          /\ up' = [up EXCEPT ![c].step = "rbHook", ![c].failed = TRUE] /\ UNCHANGED runtime
    /\ UNCHANGED <<lock, installed, marked, previous>>

RollbackHook(c) ==
    /\ At(c, "rbHook")
    /\ \/ HasHook /\ installed' = "old" /\ Goto(c, "rbStart")
       \/ /\ up' = [up EXCEPT ![c].step = "rbStart", ![c].failed = @ \/ HasHook]
          /\ UNCHANGED installed
    /\ UNCHANGED <<lock, runtime, marked, previous>>

(* Mutant of RollbackStart: its failure is not counted.                    *)
RollbackStartBestEffort(c) ==
    /\ At(c, "rbStart")
    /\ \E ok \in BOOLEAN :
          /\ runtime' = IF ok THEN installed ELSE runtime
          /\ up' = [up EXCEPT ![c].step = "done", ![c].rolledBack = ~up[c].failed]
    /\ lock' = "none"
    /\ UNCHANGED <<installed, marked, previous>>

RollbackStart(c) ==
    /\ At(c, "rbStart")
    /\ \E ok \in BOOLEAN :
          /\ runtime' = IF ok THEN installed ELSE runtime
          /\ up' = [up EXCEPT ![c].step = "done", ![c].rolledBack = ok /\ ~up[c].failed]
    /\ lock' = "none"
    /\ UNCHANGED <<installed, marked, previous>>

(* The controller dies: its lock file stays.                               *)
ControllerCrash(c) ==
    /\ up[c].step \notin {"idle", "done", "dead"}
    /\ Goto(c, "dead")
    /\ UNCHANGED placeVars

Executing(c) == up[c].step \notin {"idle", "done", "dead"}

LifecycleNext == \E c \in Controllers :
    \/ AcquireUpdateLock(c) \/ LockContention(c) \/ StopRuntime(c) \/ Deploy(c)
    \/ StartRuntime(c) \/ Verify(c) \/ CommitPrevious(c) \/ CommitCurrent(c)
    \/ RollbackStop(c) \/ RollbackHook(c) \/ RollbackStart(c)
    \/ ControllerCrash(c)

(* Execute never waits for ever: its commands have timeouts.               *)
LifecycleFairness == WF_lifecycleVars(LifecycleNext)
LifecycleSpec ==
    /\ LifecycleInit /\ [][LifecycleNext]_lifecycleVars
    /\ LifecycleFairness
-----------------------------------------------------------------------------
(* "... 6) commit markers and rollback on failure" (Execute's comment): an *)
(* update that fails once it has stopped the service leaves it running or  *)
(* says that rolling back failed as well.                                  *)
FailureRollsBack ==
    \A c \in Controllers :
        up[c].step = "done" /\ up[c].result \in {"DEPLOY_FAILED", "COMMIT_FAILED"} =>
            up[c].rolledBack \/ up[c].failed

(* An update says what it did. What it commits runs, under markers that    *)
(* name it and the version it replaced, if any; a rollback that succeeds   *)
(* restored the service: something runs, the old payload whenever the      *)
(* deploy step knew how to undo itself, and no marker was moved (Execute,  *)
(* rollback).                                                              *)
UpdateHonest ==
    [][\A c \in Controllers :
          /\ up[c].result # "committed" /\ up'[c].result = "committed" =>
                /\ runtime' = "new" /\ marked' = "new"
                /\ up[c].old # "none" => previous' = up[c].old
          /\ ~up[c].rolledBack /\ up'[c].rolledBack =>
                /\ runtime' # "down" /\ runtime' = installed'
                /\ HasHook => runtime' = "old"
                /\ marked' = up[c].old]_lifecycleVars
=============================================================================
