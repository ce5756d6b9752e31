---------------------------- MODULE MCLifecycles ----------------------------
(* The components whose question is whether they come to their end, for    *)
(* TLC: one of them, chosen in the initial state, moves; the others rest   *)
(* in an initial state of theirs.                                          *)
EXTENDS MCEngine, HealthSync, Instance, Lifecycle, OpsRuntime, StdioProcess

VARIABLE part

Sets == {{a}, {a, b}, {b}}

allVars == <<part, vars, syncVars, instanceVars, lifecycleVars, runtimeVars, stdioVars>>

AllInit ==
    /\ part \in {"engine", "sync", "instance", "update", "run", "probe"}
    /\ Init /\ InstanceInit /\ LifecycleInit /\ RuntimeInit /\ StdioInit
    /\ SyncInit /\ (part # "sync" => targets = {a})
    /\ part # "update" => marked = "old"

AllNext ==
    /\ UNCHANGED part
    /\ \/ /\ part = "engine" /\ Next
          /\ UNCHANGED <<syncVars, instanceVars, lifecycleVars, runtimeVars, stdioVars>>
       \/ /\ part = "sync" /\ SyncNext
          /\ UNCHANGED <<vars, instanceVars, lifecycleVars, runtimeVars, stdioVars>>
       \/ /\ part = "instance" /\ InstanceNext
          /\ UNCHANGED <<vars, syncVars, lifecycleVars, runtimeVars, stdioVars>>
       \/ /\ part = "update" /\ LifecycleNext
          /\ UNCHANGED <<vars, syncVars, instanceVars, runtimeVars, stdioVars>>
       \/ /\ part = "run" /\ RuntimeNext
          /\ UNCHANGED <<vars, syncVars, instanceVars, lifecycleVars, stdioVars>>
       \/ /\ part = "probe" /\ StdioNext
          /\ UNCHANGED <<vars, syncVars, instanceVars, lifecycleVars, runtimeVars>>

(* The fairness of the one that moves.                                     *)
AllSpec ==
    /\ AllInit /\ [][AllNext]_allVars
    /\ \/ part = "engine" /\ Fairness
       \/ part = "sync" /\ SyncFairness
       \/ part = "instance" /\ InstanceFairness
       \/ part = "update" /\ LifecycleFairness
       \/ part = "run" /\ RuntimeFairness
       \/ part = "probe" /\ StdioFairness
=============================================================================
