----------------------------- MODULE EngineView -----------------------------
(***************************************************************************)
(* What the monitoring engine promises to whoever reads it (TargetIDs,     *)
(* SnapshotStatuses and IsReady): there is one configured target set, rows *)
(* exist only for configured targets, and a reload replaces the set and    *)
(* discards every row in one step.                                         *)
(***************************************************************************)
EXTENDS FiniteSets, Naturals

CONSTANTS
    TargetIDs,        \* every target id
    TargetSets  \* the sets of enabled targets a configuration may name

VARIABLES
    targets,    \* the configured target set
    rows        \* the latest state of each target, "none" before its check

viewVars == <<targets, rows>>

NoRows == [t \in TargetIDs |-> "none"]

RowIds == {t \in TargetIDs : rows[t] # "none"}

ViewInit ==
    /\ targets \in TargetSets
    /\ rows = NoRows

(* ReloadConfig. *)
Reconfigure(T) ==
    /\ targets' = T
    /\ rows' = NoRows

(* storeStatus, for a configured target only. *)
Report(t, s) ==
    /\ t \in targets
    /\ rows' = [rows EXCEPT ![t] = s]
    /\ UNCHANGED targets

(* IsReady counts; it does not compare ids. *)
IsReady ==
    /\ Cardinality(RowIds) >= Cardinality(targets)
    /\ Cardinality(targets) > 0

ViewNext(States) ==
    \/ \E T \in TargetSets : Reconfigure(T)
    \/ \E t \in TargetIDs, s \in States : Report(t, s)
=============================================================================
