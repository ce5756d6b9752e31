----------------------------- MODULE HealthSync -----------------------------
(***************************************************************************)
(* How the engine's view reaches the health server: syncHealthLoop, which  *)
(* once a tick copies the engine's rows to the server and withdraws the    *)
(* ones it published before and no longer finds, and the reload paths (the *)
(* SIGHUP handler of the serve command, Instance.Reload of the embedding   *)
(* API), which withdraw the targets a reload dropped.                      *)
(*                                                                         *)
(* Both write to a server that only ever upserts, neither holds a lock     *)
(* across its reads of the engine and its writes, and the engine may be    *)
(* reconfigured between any two of them.                                   *)
(***************************************************************************)
EXTENDS EngineView

CONSTANTS
    States,     \* the states a check may report
    Reloaders   \* goroutines that reload: one for SIGHUP, callers of Reload

ASSUME HealthSyncAssumption ==
    /\ TargetSets \subseteq SUBSET TargetIDs
    /\ "none" \notin States

VARIABLES
    shown,      \* the health server's rows: s.targets
    ready,      \* its readiness, as SetReady and the engine component say
    pc,         \* where the sync loop is in its tick
    current,    \* the ids found in this tick
    todo,       \* the statuses read in this tick and not yet upserted
    owned,      \* the ids found in the previous tick
    dropped     \* per reloader, the removed ids it has still to withdraw

syncVars == <<targets, rows, shown, ready, pc, current, todo, owned, dropped>>

SyncInit ==
    /\ ViewInit
    /\ shown = NoRows
    /\ ready = FALSE
    /\ pc = "wait"
    /\ current = {}
    /\ todo = NoRows
    /\ owned = {}
    /\ dropped = [r \in Reloaders |-> {}]

-----------------------------------------------------------------------------
(* The engine. *)

Check(t, s) ==
    /\ Report(t, s)
    /\ UNCHANGED <<shown, ready, pc, current, todo, owned, dropped>>

(* ReloadConfig returns the ids that were configured and no longer are.    *)
SyncReload(r, T) ==
    /\ dropped[r] = {}
    /\ Reconfigure(T)
    /\ dropped' = [dropped EXCEPT ![r] = targets \ T]
    /\ UNCHANGED <<shown, ready, pc, current, todo, owned>>

Withdraw(r, t) ==
    /\ t \in dropped[r]
    /\ shown' = [shown EXCEPT ![t] = "none"]
    /\ dropped' = [dropped EXCEPT ![r] = @ \ {t}]
    /\ UNCHANGED <<targets, rows, ready, pc, current, todo, owned>>

-----------------------------------------------------------------------------
(* One tick of syncHealthLoop. *)

ReadTargetIDs ==
    /\ pc = "wait"
    /\ current' = targets
    /\ pc' = "read"
    /\ UNCHANGED <<targets, rows, shown, ready, todo, owned, dropped>>

(* Mutant of ReadStatuses: only the target list says what was published.   *)
ReadStatusesOnly ==
    /\ pc = "read"
    /\ todo' = rows
    /\ pc' = "upsert"
    /\ UNCHANGED <<targets, rows, shown, ready, current, owned, dropped>>

ReadStatuses ==
    /\ pc = "read"
    /\ current' = current \cup RowIds
    /\ todo' = rows
    /\ pc' = "upsert"
    /\ UNCHANGED <<targets, rows, shown, ready, owned, dropped>>

Upsert(t) ==
    /\ pc = "upsert"
    /\ todo[t] # "none"
    /\ shown' = [shown EXCEPT ![t] = todo[t]]
    /\ todo' = [todo EXCEPT ![t] = "none"]
    /\ UNCHANGED <<targets, rows, ready, pc, current, owned, dropped>>

(* RemoveTarget for an id published before and not found in this tick.     *)
Prune(t) ==
    /\ pc = "upsert" /\ todo = NoRows
    /\ t \in owned \ current
    /\ shown' = [shown EXCEPT ![t] = "none"]
    /\ owned' = owned \ {t}
    /\ UNCHANGED <<targets, rows, ready, pc, current, todo, dropped>>

(* Mutant of KeepOwned: forgets the previous ids before withdrawing them.  *)
KeepOwnedEarly ==
    /\ pc = "upsert" /\ todo = NoRows
    /\ owned' = current
    /\ current' = {}
    /\ pc' = "ready"
    /\ UNCHANGED <<targets, rows, shown, ready, todo, dropped>>

KeepOwned ==
    /\ pc = "upsert" /\ todo = NoRows
    /\ owned \subseteq current
    /\ owned' = current
    /\ current' = {}
    /\ pc' = "ready"
    /\ UNCHANGED <<targets, rows, shown, ready, todo, dropped>>

PublishReady ==
    /\ pc = "ready"
    /\ ready' = IsReady
    /\ pc' = "wait"
    /\ UNCHANGED <<targets, rows, shown, current, todo, owned, dropped>>

SyncStep ==
    \/ ReadTargetIDs \/ ReadStatuses
    \/ \E t \in TargetIDs : Upsert(t) \/ Prune(t)
    \/ KeepOwned \/ PublishReady

SyncNext ==
    \/ \E t \in TargetIDs, s \in States : Check(t, s)
    \/ \E r \in Reloaders, T \in TargetSets : SyncReload(r, T)
    \/ \E r \in Reloaders, t \in TargetIDs : Withdraw(r, t)
    \/ SyncStep

(* The loop is driven by a ticker and never blocks.                        *)
SyncFairness == WF_syncVars(SyncStep)
SyncSpec == SyncInit /\ [][SyncNext]_syncVars /\ SyncFairness

-----------------------------------------------------------------------------
(* Properties. *)

SyncTypeOK ==
    /\ targets \in TargetSets
    /\ rows \in [TargetIDs -> States \cup {"none"}]
    /\ shown \in [TargetIDs -> States \cup {"none"}]
    /\ ready \in BOOLEAN
    /\ pc \in {"wait", "read", "upsert", "ready"}
    /\ current \subseteq TargetIDs
    /\ todo \in [TargetIDs -> States \cup {"none"}]
    /\ owned \subseteq TargetIDs
    /\ dropped \in [Reloaders -> SUBSET TargetIDs]

(* A row the server shows for a target that is not configured is one the   *)
(* loop knows about and will withdraw, even when the loop upserted it from *)
(* statuses it had read before a reload, after the reloader withdrew it.   *)
NoOrphanRows ==
    \A t \in TargetIDs : shown[t] # "none" => t \in owned \cup current

(* A dropped target disappears from /status.                               *)
DroppedTargetsVanish ==
    \A t \in TargetIDs :
        shown[t] # "none" /\ t \notin targets
        ~> shown[t] = "none" \/ t \in targets

(* A checked target is shown, also when a reloader that had dropped it     *)
(* withdraws it after it was configured again.                             *)
CheckedTargetsShown ==
    \A t \in TargetIDs : rows[t] # "none" ~> shown[t] # "none" \/ rows[t] = "none"

(* Readiness follows the engine: after a reload the server does not go on  *)
(* reporting the readiness of the previous target set.                     *)
ReadinessFollows == ready /\ ~IsReady ~> ~ready \/ IsReady

(* The health view follows the engine: what was dropped vanishes, what is  *)
(* checked is shown, and readiness is of the present target set, whatever  *)
(* reloaders and the loop do to each other's rows.                         *)
ViewFollows ==
    /\ DroppedTargetsVanish
    /\ CheckedTargetsShown
    /\ ReadinessFollows
=============================================================================
