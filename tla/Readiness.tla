----------------------------- MODULE Readiness -----------------------------
(***************************************************************************)
(* Readiness: what internal/health/server.go answers on /readyz while      *)
(* syncHealthLoop of the serve command (and of ops.Runtime) writes it.     *)
(*                                                                         *)
(* Each tick the loop asks the engine and then writes three times: the     *)
(* component "engine" under the lock, the flag, which is an atomic, and    *)
(* the flag's reason, under the lock again.  Other goroutines (discovery,  *)
(* listeners, the federation's sink) write components of their own.        *)
(* Snapshot reads the flag without the lock and the rest with it, and may  *)
(* be held between the two for as long as it likes.                        *)
(***************************************************************************)
EXTENDS Naturals

CONSTANT Components     \* names of the components besides the engine

ASSUME ReadinessAssumption == "engine" \notin Components

VARIABLES
    ready, reason,      \* the flag and readyError
    sick,               \* the components that are not healthy
    loop,               \* what the loop writes next, or "wait"
    looks,              \* what the engine said at the loop's last look and at the one before
    reader              \* a Snapshot: what it read, and what it answers

readyVars == <<ready, reason, sick, loop, looks, reader>>

(* The server as it is before it listens: told once that the engine is not *)
(* ready, component first.                                                 *)
ReadyInit ==
    /\ ready = FALSE /\ reason = "told" /\ sick = {"engine"}
    /\ loop = "wait" /\ looks = [last |-> FALSE, before |-> FALSE]
    /\ reader = [step |-> "idle", flag |-> FALSE, crossed |-> FALSE, ready |-> FALSE, why |-> ""]

-----------------------------------------------------------------------------
(* The loop. *)

(* A tick: IsReady.  The runtime's last round, "stopped", is one that      *)
(* found the engine not ready.                                             *)
Look(r) ==
    /\ loop = "wait"
    /\ loop' = "component"
    /\ looks' = [last |-> r, before |-> looks.last]
    /\ UNCHANGED <<ready, reason, sick, reader>>

(* SetComponent("engine", ...) *)
PublishEngine ==
    /\ loop = "component"
    /\ sick' = IF looks.last THEN sick \ {"engine"} ELSE sick \cup {"engine"}
    /\ loop' = "flag"
    /\ UNCHANGED <<ready, reason, looks, reader>>

(* SetReady: the flag, ...                                                 *)
SetReadyFlag ==
    /\ loop = "flag"
    /\ ready' = looks.last
    /\ loop' = "reason"
    /\ reader' = [reader EXCEPT !.crossed = TRUE]
    /\ UNCHANGED <<reason, sick, looks>>

(* ... then the reason, none when it is ready.                             *)
SetReadyReason ==
    /\ loop = "reason"
    /\ reason' = IF looks.last THEN "" ELSE "told"
    /\ loop' = "wait"
    /\ reader' = [reader EXCEPT !.crossed = TRUE]
    /\ UNCHANGED <<ready, sick, looks>>

(* SetComponent and RemoveComponent of the other goroutines.               *)
SetComponent(c, healthy) ==
    /\ sick' = IF healthy THEN sick \ {c} ELSE sick \cup {c}
    /\ UNCHANGED <<ready, reason, loop, looks, reader>>

-----------------------------------------------------------------------------
(* A reader. *)

(* Snapshot: the flag without the lock, ...                                *)
LoadFlag ==
    /\ reader.step # "loaded"
    /\ reader' = [reader EXCEPT !.step = "loaded", !.flag = ready, !.crossed = loop = "reason"]
    /\ UNCHANGED <<ready, reason, sick, loop, looks>>

(* Mutant of Snapshot: the flag decides.                                   *)
SnapshotByFlag ==
    /\ reader.step = "loaded"
    /\ reader' = [reader EXCEPT !.step = "answered", !.ready = reader.flag, !.why = reason]
    /\ UNCHANGED <<ready, reason, sick, loop, looks>>

(* ... the rest under it; and what handleReadyz answers.                   *)
Snapshot ==
    /\ reader.step = "loaded"
    /\ LET ok == reader.flag /\ sick = {}
       IN  reader' = [reader EXCEPT !.step = "answered", !.ready = ok,
                         !.why = IF ~ok /\ reason = "" /\ sick # {} THEN "components" ELSE reason]
    /\ UNCHANGED <<ready, reason, sick, loop, looks>>

ReadyNext ==
    \/ PublishEngine \/ SetReadyFlag \/ SetReadyReason \/ LoadFlag \/ Snapshot
    \/ \E r \in BOOLEAN : Look(r) \/ \E c \in Components : SetComponent(c, r)

ReadySpec == ReadyInit /\ [][ReadyNext]_readyVars
-----------------------------------------------------------------------------
(* The last look whose component the loop has written.                     *)
Published == IF loop = "component" THEN looks.before ELSE looks.last

Answers == reader.step = "loaded" /\ reader'.step = "answered"

(* However long a reader was held after it loaded the flag, it answers     *)
(* ready only if the engine was ready at the last look that was published: *)
(* a flag of many looks ago is caught by the component, which the loop     *)
(* writes before the flag and the reader reads after it.                   *)
ReadyIsFresh == Answers /\ reader'.ready => Published

(* An answer that no SetReady crossed is of one piece: ready gives no      *)
(* reason not to be, and not ready gives one.                              *)
AnswerOfOnePiece == Answers /\ ~reader.crossed => (reader'.ready <=> reader'.why = "")

(* Flag, reason and components are under different locks, and still        *)
(* /readyz is never ready on the word of an old look, and flag and reason  *)
(* disagree only for a reader that a SetReady overtook.                    *)
ReadinessTold == [][ReadyIsFresh /\ AnswerOfOnePiece]_readyVars

(* "Snapshot returns a consistent status view" (server.go:461): what is    *)
(* ready gives no reason not to be, also for a reader that was overtaken.  *)
SnapshotConsistent == reader.step = "answered" /\ reader.ready => reader.why = ""
=============================================================================
