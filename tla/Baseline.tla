------------------------------ MODULE Baseline ------------------------------
(***************************************************************************)
(* The known-state record kept for one target and how one probe outcome    *)
(* changes it: the part of knownstate.Store.Update that runs under the     *)
(* store's lock.  Times, error texts and ids are left out; no decision of  *)
(* the code reads them.                                                    *)
(***************************************************************************)
EXTENDS Naturals

CONSTANTS
    SustainSuccess,  \* healthy results in a row that make a baseline
    CountCap         \* where the model's two counters saturate

(***************************************************************************)
(* WithSustainSuccess raises every value below 1 to 1.  The counters are   *)
(* only ever compared with thresholds, so saturating them at or above the  *)
(* largest threshold loses no behaviour.                                   *)
(***************************************************************************)
ASSUME BaselineAssumption ==
    /\ SustainSuccess \in Nat \ {0}
    /\ CountCap \in Nat
    /\ CountCap >= SustainSuccess

Status == {"healthy", "degraded", "outage", "failed", "unknown"}

IsHealthy(s) == s = "healthy"

IsFailure(s) == s \in {"failed", "outage", "degraded"}

(* status "absent" stands for a target the snapshot has no entry for; the  *)
(* other fields are then the zero values Go reads out of a missing entry.  *)
TargetState == [status : Status \cup {"absent"},
                fails  : 0..CountCap,
                streak : 0..CountCap,
                ever   : BOOLEAN]

NoState == [status |-> "absent", fails |-> 0, streak |-> 0, ever |-> FALSE]

Bump(n) == IF n < CountCap THEN n + 1 ELSE n

ObserveCarriesStreak(prev, s) ==
    LET streak == IF IsHealthy(s) THEN Bump(prev.streak) ELSE prev.streak
    IN  [status |-> s,
         fails  |-> IF IsFailure(s) THEN Bump(prev.fails) ELSE 0,
         streak |-> streak,
         ever   |-> prev.ever \/ (IsHealthy(s) /\ streak >= SustainSuccess)]

ObserveRecomputes(prev, s) ==
    LET streak == IF IsHealthy(s) THEN Bump(prev.streak) ELSE 0
    IN  [status |-> s,
         fails  |-> IF IsFailure(s) THEN Bump(prev.fails) ELSE 0,
         streak |-> streak,
         ever   |-> IsHealthy(s) /\ streak >= SustainSuccess]

(* The record after outcome s is applied to the record prev.               *)
Observe(prev, s) ==
    LET streak == IF IsHealthy(s) THEN Bump(prev.streak) ELSE 0
    IN  [status |-> s,
         fails  |-> IF IsFailure(s) THEN Bump(prev.fails) ELSE 0,
         streak |-> streak,
         ever   |-> prev.ever \/ (IsHealthy(s) /\ streak >= SustainSuccess)]

(* The counters tell the truth about the status they are stored with: a    *)
(* success streak only while healthy, a failure count only while failing,  *)
(* and a streak that reached the threshold has made a baseline.            *)
CountersAgree(st) ==
    /\ st.streak > 0 <=> IsHealthy(st.status)
    /\ st.fails > 0 <=> IsFailure(st.status)
    /\ st.streak >= SustainSuccess => st.ever
    /\ st.status = "absent" => st = NoState
=============================================================================
