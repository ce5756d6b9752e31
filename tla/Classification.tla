--------------------------- MODULE Classification ---------------------------
(***************************************************************************)
(* How the engine turns what a probe returned into what it reports:        *)
(* Engine.classifyWithPolicy after its call of the known-state store, and  *)
(* the predicate maybeAlert starts with.  Messages are left out.           *)
(***************************************************************************)
EXTENDS Baseline

CONSTANTS
    OutageThreshold,   \* known_state.outage_threshold_consecutive_failures
    Aggressive         \* alerts.aggressive

ASSUME ClassificationAssumption ==
    /\ OutageThreshold \in Nat
    /\ CountCap >= OutageThreshold
    /\ Aggressive \in BOOLEAN

HealthState == {"healthy", "degraded", "unhealthy", "outage", "regression",
                "unknown"}
Severity == {"info", "warn", "critical"}
FailureClass == {"none", "network", "timeout", "auth", "protocol", "config",
                 "tls", "rate_limited", "unknown"}

(* What a prober hands back, and what a check reports after classification. *)
(* A prober may leave the severity open (""). *)
ProbeResult == [state : HealthState, severity : Severity \cup {""},
                class : FailureClass]
CheckResult == [state : HealthState, severity : Severity, class : FailureClass,
                regression : BOOLEAN]

(* targets.CheckResult.IsFailure: a degraded result is not a failure here,  *)
(* although knownstate.IsFailure counts it as one.                          *)
IsFailureState(s) == s \in {"unhealthy", "outage", "regression"}

toKnownStateStatus(s) ==
    CASE s = "healthy" -> "healthy"
      [] s = "degraded" -> "degraded"
      [] s = "outage" -> "outage"
      [] s \in {"regression", "unhealthy"} -> "failed"
      [] OTHER -> "unknown"

(* The severity of a result that came without one, with the alerts.severity *)
(* block of the configuration left at its defaults.                        *)
severityFromState(s) ==
    CASE s = "healthy" -> "info"
      [] s \in {"regression", "outage", "unhealthy"} -> "critical"
      [] OTHER -> "warn"

Completed(r) ==
    [r EXCEPT !.severity = IF @ = "" THEN severityFromState(r.state) ELSE @]

(* The store did not take the observation (it is disabled, the context was *)
(* cancelled, or the save failed): the result is reported as probed.       *)
Unclassified(r) ==
    [state |-> r.state, severity |-> r.severity, class |-> r.class,
     regression |-> FALSE]

(* Mutant of Baselined: a degraded result counts as a failure, as it does  *)
(* in the store.                                                           *)
BaselinedDegraded(r, cur) ==
    LET failing   == IsFailure(toKnownStateStatus(r.state))
        regressed == failing /\ cur.ever
        outage    == /\ failing
                     /\ cur.fails >= OutageThreshold
                     /\ ~regressed /\ r.state # "regression"
                     /\ cur.ever \/ r.class \notin {"auth", "config"}
    IN  [state      |-> CASE regressed -> "regression"
                          [] outage -> "outage"
                          [] OTHER -> r.state,
         severity   |-> IF regressed \/ outage THEN "critical" ELSE r.severity,
         class      |-> r.class,
         regression |-> regressed]

(* The store took it: cur is the record after the update.                  *)
Baselined(r, cur) ==
    LET failing   == /\ r.state # "degraded"
                     /\ IsFailure(toKnownStateStatus(r.state))
        regressed == failing /\ cur.ever
        outage    == /\ failing
                     /\ cur.fails >= OutageThreshold
                     /\ ~regressed /\ r.state # "regression"
                     /\ cur.ever \/ r.class \notin {"auth", "config"}
    IN  [state      |-> CASE regressed -> "regression"
                          [] outage -> "outage"
                          [] OTHER -> r.state,
         severity   |-> IF regressed \/ outage THEN "critical" ELSE r.severity,
         class      |-> r.class,
         regression |-> regressed]

(* The aggressive policy, applied last to a target that was healthy before. *)
Elevated(r) ==
    [r EXCEPT !.severity = "critical",
              !.state = IF r.regression \/ r.state = "regression"
                        THEN r.state ELSE "outage"]

classifyWithPolicy(r, previouslyOK, cur) ==
    LET base == Baselined(r, cur)
    IN  IF Aggressive /\ previouslyOK /\ IsFailureState(base.state)
        THEN Elevated(base) ELSE base

Alerts(r) == r.regression \/ r.state = "outage" \/ r.severity = "critical"
=============================================================================
