------------------------------ MODULE MCEngine ------------------------------
(* Instances of Engine for TLC. *)
EXTENDS Engine, TLC

CONSTANTS a, b

Result(s, v, c) == [state |-> s, severity |-> v, class |-> c]

Healthy  == Result("healthy", "info", "none")
Degraded == Result("degraded", "warn", "protocol")
Refused  == Result("unhealthy", "warn", "network")
NoToken  == Result("unhealthy", "warn", "auth")
Unsafe   == Result("unhealthy", "warn", "protocol")

Down       == {Refused}
UpDown     == {Healthy, Refused}
AllResults == {Healthy, Degraded, Refused, NoToken}
Blocking   == {Unsafe}

(* A file written by an earlier process that saw the target healthy.       *)
WasHealthy == Observe(NoState, "healthy")

Fresh == {NoState}
FreshOrKnown == {NoState, WasHealthy}

Cfg(T, w, n) == [targets |-> T, workers |-> w, cap |-> n]

(* Reloads that drop a target, add one back and change max_workers.        *)
Reconfigurations == {Cfg({a, b}, 2, 1), Cfg({a}, 1, 1)}

Shared    == {Cfg({a, b}, 1, 1)}
OneTarget == {Cfg({a}, 1, 2)}
=============================================================================
