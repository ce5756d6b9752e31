---------------------------- MODULE HealthViews ----------------------------
(***************************************************************************)
(* What the health server tells: the port a listener claims                *)
(* (internal/netbind, health/listeners.go), the answers of its handlers    *)
(* (server.go), the report it merges, the summary of the targets, and the  *)
(* self-description (selfdescription.go).                                  *)
(***************************************************************************)
EXTENDS Decision, Integers, FiniteSets, FiniteSetsExt, SequencesExt

CONSTANTS
    Retries,        \* ports a listener scans past its own
    ListenPorts,    \* the ports of the host
    KernelPort,     \* the one the kernel picks for port 0
    Summarised      \* the targets of a summary

ASSUME ViewsAssumption ==
    /\ Retries \in Nat /\ ListenPorts \subseteq Nat /\ KernelPort \in ListenPorts
    /\ IsFiniteSet(Summarised)

(* ----------------------------- listeners ------------------------------- *)
Surfaces == {"health", "hosted", "oauth"}
NoPort == -1
Ephemeral == 0

(* netbind.Listen: held ports are skipped, an unusable one ends the scan;  *)
(* port 0 is the kernel's choice and is not scanned past.                  *)
Listen(port, held, unusable) ==
    IF port = Ephemeral THEN IF KernelPort \in unusable THEN NoPort ELSE KernelPort
    ELSE LET stops == {p \in port .. port + Retries : p \notin held}
         IN  IF stops = {} \/ Min(stops \cup {port + Retries + 1}) \in unusable THEN NoPort
             ELSE Min(stops)

(* ClaimListener: the address on success, an unhealthy component else.     *)
ClaimListener(port, held, unusable) ==
    LET bound == Listen(port, held, unusable)
    IN  [bound |-> bound, component |-> IF bound = NoPort THEN "unhealthy" ELSE "healthy"]

(* listenerAddrOr: what is bound, else what was configured.                *)
ListenerAddrOr(bound, configured) == IF bound # NoPort THEN bound ELSE configured

(* buildPermissions: the addresses of the surfaces that are enabled.       *)
ListenAddrs(enabled, bound, configured) ==
    {ListenerAddrOr(bound[s], configured[s]) : s \in enabled \cup {"health"}}

ClaimInputs ==
    [port : ListenPorts, held : SUBSET ListenPorts, unusable : SUBSET ListenPorts]
DescribeInputs ==
    [enabled : SUBSET Surfaces, bound : [Surfaces -> {NoPort, 1, 2}],
     configured : [Surfaces -> {1, 3}]]

(* --------------------------- the handlers ------------------------------ *)
RequestInputs ==
    [path : {"healthz", "readyz", "status", "self", "root", "elsewhere", "report",
             "register", "list", "byRoute", "byContract", "name", "features", "certify"},
     method : {"GET", "POST", "DELETE", "PUT"}, body : {"ok", "bad", "incomplete"},
     live : BOOLEAN, ready : BOOLEAN, described : BOOLEAN, found : BOOLEAN,
     allowed : BOOLEAN]

HealthPaths == {"healthz", "readyz", "status", "self", "root", "elsewhere"}
IsotopePaths == {"register", "list", "byRoute", "byContract", "name"}

(* Of the probes and the document; "/" is a catch-all, answered exactly.   *)
HealthRoute(r) ==
    CASE r.path = "healthz" -> IF r.live THEN 200 ELSE 503
      [] r.path = "readyz" -> IF r.ready THEN 200 ELSE 503
      [] r.path = "self" -> IF r.described THEN 200 ELSE 404
      [] r.path = "elsewhere" -> 404
      [] OTHER -> 200

ReportRoute(r) == IF r.method # "POST" THEN 405 ELSE IF r.body = "bad" THEN 400 ELSE 200

(* handleIsotopeRoute: the method is looked at before the name.            *)
IsotopeRoute(r) ==
    CASE r.path = "register" -> IF r.method # "POST" THEN 405 ELSE IF r.body # "ok" THEN 400 ELSE 200
      [] r.path = "list" -> IF r.method = "GET" THEN 200 ELSE 405
      [] r.path \in {"byRoute", "byContract"} ->
            IF r.method # "GET" THEN 405 ELSE IF r.body = "incomplete" THEN 400
            ELSE IF r.found THEN 200 ELSE 404
      [] r.path = "name" ->
            IF r.method \notin {"GET", "DELETE"} THEN 405
            ELSE IF r.body = "incomplete" THEN 400
            ELSE IF r.found THEN IF r.method = "GET" THEN 200 ELSE 204 ELSE 404

FeatureRoute(r) ==
    CASE r.path = "features" -> IF r.method = "GET" THEN 200 ELSE 405
      [] r.path = "certify" ->
            IF r.method # "POST" THEN 405 ELSE IF r.body # "ok" THEN 400
            ELSE IF r.allowed THEN 200 ELSE 403

(* The status a request is answered with: the mux, then the handler.       *)
Handler(r) ==
    CASE r.path \in HealthPaths -> HealthRoute(r)
      [] r.path = "report" -> ReportRoute(r)
      [] r.path \in IsotopePaths -> IsotopeRoute(r)
      [] OTHER -> FeatureRoute(r)

(* What a request that is answered well changes, but for the names that    *)
(* have expired, which any isotope request may sweep.                      *)
Changes(r) ==
    CASE Handler(r) \notin {200, 204} -> "nothing"
      [] r.path = "report" /\ Handler(r) = 200 -> "targets"
      [] r.path = "register" /\ Handler(r) = 200 -> "isotopes"
      [] r.path = "name" /\ Handler(r) = 204 -> "isotopes"
      [] r.path = "certify" /\ Handler(r) = 200 -> "features"
      [] OTHER -> "nothing"

(* ------------------------ reports and summary -------------------------- *)
(* handleFederationReport: the targets as they are, the components but for *)
(* the ones under federation, and the roll-up.                             *)
ComponentNames == {"engine", "honeypot", "federation", "federation/x/engine"}
(* Mutant of IsFederationNamespaced: the roll-up alone.                    *)
IsFederationRollUp(name) == name = "federation"

IsFederationNamespaced(name) == name \in {"federation", "federation/x/engine"}
MergeReport(own, incoming) ==
    [c \in DOMAIN own |->
        IF c = "federation" THEN "healthy"
        ELSE IF incoming[c] # "none" /\ ~IsFederationNamespaced(c) THEN incoming[c] ELSE own[c]]
Views == {"none", "healthy", "sick"}
ReportInputs == [own : [ComponentNames -> Views], incoming : [ComponentNames -> Views]]

(* UpsertTargetStatus normalises a state; summarizeTargets counts it.      *)
TargetStates == {Blank, "healthy", "degraded", "unhealthy", "failed", "outage", "regression", "odd"}
Normalised(state) == IF state = Blank THEN "unknown" ELSE state
Bucket(state) ==
    CASE state \in {"healthy", "degraded", "outage", "regression"} -> state
      [] state \in {"unhealthy", "failed"} -> "unhealthy"
      [] OTHER -> "unknown"
Buckets == {"healthy", "degraded", "unhealthy", "outage", "regression", "unknown"}
SummarizeTargets(states) ==
    [b \in Buckets |-> Cardinality({t \in DOMAIN states : Bucket(Normalised(states[t])) = b})]
SummaryInputs == [Summarised -> TargetStates]

ViewsAsk ==
    \/ Ask("claim", ClaimInputs) \/ Ask("describe", DescribeInputs)
    \/ Ask("request", RequestInputs) \/ Ask("report", ReportInputs)
    \/ Ask("summary", SummaryInputs)
ViewsReply ==
    \/ Reply("claim", ClaimListener(in.port, in.held, in.unusable))
    \/ Reply("describe", ListenAddrs(in.enabled, in.bound, in.configured))
    \/ Reply("request", [status |-> Handler(in), changes |-> Changes(in)])
    \/ Reply("report", MergeReport(in.own, in.incoming))
    \/ Reply("summary", SummarizeTargets(in))
-----------------------------------------------------------------------------
(* A listener takes the first port from its own on that is not held, never *)
(* one past its retries, and gives up at a port it may not use; it is      *)
(* reported as sick exactly when it has none (ClaimListener).              *)
ClaimsNearest ==
    Answered("claim") /\ in.port # Ephemeral =>
        /\ (Answer.component = "unhealthy") <=> (Answer.bound = NoPort)
        /\ Answer.bound # NoPort =>
              /\ Answer.bound \in in.port .. in.port + Retries
              /\ Answer.bound \notin in.held \cup in.unusable
              /\ \A p \in in.port .. Answer.bound - 1 : p \in in.held
        /\ Answer.bound = NoPort =>
              \A p \in in.port .. in.port + Retries : p \notin in.held =>
                  \E q \in in.port .. p : q \in in.unusable \ in.held

(* A request that is refused changes nothing, and a reader never does.     *)
RefusedChangesNothing ==
    Answered("request") =>
        /\ Answer.changes # "nothing" => in.method \in {"POST", "DELETE"}
        /\ Answer.changes = "features" => in.allowed
        /\ in.path = "elsewhere" => Answer.status = 404

(* A report never adopts what the reporter mirrored from its own peers,    *)
(* and loses nothing else it says (handleFederationReport).                *)
ReportNoEcho ==
    Answered("report") => \A c \in ComponentNames :
        /\ c = "federation/x/engine" => Answer[c] = in.own[c]
        /\ ~IsFederationNamespaced(c) /\ in.incoming[c] # "none" => Answer[c] = in.incoming[c]

(* Every target is counted once, whatever its state is called.             *)
SummaryComplete ==
    Answered("summary") =>
        Answer["healthy"] + Answer["degraded"] + Answer["unhealthy"] + Answer["outage"]
            + Answer["regression"] + Answer["unknown"] = Cardinality(Summarised)

(* The document describes the ports being served: every bound surface that *)
(* is enabled, at the port it has.                                         *)
DescribesBound ==
    Answered("describe") => \A s \in in.enabled \cup {"health"} :
        in.bound[s] # NoPort => in.bound[s] \in Answer

(* The document describes no port that is not served.                      *)
DescribesOnlyBound ==
    Answered("describe") => Answer \subseteq {in.bound[s] : s \in Surfaces}

(* What the server binds, merges, counts and says of itself is what it     *)
(* has.                                                                    *)
ViewsTrue ==
    /\ ClaimsNearest
    /\ RefusedChangesNothing
    /\ ReportNoEcho
    /\ SummaryComplete
    /\ DescribesBound
=============================================================================
