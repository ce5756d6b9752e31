------------------------------ MODULE OneShot ------------------------------
(***************************************************************************)
(* The commands that judge a configuration once: check and ops self-check  *)
(* (runOneShotChecks) and validate (cmdValidate), cmd/ocd-smoke-alarm.     *)
(* They repeat the stages of the engine's check with translations of their *)
(* own, and their exit code is what scripts and CI read.                   *)
(*                                                                         *)
(* A target is what each stage would meet: compiled, the verdict of its    *)
(* HURL tests ("none" without any, the class of the first that fails), the *)
(* error of BuildHeaders, and the state the prober returns or the error it *)
(* fails with.  Its kind is remote, stdio, or stdio and "unasked": with    *)
(* the profile none it is never started.  inTime is the number of targets  *)
(* reached before the 30 seconds of the command are over.                  *)
(***************************************************************************)
EXTENDS Targets, ConfigRules

CONSTANTS
    TargetIDs,      \* the IDs of targets
    CheckedLists,   \* the lists of targets that are checked
    Deadlines       \* the values of inTime

ProbeStates == {"healthy", "degraded", "unhealthy"}
ProbeErrors == {"timeout", "unreachable", "tls", "other"}
AuthErrors == {"setup", "oauth", "other"}
GateFailures == {"protocol", "network"}

OneShotTarget ==
    {t \in [id : TargetIDs, enabled : BOOLEAN, compiles : BOOLEAN,
            gate : {"none", "open"} \cup GateFailures, auth : {"ok"} \cup AuthErrors,
            kind : {"remote", "stdio", "unasked"}, probe : ProbeStates \cup ProbeErrors] :
        t.kind # "remote" => t.probe \in {"healthy", "unhealthy"}}

(* config.Validate refuses an ID that is used twice.                       *)
ASSUME OneShotAssumption ==
    /\ TargetIDs \subseteq Int /\ Deadlines \subseteq Nat
    /\ CheckedLists \subseteq Seq(OneShotTarget)
    /\ \A ts \in CheckedLists : \A i, j \in 1 .. Len(ts) : ts[i].id = ts[j].id => i = j

OneShotResult(t, state, class) == [id |-> t.id, state |-> state, class |-> class]

(* ---------------------- the outcome of each stage ---------------------- *)
mapOneShotConfigFailure(t) == OneShotResult(t, "unhealthy", "config")
mapOneShotSafetyFailure(t) == OneShotResult(t, "unhealthy", t.gate)

(* Material that is missing here is not the target's failure.              *)
mapOneShotAuthFailure(t) ==
    IF t.auth = "setup" THEN OneShotResult(t, "degraded", "config")
    ELSE OneShotResult(t, "unhealthy", "auth")

(* Mutant of mapOneShotProbeFailure: what does not connect is slow.        *)
mapOneShotProbeFailureSlow(t, error) ==
    CASE error \in {"timeout", "unreachable"} -> OneShotResult(t, "degraded", "timeout")
      [] error = "tls" -> OneShotResult(t, "unhealthy", "tls")
      [] OTHER -> OneShotResult(t, "unhealthy", "unknown")

mapOneShotProbeFailure(t, error) ==
    CASE error = "timeout" -> OneShotResult(t, "degraded", "timeout")
      [] error = "unreachable" -> OneShotResult(t, "outage", "network")
      [] error = "tls" -> OneShotResult(t, "unhealthy", "tls")
      [] OTHER -> OneShotResult(t, "unhealthy", "unknown")

(* A probe begun after the deadline fails with it, which the stdio prober  *)
(* turns into a result of its own; tests are skipped, which does not       *)
(* block.                                                                  *)
ProbeOnce(t, late) ==
    CASE t.kind = "unasked" -> OneShotResult(t, "healthy", "none")
      [] t.kind = "stdio" /\ late -> OneShotResult(t, "unhealthy", "timeout")
      [] t.kind = "remote" /\ late -> mapOneShotProbeFailure(t, "timeout")
      [] t.kind = "remote" /\ ~late /\ t.probe \in ProbeErrors -> mapOneShotProbeFailure(t, t.probe)
      [] OTHER -> OneShotResult(t, t.probe, "none")

CheckOnce(t, late) ==
    CASE ~t.compiles -> mapOneShotConfigFailure(t)
      [] t.compiles /\ t.gate \in GateFailures /\ ~late -> mapOneShotSafetyFailure(t)
      [] t.compiles /\ (t.gate \notin GateFailures \/ late) /\ t.auth # "ok" -> mapOneShotAuthFailure(t)
      [] OTHER -> ProbeOnce(t, late)

(* sort.Slice by target ID: each result after those not above it.          *)
InsertByID(done, r) ==
    Filter(done, {x \in Range(done) : x.id <= r.id}) \o <<r>>
    \o Filter(done, {x \in Range(done) : x.id > r.id})
SortByID(results) == Loop(InsertByID, <<>>, results)

(* The enabled targets in their order, and the results by ID.              *)
RunOneShotChecks(ts, inTime) ==
    LET enabled == EnabledTargets(ts)
    IN  SortByID([i \in 1 .. Len(enabled) |-> CheckOnce(enabled[i], i > inTime)])

(* CheckResult.IsFailure; the report in JSON has no exit code of its own.  *)
cmdCheck(ts, inTime, json) ==
    LET results == RunOneShotChecks(ts, inTime)
    IN  [results |-> results,
         fails |-> ~json /\ \E i \in 1 .. Len(results) :
                                results[i].state \in {"unhealthy", "outage", "regression"}]

(* The targets validate has an issue with once the configuration loaded,   *)
(* and 0 for the health section.                                           *)
validateConfigIssues(ts, health) ==
    {i \in 1 .. Len(ts) :
        /\ ts[i].enabled
        /\ \/ ts[i].endpoint = Blank /\ ~ts[i].command
           \/ ts[i].auth.type = "oauth" /\ (~ts[i].auth.clientID \/ ts[i].auth.tokenURL = Blank)}
    \cup {i \in {0} : health.enabled /\ health.addr = Blank}

(* config.Load refuses first; issues found after it are printed, and the   *)
(* command succeeds.                                                       *)
cmdValidate(ts, h) ==
    LET health == HealthDefaults(h)
    IN  IF (\E i \in 1 .. Len(ts) : ConfigProblems(ts, i) # {}) \/ HealthProblems(health) # {}
        THEN [fails |-> TRUE, issues |-> {}]
        ELSE [fails |-> FALSE, issues |-> validateConfigIssues(ts, health)]
-----------------------------------------------------------------------------
OneShotInputs == [targets : CheckedLists, inTime : Deadlines, json : BOOLEAN]
ValidateInputs ==
    [targets : TargetLists,
     health : [enabled : BOOLEAN, self : {FALSE}, addr : {Blank, "default", "other", "bad"},
               paths : {"ok"}, ttl : {"ok"}, secret : {"none"}, roots : {"none"}]]

(* For TLC: IDs need not be in the order of the configuration.             *)
Quiet == [id |-> 2, enabled |-> TRUE, compiles |-> TRUE, gate |-> "none",
          auth |-> "ok", kind |-> "remote", probe |-> "healthy"]
CheckedSample ==
    {<<[Quiet EXCEPT !.id = 3 - t.id, !.compiles = c], t>> : t \in OneShotTarget, c \in BOOLEAN}

OneShotAsk ==
    \/ Ask("check", OneShotInputs)
    \/ Ask("validate", ValidateInputs)
OneShotReply ==
    \/ Reply("check", cmdCheck(in.targets, in.inTime, in.json))
    \/ Reply("validate", cmdValidate(in.targets, in.health))
-----------------------------------------------------------------------------
(* Every enabled target has its one line in the report, in order of ID,    *)
(* whichever stage it got stuck at and even when the time is over: one     *)
(* broken target hides neither itself nor the others.                      *)
OneLineEach ==
    Answered("check") =>
        /\ {Answer.results[i].id : i \in 1 .. Len(Answer.results)}
             = {in.targets[i].id : i \in {j \in 1 .. Len(in.targets) : in.targets[j].enabled}}
        /\ \A i, j \in 1 .. Len(Answer.results) :
               i < j => Answer.results[i].id < Answer.results[j].id

(* A check (without --json) that succeeds found that every target          *)
(* compiles, and of those it had the time to ask, whose gate opens and     *)
(* whose credentials are there, that none refused the connection, failed   *)
(* in TLS or was unhealthy.  What it lets pass is a remote target that     *)
(* answers too late; a stdio target of profile none is not asked at all.   *)
SuccessMeansReached ==
    Answered("check") /\ ~in.json /\ ~Answer.fails =>
        \A i \in 1 .. Len(in.targets) :
            LET t == in.targets[i]
            IN  t.enabled =>
                    /\ t.compiles
                    /\ i <= in.inTime /\ t.gate \notin GateFailures /\ t.auth = "ok"
                          /\ t.kind # "unasked"
                           => t.probe \in {"healthy", "degraded", "timeout"}

(* The second validation of validate agrees with the first: it has no      *)
(* issue with a configuration that loads, so it never has to say "invalid" *)
(* and succeed.                                                            *)
ValidMeansNoIssues == Answered("validate") /\ ~Answer.fails => Answer.issues = {}

(* Refuted, and of no run: "exits non-zero when a target is unreachable"   *)
(* (docs/features/catalog/config-validation.md:33).  A target that hangs   *)
(* is reported as degraded, and --json always succeeds.                    *)
ExitTellsUnreachable ==
    Answered("check") =>
        ((\E i \in 1 .. Len(in.targets) : /\ in.targets[i].enabled /\ in.targets[i].compiles
                            /\ in.targets[i].gate \notin GateFailures /\ in.targets[i].auth = "ok"
                            /\ in.targets[i].probe \in {"timeout", "unreachable"})
            => Answer.fails)

(* A one-shot check accounts for every target, its exit does not claim     *)
(* more than it reached, and validate calls valid what has no issues.      *)
OneShotTells ==
    /\ OneLineEach
    /\ SuccessMeansReached
    /\ ValidMeansNoIssues
=============================================================================
