---------------------------- MODULE ConfigRules ----------------------------
(***************************************************************************)
(* internal/config: ApplyDefaults and Validate (config.go) and the targets *)
(* that follow a listener to the port it bound (selfrefs.go).  Load is     *)
(* ApplyDefaults, then Validate.                                           *)
(*                                                                         *)
(* A text is Blank when it is unset; a duration is "ok" or "bad" (not a    *)
(* duration, or not positive); a choice is one of its values, or "bad".    *)
(* The sections whose rules do not interact are one table.                 *)
(***************************************************************************)
EXTENDS Decision, Integers, FiniteSets

CONSTANTS
    MaxPortNumber,      \* 65535
    DefaultBasePort,    \* 19100
    PortNumbers,        \* the port numbers a configuration uses
    WorkerCounts,       \* the values of max_workers
    SelfPorts           \* the ports of this process's listeners

ASSUME ConfigAssumption ==
    /\ MaxPortNumber \in Nat /\ DefaultBasePort \in 1 .. MaxPortNumber - 3
    /\ PortNumbers \subseteq Int /\ WorkerCounts \subseteq Int

Or(v, default) == IF v = Blank THEN default ELSE v
Durations == {Blank, "ok", "bad"}

(* ---------------------------- service ---------------------------------- *)
ServiceInputs ==
    [mode : {Blank, "foreground", "background", "headless", "bad"},
     profile : {Blank, "auto", "low", "medium", "high", "bad"},
     poll : Durations, timeout : Durations, workers : WorkerCounts]

(* applyEfficiencyProfile: the cap of a profile, which high has not, and   *)
(* what it falls back to.                                                  *)
Cap == [low |-> 2, medium |-> 4]
Fallback == [low |-> 1, medium |-> 4, high |-> 8]
OutOfProfile(profile, workers) ==
    workers <= 0 \/ (profile \in DOMAIN Cap /\ workers > Cap[profile])
ApplyEfficiencyProfile(s) ==
    LET profile == IF s.profile = "auto" THEN "medium" ELSE s.profile
    IN  IF profile \notin DOMAIN Fallback THEN s
        ELSE [s EXCEPT !.workers = IF OutOfProfile(profile, @) THEN Fallback[profile] ELSE @,
                       !.poll = Or(@, "ok"), !.timeout = Or(@, "ok")]

ServiceDefaults(s) ==
    LET mode == Or(s.mode, "background")
        profile == Or(s.profile, IF mode \in {"background", "headless"} THEN "low" ELSE "medium")
        p == ApplyEfficiencyProfile([s EXCEPT !.mode = mode, !.profile = profile])
    IN  [p EXCEPT !.poll = Or(@, "ok"), !.timeout = Or(@, "ok"),
                  !.workers = IF @ <= 0 THEN 4 ELSE @]

ServiceProblems(s) ==
    {f \in {"mode", "profile", "poll", "timeout"} : s[f] \in {Blank, "bad"}}
    \cup (IF s.workers \in 1 .. 2048 THEN {} ELSE {"workers"})

(* ---------------------------- health ----------------------------------- *)
HealthInputs ==
    [enabled : BOOLEAN, self : BOOLEAN, addr : {Blank, "default", "other", "bad"},
     paths : {Blank, "ok", "bad"}, ttl : Durations, secret : {"none", "given", "blank"},
     roots : {"none", "ok", "bad"}]

(* Mutant of HealthDefaults: asks for the default address before it is     *)
(* filled in.                                                              *)
HealthDefaultsEarly(h) ==
    [h EXCEPT !.addr = Or(@, "default"), !.paths = Or(@, "ok"), !.ttl = Or(@, "ok"),
              !.enabled = @ \/ h.addr = "default" \/ h.self]

(* Health is switched on for the default address, and for a self check.    *)
HealthDefaults(h) ==
    LET addr == Or(h.addr, "default")
    IN  [h EXCEPT !.addr = addr, !.paths = Or(@, "ok"), !.ttl = Or(@, "ok"),
                  !.enabled = @ \/ addr = "default" \/ h.self]

(* The listener is checked when it is enabled, the trust anchors always.   *)
HealthProblems(h) ==
    {f \in {"addr", "paths", "ttl"} : h.enabled /\ h[f] = "bad"}
    \cup {f \in {"secret"} : h.secret = "blank"}
    \cup {f \in {"roots"} : h.roots = "bad"}

(* ---------------- the sections without interaction --------------------- *)
(* field, the switch that gates its check, and the kind of its value:      *)
(* "text" falls back when unset, "count" also when it is not positive,     *)
(* "level" is clamped at zero, "list" may be empty, and "required" has no  *)
(* default.  An id is "bad" when it is taken.  A check's interval and      *)
(* timeout fall back to the service's, which are reported there.           *)
Field(section, gate, kind) == [section |-> section, gate |-> gate, kind |-> kind]
Always == "always"
MonitorFields ==
    {Field("runtime", Always, "text"),      \* graceful_shutdown_timeout
     Field("runtime", Always, "count"),     \* event_history_size
     Field("discovery", "enabled", "text"), \* interval, llms_txt.fetch_timeout
     Field("discovery", "enabled", "list"), \* ports, catalog urls, remote uris
     Field("alerts", Always, "text"),       \* dedupe_window, cooldown, severities
     Field("alerts", Always, "level"),      \* retry_before_escalation
     Field("auth", Always, "text"),         \* keystore.provider, redaction.mask
     Field("oauth", "enabled", "text")}     \* grace period, mock redirect
ServiceFields ==
    {Field("known_state", "enabled", "text"),
     Field("known_state", "enabled", "count"),
     Field("meta_config", "enabled", "text"),
     Field("remote_agent", "enabled", "text"),
     Field("remote_agent", "enabled", "list"),
     Field("hosted", "enabled", "text"),
     Field("dynamic_config", "enabled", "text")}
DocumentFields ==
    {Field("version", Always, "required"),
     Field("service", Always, "text"),      \* name, environment, log_level
     Field("target", Always, "required"),   \* id
     Field("target", "enabled", "required"),\* protocol
     Field("target", "enabled", "text"),    \* check.interval, timeout, profile
     Field("target", "enabled", "level"),   \* check.retries
     Field("target", "enabled", "list")}    \* required_methods, hurl_tests
SectionFields == MonitorFields \cup ServiceFields \cup DocumentFields
SectionInputs ==
    [field : SectionFields, enabled : BOOLEAN,
     value : {"unset", "ok", "bad", "not-positive"}]

FieldDefault(s) ==
    CASE s.field.kind = "text" /\ s.value = "unset" -> [s EXCEPT !.value = "ok"]
      [] s.field.kind = "count" /\ s.value \in {"unset", "not-positive"} -> [s EXCEPT !.value = "ok"]
      [] s.field.kind = "level" /\ s.value \in {"unset", "not-positive"} -> [s EXCEPT !.value = "ok"]
      [] OTHER -> s
Checked(s) == s.field.gate = "enabled" => s.enabled
FieldProblem(s) ==
    /\ Checked(s)
    /\ \/ s.value = "bad"
       \/ s.value = "unset" /\ s.field.kind # "list"
       \/ s.value = "not-positive"

(* -------------------------- federation --------------------------------- *)
FederationInputs ==
    [enabled : BOOLEAN, base : PortNumbers, max : PortNumbers, poll : Durations,
     report : Durations, heartbeat : Durations, introducer : {Blank, "set"},
     upstream : {Blank, "set"}, downstream : BOOLEAN]

FederationDefaults(f) ==
    LET base == IF f.base \notin 1 .. MaxPortNumber THEN DefaultBasePort ELSE f.base
        poll == Or(f.poll, "ok")
    IN  [f EXCEPT !.base = base,
                  !.max = IF @ <= 0 \/ @ < base \/ @ > MaxPortNumber THEN base + 3 ELSE @,
                  !.poll = poll, !.heartbeat = Or(@, "ok"), !.report = Or(@, poll),
                  !.introducer = Or(@, f.upstream)]

FederationProblems(f) ==
    IF ~f.enabled THEN {}
    ELSE {d \in {"poll", "report", "heartbeat"} : f[d] \in {Blank, "bad"}}
         \cup (IF f.base \in 1 .. MaxPortNumber THEN {} ELSE {"base"})
         \cup (IF f.max \in f.base .. MaxPortNumber THEN {} ELSE {"max"})
         \cup (IF f.downstream THEN {"downstream"} ELSE {})

(* ---------------------------- targets ---------------------------------- *)
(* Where a target is found.  args are stdio.args; command is the alias,    *)
(* alone or with arguments behind it.                                      *)
Schemes == {Blank, "http", "sse", "ws", "stdio", "bad"}
TargetInputs ==
    [enabled : BOOLEAN, transport : {Blank, "http", "websocket", "stdio", "bad"},
     type : {Blank, "local", "remote", "bad"}, endpoint : Schemes, url : {Blank, "http", "ws", "bad"},
     stdio : {Blank, "cmd"}, args : {Blank, "own"}, command : {Blank, "cmd", "cmd+args"},
     codes : {Blank, "given", "bad"}]

(* inferTransport: by scheme; sse stands for the paths that say so.        *)
InferTransport(e) ==
    CASE e = "ws" -> "websocket" [] e = "stdio" -> "stdio" [] e = "sse" -> "sse"
      [] OTHER -> "http"

(* reconcileTargetOpenCodeFields: the aliases fill what is unset, and a    *)
(* command brings its arguments with it.                                   *)
Reconcile(t) ==
    LET byType == IF t.type = "local" THEN Or(t.transport, "stdio") ELSE t.transport
        aliased == t.stdio = Blank /\ t.command # Blank
    IN  [t EXCEPT !.transport = IF aliased THEN Or(byType, "stdio") ELSE byType,
                  !.endpoint = Or(@, t.url), !.stdio = IF aliased THEN "cmd" ELSE @,
                  !.args = IF aliased /\ t.command = "cmd+args" THEN "alias" ELSE @]

(* The rest of the loop over the targets: the codes before the transport.  *)
TargetDefaults(t0) ==
    LET t == Reconcile(t0)
        codes == Or(t.codes, IF t.transport = "websocket" THEN "101" ELSE "200")
        transport == Or(t.transport, InferTransport(t.endpoint))
    IN  [t EXCEPT !.codes = codes, !.transport = transport,
                  !.endpoint = IF transport = "stdio" THEN Or(@, "stdio") ELSE @,
                  !.type = Or(@, IF transport = "stdio" THEN "local" ELSE "remote")]

TargetProblems(t) ==
    IF ~t.enabled THEN {}
    ELSE {f \in {"transport", "type", "codes", "endpoint"} : t[f] = "bad"}
         \cup (IF t.transport = "stdio" /\ t.stdio = Blank THEN {"command"} ELSE {})
         \cup (IF t.transport # "stdio" /\ t.endpoint = Blank THEN {"endpoint"} ELSE {})

(* What a target is asked with: the auth section, and the oauth block that *)
(* is its alias.  name is the header or the key's name.                    *)
CredentialInputs ==
    [enabled : BOOLEAN, type : {Blank, "none", "bearer", "apikey", "oauth", "bad"},
     client : {Blank, "own"}, token : {Blank, "own", "bad"}, secret : {Blank, "own"},
     name : {Blank, "own"},
     block : [given : BOOLEAN, client : {Blank, "block"}, token : {Blank, "block", "bad"},
              secret : {Blank, "block"}]]

(* The block is read only when no type of auth is written down.            *)
CredentialDefaults(t) ==
    IF t.block.given /\ t.type = Blank
    THEN [t EXCEPT !.type = "oauth", !.client = Or(@, t.block.client),
                   !.token = Or(@, t.block.token), !.secret = Or(@, t.block.secret)]
    ELSE [t EXCEPT !.type = Or(@, "none")]

CredentialProblems(t) ==
    IF ~t.enabled THEN {}
    ELSE {f \in {"type"} : t.type = "bad"}
         \cup {f \in {"secret", "name"} : t.type \in {"bearer", "apikey"} /\ t[f] = Blank}
         \cup {f \in {"client", "token"} : t.type = "oauth" /\ t[f] \in {Blank, "bad"}}

(* ------------------------ targets of our own --------------------------- *)
(* rewriteSelfEndpoint: a local URL that names a moved listener gets the   *)
(* port it bound; moved lists configured and bound ports, and the map is   *)
(* ranged over in any order.                                               *)
SelfInputs ==
    [host : {"local", "remote"}, port : SelfPorts,
     moved : {m \in SUBSET (SelfPorts \X SelfPorts) :
                 \A a, b \in m : a[1] = b[1] => a = b}]
RewriteSelfEndpoint(host, port, moved) ==
    IF host = "local" /\ \E m \in moved : m[1] = port
    THEN (CHOOSE m \in moved : m[1] = port)[2] ELSE port
-----------------------------------------------------------------------------
ConfigTopics == {"service", "health", "section", "federation", "target", "credentials"}

ConfigAsk ==
    \/ Ask("service", ServiceInputs) \/ Ask("health", HealthInputs)
    \/ Ask("section", SectionInputs) \/ Ask("federation", FederationInputs)
    \/ Ask("target", TargetInputs) \/ Ask("credentials", CredentialInputs)
    \/ Ask("self", SelfInputs)

(* Load: the configuration after ApplyDefaults, and Validate's problems.   *)
Loaded(c, problems) == [cfg |-> c, problems |-> problems]
ConfigReply ==
    \/ Reply("service", LET c == ServiceDefaults(in) IN Loaded(c, ServiceProblems(c)))
    \/ Reply("health", LET c == HealthDefaults(in) IN Loaded(c, HealthProblems(c)))
    \/ Reply("section", LET c == FieldDefault(in)
                        IN  Loaded(c, IF FieldProblem(c) THEN {"value"} ELSE {}))
    \/ Reply("federation", LET c == FederationDefaults(in) IN Loaded(c, FederationProblems(c)))
    \/ Reply("target", LET c == TargetDefaults(in) IN Loaded(c, TargetProblems(c)))
    \/ Reply("credentials", LET c == CredentialDefaults(in) IN Loaded(c, CredentialProblems(c)))
    \/ Reply("self", RewriteSelfEndpoint(in.host, in.port, in.moved))
-----------------------------------------------------------------------------
(* Normalising twice is normalising once: a reload applies the defaults to *)
(* a configuration that already has them.                                  *)
DefaultsIdempotent ==
    /\ Answered("service") => ServiceDefaults(Answer.cfg) = Answer.cfg
    /\ Answered("health") => HealthDefaults(Answer.cfg) = Answer.cfg
    /\ Answered("federation") => FederationDefaults(Answer.cfg) = Answer.cfg
    /\ Answered("target") => TargetDefaults(Answer.cfg) = Answer.cfg
    /\ Answered("credentials") => CredentialDefaults(Answer.cfg) = Answer.cfg

(* Only what has no default must be written down: the version, a target's  *)
(* id, protocol and address or command, and the fields of the type of auth *)
(* it names.  Whatever else was reported was written down wrong, or is the *)
(* port range of a base port with no room above it.                        *)
OnlyRequiredReported ==
    /\ Answered("service") => \A f \in Answer.problems :
          IF f = "workers" THEN in.workers > 2048 ELSE in[f] = "bad"
    /\ Answered("health") => \A f \in Answer.problems : in[f] \in {"bad", "blank"}
    /\ Answered("section") /\ in.value = "unset" =>
          (Answer.problems # {} <=> in.field.kind = "required" /\ Checked(in))
    /\ Answered("federation") => \A f \in Answer.problems :
          \/ f = "max" /\ Answer.cfg.base > MaxPortNumber - 3
          \/ f = "downstream"
          \/ f \in {"poll", "report", "heartbeat"} /\ (in[f] = "bad" \/ in.poll = "bad")
    /\ Answered("target") => \A f \in Answer.problems :
          CASE f = "command" -> in.stdio = Blank /\ in.command = Blank
            [] f = "endpoint" -> "bad" \in {in.endpoint, in.url} \/ {in.endpoint, in.url} = {Blank}
            [] OTHER -> in[f] = "bad"
    /\ Answered("credentials") => \A f \in Answer.problems :
          CASE f = "type" -> in.type = "bad"
            [] f \in {"secret", "name"} -> in.type \in {"bearer", "apikey"} /\ in[f] = Blank
            [] OTHER -> IF in[f] # Blank THEN in[f] = "bad"
                        ELSE in.type = Blank => in.block[f] \in {Blank, "bad"}

(* What passed validation is what the engine, the prober and the follower  *)
(* take for granted: workers, an interval, a stdio target with a command,  *)
(* any other with an address, a port range that exists, a client where     *)
(* OAuth is asked for and a secret where a bearer or a key is.             *)
LoadedIsRunnable ==
    topic \in ConfigTopics /\ Answered(topic) /\ Answer.problems = {} =>
        CASE topic = "service" -> Answer.cfg.workers \in 1 .. 2048
                                  /\ Answer.cfg.poll = "ok" /\ Answer.cfg.timeout = "ok"
          [] topic = "health" -> Answer.cfg.enabled =>
                                    Answer.cfg.addr \in {"default", "other"} /\ Answer.cfg.ttl = "ok"
          [] topic = "section" -> in.enabled =>
                                    Answer.cfg.value = "ok"
                                    \/ (Answer.cfg.value = "unset" /\ in.field.kind = "list")
          [] topic = "federation" -> Answer.cfg.enabled =>
                                        1 <= Answer.cfg.base /\ Answer.cfg.base <= Answer.cfg.max
                                        /\ Answer.cfg.max <= MaxPortNumber
          [] topic = "credentials" -> Answer.cfg.enabled =>
                 /\ Answer.cfg.type = "oauth" => Answer.cfg.client # Blank /\ Answer.cfg.token # Blank
                 /\ Answer.cfg.type \in {"bearer", "apikey"} => Answer.cfg.secret # Blank
          [] OTHER -> Answer.cfg.enabled =>
                 IF Answer.cfg.transport = "stdio" THEN Answer.cfg.stdio # Blank
                 ELSE Answer.cfg.endpoint \notin {Blank, "bad"}

(* A canonical field that is set is not overwritten by its alias, but for  *)
(* the arguments of a command that comes with its own; an alias whose      *)
(* field is unset is read.  The oauth block stands or falls as a whole:    *)
(* with a type of auth written down none of it counts.                     *)
CanonicalWins ==
    /\ Answered("target") =>
          /\ \A f \in {"endpoint", "stdio", "transport", "type"} :
                 in[f] # Blank => Answer.cfg[f] = in[f]
          /\ Answer.cfg.args # in.args =>
                 in.stdio = Blank /\ in.command = "cmd+args" /\ Answer.cfg.args = "alias"
          /\ in.endpoint = Blank /\ in.url # Blank => Answer.cfg.endpoint = in.url
          /\ in.stdio = Blank /\ in.command # Blank => Answer.cfg.stdio = "cmd"
    /\ Answered("credentials") =>
          /\ in.type # Blank => Answer.cfg = in
          /\ \A f \in {"client", "token", "secret"} :
                 IF in[f] # Blank THEN Answer.cfg[f] = in[f]
                 ELSE in.type = Blank /\ in.block.given => Answer.cfg[f] = in.block[f]

(* Refuted, and of no run: "Existing fields always win when both are set"  *)
(* (config.go:1312).  The arguments of a command alias replace stdio.args. *)
ArgsWin == Answered("target") /\ in.args # Blank => Answer.cfg.args = in.args

(* A target that names one of this process's listeners follows it to the   *)
(* port it bound, once; a remote target is never rewritten.                *)
SelfReferenceFollows ==
    Answered("self") =>
        /\ in.host = "remote" => Answer = in.port
        /\ in.host = "local" => \A m \in in.moved : m[1] = in.port => Answer = m[2]

(* Loading is a fixed point: defaults applied again change nothing, what   *)
(* has a default may be left out, what passes is runnable, and neither an  *)
(* alias nor a moved listener takes a value the user set (but for the      *)
(* arguments of a command).                                                *)
ConfigSettled ==
    /\ DefaultsIdempotent
    /\ OnlyRequiredReported
    /\ LoadedIsRunnable
    /\ CanonicalWins
    /\ SelfReferenceFollows
=============================================================================
