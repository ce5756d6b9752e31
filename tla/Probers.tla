------------------------------ MODULE Probers ------------------------------
(***************************************************************************)
(* The handshakes of internal/engine: HTTPProber (engine.go), StdioProber  *)
(* (stdio_prober.go) and the check of an initialize result                 *)
(* (mcp_handshake.go), from a target as the configuration leaves it        *)
(* (ApplyDefaults of config.go) to the result, over what the peer answers; *)
(* and the peer the alarm itself hosts (dispatchRPC of hosted/server.go).  *)
(***************************************************************************)
EXTENDS Decision, FiniteSets, SequencesExt

CONSTANTS
    MethodLists,    \* the lists of required_methods
    Peers           \* what the other side of a handshake answers

Methods == {"initialize", "tools/list", "resources/list", "session/setup",
            "prompt/turn", "ping"}
Families == {"tools", "resources"}

(* ------------------------- which methods are asked --------------------- *)
HandshakeProfiles == {Blank, "none", "base", "strict"}
ASSUME MethodsAssumption == MethodLists \subseteq Seq(Methods \cup {Blank})
(* For TLC: nothing, a method twice, a list that does not begin with       *)
(* initialize.                                                             *)
MethodSample == {<<>>, <<"initialize", "initialize">>, <<"tools/list", "initialize">>}

(* ApplyDefaults of a target's check.                                      *)
CheckDefaults(t) ==
    LET handshakes == t.protocol \in {"mcp", "acp"}
    IN  [t EXCEPT
            !.profile = IF @ = Blank THEN IF handshakes THEN "base" ELSE "none" ELSE @,
            !.required = IF @ = <<>> /\ handshakes THEN <<"initialize">> ELSE @]

(* normalizeMethods, normalizeHandshakeMethods: no blank, no second one.   *)
NormalizeMethods(list) ==
    Loop(LAMBDA done, m : IF m = Blank \/ Contains(done, m) THEN done ELSE Append(done, m),
         <<>>, list)

StrictMethods(protocol, transport) ==
    CASE protocol = "acp" -> <<"initialize", "session/setup", "prompt/turn">>
      [] protocol # "mcp" /\ transport = "stdio" -> <<"initialize", "ping">>
      [] OTHER -> <<"initialize", "tools/list", "resources/list">>

(* handshakeMethods, httpHandshakeMethods: the required ones, else the     *)
(* profile's.                                                              *)
HandshakeMethods(t) ==
    IF t.required # <<>> THEN NormalizeMethods(t.required)
    ELSE IF t.profile = "strict" THEN StrictMethods(t.protocol, t.transport)
    ELSE <<"initialize">>

ShouldRunHTTPHandshake(t) ==
    /\ t.protocol \in {"mcp", "acp"} /\ t.transport # "sse"
    /\ t.profile # "none"

(* ------------------------- what a peer may answer ---------------------- *)
InitResults ==
    [version : {"missing", "unsupported", "supported"}, caps : {"missing", "map"},
     info : {"missing", "unnamed", "complete"}]
GoodInit == [version |-> "supported", caps |-> "map", info |-> "complete"]
Advertisements == [Families -> {"absent", "null", "present"}]
Peer ==
    [starts : BOOLEAN, answers : [Methods -> {"ok", "down", "status", "garbage", "rejected"}],
     notified : {"ok", "down", "status"}, init : InitResults, advertised : Advertisements]
ASSUME PeersAssumption == Peers \subseteq Peer
(* For TLC: one that breaks off anywhere, or one that answers anything.    *)
PeerSample ==
    {p \in [starts : {TRUE}, answers : [Methods -> {"ok", "down", "status", "garbage", "rejected"}],
            notified : {"ok", "down", "status"}, init : {GoodInit},
            advertised : {[f \in Families |-> "present"]}] :
        \A m \in {"session/setup", "prompt/turn", "ping"} : p.answers[m] = "ok"}
    \cup
    [starts : BOOLEAN, answers : {[m \in Methods |-> "ok"]}, notified : {"ok"}, init : InitResults,
     advertised : Advertisements]

(* validateMCPInitializeResult.                                            *)
ValidInitialize(r) == r.version = "supported" /\ r.caps = "map" /\ r.info = "complete"

(* ------------------------------ over HTTP ------------------------------ *)
Outage == [state |-> "error", class |-> "transport", exercised |-> <<>>]
Result(state, class, exercised) ==
    [state |-> state, class |-> class, exercised |-> exercised]

(* One turn of the loop of probeJSONRPCHandshakeHTTP: a failure is         *)
(* recorded and the next method is asked, except after an initialize that  *)
(* is invalid or whose notification is refused.                            *)
HTTPStep(t, peer, h, m) ==
    LET answer == peer.answers[m]
        failed == [h EXCEPT !.failed = Append(@, m)]
        good == [h EXCEPT !.exercised = Append(@, m),
                          !.initialized = @ \/ m = "initialize"]
    IN  IF h.over # "no" THEN h
        ELSE CASE answer = "down" -> [h EXCEPT !.over = "outage"]
               [] answer \in {"status", "garbage", "rejected"} -> failed
               [] OTHER ->
                    IF m # "initialize" \/ t.protocol # "mcp" THEN good
                    ELSE IF ~ValidInitialize(peer.init) THEN [failed EXCEPT !.over = "break"]
                    ELSE CASE peer.notified = "down" -> [good EXCEPT !.over = "outage"]
                           [] peer.notified = "status" ->
                                [good EXCEPT !.over = "break",
                                             !.failed = Append(@, "notifications/initialized")]
                           [] OTHER -> good

(* capabilityGap: a family advertised as null is not advertised.           *)
CapabilityGap(declared, advertised) == {f \in declared : advertised[f] # "present"}

(* Mutant of HTTPHandshake: what cannot be reached is degraded.            *)
HTTPHandshakeSoft(t, peer) ==
    IF \A m \in Range(HandshakeMethods(t)) : peer.answers[m] = "ok"
    THEN Result("healthy", "none", HandshakeMethods(t))
    ELSE Result("degraded", "protocol", <<>>)

(* probeJSONRPCHandshakeHTTP: nothing answered, some of it, not what was   *)
(* declared, all of it.                                                    *)
HTTPHandshake(t, peer) ==
    LET h == Loop(LAMBDA done, m : HTTPStep(t, peer, done, m),
                  [exercised |-> <<>>, failed |-> <<>>, initialized |-> FALSE, over |-> "no"],
                  HandshakeMethods(t))
        gap == IF h.initialized /\ peer.init.caps = "map"
               THEN CapabilityGap(t.declared, peer.advertised) ELSE t.declared
    IN  CASE h.over = "outage" -> Outage
          [] h.over # "outage" /\ h.exercised = <<>> -> Result("unhealthy", "protocol", <<>>)
          [] h.over # "outage" /\ h.exercised # <<>> /\ (h.failed # <<>> \/ gap # {}) ->
                Result("degraded", "protocol", h.exercised)
          [] OTHER -> Result("healthy", "none", h.exercised)

StatusMatches(code, expected) ==
    IF expected = {} THEN code \in 200 .. 299 ELSE code \in expected

(* probeSimpleHTTP and probeSSE: the status, and the type of a stream.     *)
SimpleProbe(t, page) ==
    CASE page.code = 0 -> Outage
      [] page.code # 0 /\ t.transport = "sse" /\ page.type = "other" ->
            Result("unhealthy", "protocol", <<>>)
      [] page.code # 0 /\ ~(t.transport = "sse" /\ page.type = "other")
            /\ ~StatusMatches(page.code, t.codes) -> Result("unhealthy", "protocol", <<>>)
      [] OTHER -> Result("healthy", "none", <<>>)

(* HTTPProber.Probe: by the scheme of the endpoint, whatever the transport *)
(* says.  A websocket is only dialled.                                     *)
HTTPProbe(t, peer, page) ==
    CASE t.scheme = "http" /\ ShouldRunHTTPHandshake(t) -> HTTPHandshake(t, peer)
      [] t.scheme = "http" /\ ~ShouldRunHTTPHandshake(t) -> SimpleProbe(t, page)
      [] t.scheme = "ws" -> IF page.code = 0 THEN Outage ELSE Result("healthy", "none", <<>>)
      [] OTHER -> Result("error", "unknown", <<>>)

(* ------------------------------ over stdio ----------------------------- *)
(* performHandshake: the first failure ends it; capabilities are not       *)
(* looked at, and the notification is only written.  A peer that is down   *)
(* closed its output, one with a bad status uses Content-Length frames;    *)
(* lines that do not parse are skipped, so garbage ends with the deadline. *)
(* classifyStdioError tells them apart by the wording of the error; a      *)
(* command that does not start is a mistake of the configuration.          *)
StdioStep(t, peer, h, m) ==
    IF h.failed # "none" THEN h
    ELSE CASE peer.answers[m] \in {"down", "status"} -> [h EXCEPT !.failed = "protocol"]
           [] peer.answers[m] = "garbage" -> [h EXCEPT !.failed = "timeout"]
           [] peer.answers[m] = "rejected" -> [h EXCEPT !.failed = "protocol"]
           [] OTHER -> IF m = "initialize" /\ t.protocol = "mcp" /\ ~ValidInitialize(peer.init)
                       THEN [h EXCEPT !.failed = "protocol"]
                       ELSE [h EXCEPT !.exercised = Append(@, m)]

StdioHandshake(t, peer) ==
    LET h == Loop(LAMBDA done, m : StdioStep(t, peer, done, m),
                  [exercised |-> <<>>, failed |-> "none"], HandshakeMethods(t))
    IN  IF ~peer.starts THEN Result("unhealthy", "config", <<>>)
        ELSE IF HandshakeMethods(t) = <<>> THEN Result("unhealthy", "protocol", <<>>)
        ELSE Result(IF h.failed = "none" THEN "healthy" ELSE "unhealthy", h.failed, h.exercised)

(* StdioProber.Probe; what is not stdio goes to the fallback, whose        *)
(* headers are dropped.                                                    *)
StdioProbe(t, peer, page) ==
    CASE t.transport # "stdio" -> HTTPProbe(t, peer, page)
      [] t.transport = "stdio" /\ t.profile = "none" -> Result("healthy", "none", <<>>)
      [] OTHER -> StdioHandshake(t, peer)

(* ------------------------- the hosted server --------------------------- *)
Protocols == {"mcp", "acp", "a2a"}

(* dispatchRPC: the methods a protocol has.                                *)
DispatchRPC(protocol, m) ==
    LET served == CASE m \in {"initialize", "ping"} -> Protocols
                    [] m = "session/setup" -> {"acp"}
                    [] m \in {"tools/list", "resources/list"} -> {"mcp"}
                    [] m = "prompt/turn" -> {"acp", "a2a"}
    IN  IF protocol \in served THEN "ok" ELSE "rejected"

(* handleProtocol and handleJSONRPC, as the prober meets them: a server    *)
(* without the HTTP transport answers 501; the notification is a request   *)
(* with an unknown method, and its error has status 200.                   *)
Hosted(protocol, http) ==
    [starts |-> TRUE, answers |-> [m \in Methods |-> IF ~http THEN "status" ELSE DispatchRPC(protocol, m)],
     notified |-> IF http THEN "ok" ELSE "status", init |-> GoodInit,
     advertised |-> [f \in Families |-> "present"]]

(* A GET: a stream for who accepts one and 501 without the transport, 405  *)
(* for who does not.                                                       *)
HostedPage(t, sse) ==
    CASE t.transport = "sse" /\ sse -> [code |-> 200, type |-> "stream"]
      [] t.transport = "sse" /\ ~sse -> [code |-> 501, type |-> "other"]
      [] OTHER -> [code |-> 405, type |-> "other"]

(* ------------------------------ questions ------------------------------ *)
(* A stdio target has the address stdio://local.                           *)
Checks ==
    {c \in [protocol : {"mcp", "acp", "http"}, transport : {"http", "websocket", "stdio"},
            scheme : {"http", "ws", "other"}, profile : HandshakeProfiles,
            required : MethodLists, declared : {{}, {"tools"}}, codes : {{200}}] :
        c.transport = "stdio" <=> c.scheme = "other"}
PageInputs ==
    [check : [protocol : {"mcp", "http"}, transport : {"http", "sse", "websocket"},
              scheme : {"http", "ws", "other"}, profile : {"none", "base"}, required : {<<>>},
              declared : {{}}, codes : {{}, {101}, {200}, {401, 503}}],
     page : [code : {0, 101, 200, 204, 401, 503}, type : {Blank, "stream", "other"}]]
(* With the methods of the default, or all those of its protocol.          *)
SelfProbeInputs ==
    [check : {c \in [protocol : {"mcp", "acp"}, transport : {"http", "sse"}, scheme : {"http"},
                     profile : HandshakeProfiles,
                     required : {<<>>, StrictMethods("mcp", "http"), StrictMethods("acp", "http")},
                     declared : {{}, {"tools"}}, codes : {{200}}] :
                 c.required \in {<<>>, StrictMethods(c.protocol, "http")}},
     http : BOOLEAN, sse : BOOLEAN]
GoodPage == [code |-> 200, type |-> Blank]

ProbeAsk ==
    \/ Ask("handshake", [check : Checks, peer : Peers])
    \/ Ask("page", PageInputs)
    \/ Ask("selfprobe", SelfProbeInputs)
ProbeReply ==
    \/ Reply("handshake", StdioProbe(CheckDefaults(in.check), in.peer, GoodPage))
    \/ Reply("page", StdioProbe(CheckDefaults(in.check), Hosted("mcp", TRUE), in.page))
    \/ Reply("selfprobe", StdioProbe(CheckDefaults(in.check), Hosted(in.check.protocol, in.http),
                                     HostedPage(in.check, in.sse)))
-----------------------------------------------------------------------------
(* A handshake is made: over stdio by the profile, else by the address     *)
(* and the protocol.                                                       *)
HandshakeRuns(t) ==
    IF t.transport = "stdio" THEN t.profile # "none"
    ELSE t.scheme = "http" /\ ShouldRunHTTPHandshake(t)

(* A target is never called healthy on a handshake that was not carried    *)
(* through: every method asked of it answered, an MCP server's initialize  *)
(* was valid and (over HTTP) its notification accepted, over HTTP every    *)
(* declared capability is advertised by a promise, not by a name, and over *)
(* stdio the server was started.                                           *)
HealthyMeansAnswered ==
    LET t == CheckDefaults(in.check)
    IN  Answered("handshake") /\ Answer.state = "healthy" /\ HandshakeRuns(t) =>
            /\ Answer.exercised = HandshakeMethods(t) /\ Answer.exercised # <<>>
            /\ \A m \in Range(Answer.exercised) : in.peer.answers[m] = "ok"
            /\ t.protocol = "mcp" /\ Contains(Answer.exercised, "initialize") =>
                  /\ ValidInitialize(in.peer.init)
                  /\ t.transport # "stdio" => in.peer.notified = "ok"
            /\ IF t.transport = "stdio" THEN in.peer.starts
               ELSE \A f \in t.declared : in.peer.advertised[f] = "present"

(* Degraded keeps its meaning: the peer answered something, and something  *)
(* asked or declared is missing; an unreachable peer is never degraded.    *)
DegradedIsPartial ==
    Answered("handshake") /\ Answer.state = "degraded" =>
        /\ Answer.exercised # <<>>
        /\ \/ \E m \in Range(HandshakeMethods(CheckDefaults(in.check))) : in.peer.answers[m] # "ok"
           \/ in.peer.notified # "ok" \/ ~ValidInitialize(in.peer.init)
           \/ \E f \in in.check.declared : in.peer.advertised[f] # "present"
           \/ in.check.declared # {} /\ ~Contains(Answer.exercised, "initialize")

(* Only a target of a protocol with a handshake is held to one: for the    *)
(* others, and for streams, the page decides by its status.                *)
PageDecides ==
    Answered("page") /\ in.check.scheme = "http" /\ in.page.code # 0
        /\ (in.check.protocol = "http" \/ in.check.profile = "none" \/ in.check.transport = "sse") =>
        (Answer.state = "healthy") <=>
            /\ StatusMatches(in.page.code, in.check.codes)
            /\ ~(in.check.transport = "sse" /\ in.page.type = "other")

(* The alarm passes its own test exactly where it serves what the prober   *)
(* asks for: the whole handshake of an MCP or an ACP surface with its HTTP *)
(* transport on, a stream with its SSE transport on.  With the profile     *)
(* none it fails: the prober sends a plain GET, which the server refuses.  *)
SelfProbeAnswered ==
    Answered("selfprobe") =>
        ((Answer.state = "healthy") <=>
            IF in.check.transport = "sse" THEN in.sse
            ELSE in.check.profile # "none" /\ in.http)

(* "strict: initialize, tools/list, resources/list" (README.md): a target  *)
(* of the strict profile with no methods of its own is asked all of them.  *)
StrictAsksAll ==
    Answered("handshake") /\ in.check.profile = "strict" /\ in.check.required = <<>>
        /\ HandshakeRuns(in.check) /\ Answer.state = "healthy" /\ in.check.protocol \in {"mcp", "acp"} =>
        Answer.exercised = StrictMethods(in.check.protocol, in.check.transport)

(* Healthy, degraded and unhealthy follow from what was answered, for      *)
(* every place a handshake can break off at; and the server this program   *)
(* hosts passes the handshake this program makes of it.                    *)
ProbeVerdictsTrue ==
    /\ HealthyMeansAnswered
    /\ DegradedIsPartial
    /\ PageDecides
    /\ SelfProbeAnswered
=============================================================================
