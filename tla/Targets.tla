------------------------------ MODULE Targets ------------------------------
(***************************************************************************)
(* The way of a target from the configuration into the engine:             *)
(* config.Validate on an enabled target (internal/config), compileTargets  *)
(* (internal/engine) and Target.Validate (internal/targets).  The two      *)
(* validations were written apart, in two vocabularies, and a target has   *)
(* to pass both.                                                           *)
(*                                                                         *)
(* An address is its scheme, with "#" when a fragment follows the host:    *)
(* url.Parse, of the first validation, cuts fragments off, and             *)
(* url.ParseRequestURI, of the second, takes them for a part of the host   *)
(* and refuses.  It is Blank when unset and "bad" when neither takes it.   *)
(* An id is Blank, "space" when it is only white space, or a name.  check  *)
(* and hurl name the one field of the check policy, or of a HURL test,     *)
(* that is wrong or, "fragment", an endpoint with a fragment.              *)
(***************************************************************************)
EXTENDS Decision, SequencesExt

CONSTANT TargetLists    \* the lists of targets a configuration may have

Transports == {"http", "sse", "websocket", "stdio"}
IDs == {Blank, "space", "one", "other"}
Fragments == {"http#", "ws#", "stdio#"}
EndpointSchemes == {Blank, "http", "ws", "stdio", "ftp", "bad"} \cup Fragments
CheckFaults ==
    {"ok", "interval", "timeout", "negative-retries", "101-retries", "profile", "blank-method"}
HurlFaults == {"none", "ok", "unnamed", "neither", "both", "endpoint", "fragment", "method"}

NoAuth ==
    [type |-> "none", secretRef |-> FALSE, header |-> FALSE, keyName |-> FALSE,
     clientID |-> FALSE, tokenURL |-> Blank, redirectURL |-> Blank, callbackID |-> FALSE]
AuthConfigs ==
    [type : {"none", "bearer", "apikey", "oauth", "bad"}, secretRef : BOOLEAN,
     header : BOOLEAN, keyName : BOOLEAN, clientID : BOOLEAN,
     tokenURL : {Blank, "http", "bad"}, redirectURL : {Blank, "http", "bad"}, callbackID : BOOLEAN]

Target ==
    [enabled : BOOLEAN, id : IDs, protocol : {"mcp", "bad"}, transport : Transports,
     endpoint : EndpointSchemes, command : BOOLEAN, check : CheckFaults, hurl : HurlFaults,
     auth : AuthConfigs]
ASSUME TargetsAssumption == TargetLists \subseteq Seq(Target)

(* For TLC: the groups of fields no rule relates are varied one at a time. *)
GoodTarget ==
    [enabled |-> TRUE, id |-> "one", protocol |-> "mcp", transport |-> "http", endpoint |-> "http",
     command |-> FALSE, check |-> "ok", hurl |-> "none", auth |-> NoAuth]
Connections ==
    {[GoodTarget EXCEPT !.enabled = e, !.id = i, !.protocol = p, !.transport = t,
                        !.endpoint = s, !.command = c] :
        e \in BOOLEAN, i \in IDs, p \in {"mcp", "bad"}, t \in Transports,
        s \in EndpointSchemes, c \in BOOLEAN}
Policies == {[GoodTarget EXCEPT !.check = c, !.hurl = h] : c \in CheckFaults, h \in HurlFaults}
Secured == {[GoodTarget EXCEPT !.auth = a] : a \in AuthConfigs}
TargetListSample ==
    {<<t, [GoodTarget EXCEPT !.id = "other"]>> : t \in Connections \cup Policies \cup Secured}

(* ------------------------- config.Validate ----------------------------- *)
(* validateURL: the schemes the configuration knows.                       *)
ConfigURL(e) == e \in {"http", "ws", "stdio"} \cup Fragments

ConnectionProblems(t) ==
    (IF t.protocol = "bad" THEN {"protocol"} ELSE {})
    \cup (IF t.transport = "stdio" /\ ~t.command THEN {"command"} ELSE {})
    \cup (IF ConfigURL(t.endpoint) \/ (t.transport = "stdio" /\ t.endpoint = Blank)
          THEN {} ELSE {"endpoint"})

AuthProblems(a) ==
    CASE a.type = "none" -> {}
      [] a.type = "bearer" -> IF a.secretRef /\ a.header THEN {} ELSE {"auth"}
      [] a.type = "apikey" -> IF a.secretRef /\ a.keyName THEN {} ELSE {"auth"}
      [] a.type = "oauth" -> IF /\ a.clientID /\ ConfigURL(a.tokenURL)
                                /\ a.redirectURL = Blank \/ ConfigURL(a.redirectURL)
                             THEN {} ELSE {"auth"}
      [] OTHER -> {"auth"}

(* Neither empty nor used before; white space will do.                     *)
IDProblems(ts, i) ==
    IF ts[i].id = Blank \/ \E j \in 1 .. i - 1 : ts[j].id = ts[i].id THEN {"id"} ELSE {}

(* Mutant of ConfigProblems: the HURL tests are left to the engine.        *)
ConfigProblemsNoHurl(ts, i) ==
    LET t == ts[i]
    IN  IDProblems(ts, i)
        \cup IF ~t.enabled THEN {}
             ELSE ConnectionProblems(t) \cup AuthProblems(t.auth) \cup ({t.check} \ {"ok"})

(* The id is checked on every target, the rest on the enabled ones.        *)
ConfigProblems(ts, i) ==
    LET t == ts[i]
    IN  IDProblems(ts, i)
        \cup IF ~t.enabled THEN {}
             ELSE ConnectionProblems(t) \cup AuthProblems(t.auth)
                  \cup ({t.check, t.hurl} \ {"ok", "none", "fragment"})

(* ------------------------- Target.Validate ----------------------------- *)
(* url.ParseRequestURI, of any scheme.                                     *)
RequestURI(e) == e \in {"http", "ws", "stdio", "ftp"}

EndpointValid(t) ==
    CASE t.transport = "stdio" -> t.command /\ (t.endpoint = Blank \/ RequestURI(t.endpoint))
      [] t.transport = "sse" -> t.endpoint = "http"
      [] OTHER -> RequestURI(t.endpoint)

AuthValid(a) ==
    CASE a.type = "none" -> TRUE
      [] a.type = "bearer" -> a.secretRef
      [] a.type = "apikey" -> a.keyName /\ a.secretRef
      [] a.type = "oauth" -> a.clientID /\ a.tokenURL # Blank
      [] OTHER -> FALSE

(* It knows no upper bound of the retries and any protocol that is named.  *)
TargetValid(t) ==
    /\ t.id \notin {Blank, "space"} /\ EndpointValid(t) /\ AuthValid(t.auth)
    /\ t.check \in {"ok", "101-retries"}
    /\ t.hurl \in {"none", "ok"}

(* Config.EnabledTargets.                                                  *)
EnabledTargets(ts) == Filter(ts, {t \in Range(ts) : t.enabled})

(* All of the enabled targets in their order, or the first error.          *)
CompileTargets(ts) ==
    LET enabled == EnabledTargets(ts)
    IN  IF \E i \in 1 .. Len(enabled) : ~TargetValid(enabled[i])
        THEN [err |-> TRUE, compiled |-> <<>>]
        ELSE [err |-> FALSE, compiled |-> enabled]
-----------------------------------------------------------------------------
TargetsAsk == Ask("compile", TargetLists)
TargetsReply == Reply("compile", CompileTargets(in))
-----------------------------------------------------------------------------
(* What only Target.Validate refuses, after the configuration was declared *)
(* valid.                                                                  *)
LateRefusal(t) ==
    \/ t.id = "space"
    \/ t.endpoint \in Fragments \/ t.hurl = "fragment"
    \/ t.transport = "sse" /\ t.endpoint # "http"

(* A configuration that loads can be run: the engine compiles every target *)
(* that config.Validate reports nothing about, but for four corners where  *)
(* the two validations differ, and no other: an id of white space, a       *)
(* fragment behind the host of the address, or of a HURL test's, and an    *)
(* sse target whose address is not http.                                   *)
LoadedCompiles ==
    Answered("compile") /\ (\A i \in 1 .. Len(in) : ConfigProblems(in, i) = {}) =>
        (Answer.err <=> \E i \in 1 .. Len(in) : in[i].enabled /\ LateRefusal(in[i]))

(* No enabled target is lost on the way: the engine monitors all of them   *)
(* in order, or refuses the configuration (New fails, and ReloadConfig     *)
(* keeps the one it has).                                                  *)
NoTargetLost ==
    Answered("compile") /\ ~Answer.err =>
        /\ Len(Answer.compiled) = Len(EnabledTargets(in))
        /\ \A i \in 1 .. Len(Answer.compiled) :
              Answer.compiled[i].enabled /\ TargetValid(Answer.compiled[i])

(* The validator of the file and the one of the engine agree where the     *)
(* first accepts, and no target is lost between them.                      *)
TargetsCompile ==
    /\ LoadedCompiles
    /\ NoTargetLost
=============================================================================
