----------------------------- MODULE Discovery -----------------------------
(***************************************************************************)
(* internal/discovery: the records one run of Discover makes from the      *)
(* static targets, the environment, a scan of local ports and the          *)
(* llms.txt documents; and internal/dynamicconfig: the files a run of      *)
(* SaveDiscoveryRecords makes of them.                                     *)
(*                                                                         *)
(* An endpoint is a model of a URL: its host, its scheme and what its path *)
(* says ("mcp", "acp", "sse" or nothing); an id is the tuple of words it   *)
(* is put together from.  One context is shared by all sources: it lasts   *)
(* for the first "lives" of the candidates, ports and documents of a run,  *)
(* and ends before the next or, "midway", while the next is worked on.     *)
(***************************************************************************)
EXTENDS Decision, FiniteSets, SequencesExt

CONSTANTS
    Hosts,              \* of URLs, and the local ports a scan may find
    TargetNames,        \* the ids of configured targets
    StaticLists, CandidateLists, PortLists, DocLists,   \* what the sources hold
    LifeSpans           \* of the context of a run

Url(host, scheme, path) == [host |-> host, scheme |-> scheme, path |-> path]
LocalStdio == Url("local", "stdio", Blank)

DiscoveredTarget(id, protocol, transport, endpoint, source) ==
    [id |-> id, protocol |-> protocol, transport |-> transport,
     endpoint |-> endpoint, source |-> source]

DedupeKey(r) == <<r.protocol, r.transport, r.endpoint>>

(* safeID: what is not a letter or a digit is a dash.                      *)
SafeID(name) == IF name \in {"FOO_MCP", "FOO.MCP"} THEN "foo-mcp" ELSE name

InferProto(path) == IF path \in {"acp", "mcp"} THEN path ELSE "http"
DefaultTransport(u) ==
    CASE u.scheme = "ws" -> "websocket" [] u.path = "sse" -> "sse" [] OTHER -> "http"

(* ------------------------------ the sources ---------------------------- *)
StaticRecord(s) == DiscoveredTarget(s.id, s.protocol, s.transport, s.endpoint, "static_config")
StaticRecords(static) == [i \in DOMAIN static |-> StaticRecord(static[i])]

(* How much of a context is left after n items, and what of a list it      *)
(* lasts for.                                                              *)
Left(lives, n) == IF lives < n THEN 0 ELSE lives - n
Lasting(list, lives) ==
    [i \in 1 .. (IF lives < Len(list) THEN lives ELSE Len(list)) |-> list[i]]

(* discoverFromEnv: a candidate with an unsupported scheme is an error and *)
(* skipped; a context that is over ends the source, with an error.         *)
EnvRecord(c) ==
    DiscoveredTarget(<<"env", SafeID(c.name), c.nth>>,
           IF c.name = "FOO_ACP" \/ c.url.path = "acp" THEN "acp"
           ELSE IF c.name \in {"FOO_MCP", "FOO.MCP"} \/ c.url.path = "mcp" THEN "mcp" ELSE "http",
           IF c.url.scheme = "ws" THEN "websocket" ELSE "http", c.url, "env")
LiveCandidates(c) == Lasting(c.candidates, c.lives)
Usable(candidates) == {x \in Range(candidates) : x.url.scheme \in {"http", "ws"}}
FromEnv(c) ==
    LET usable == Filter(LiveCandidates(c), Usable(LiveCandidates(c)))
    IN  [records |-> [i \in DOMAIN usable |-> EnvRecord(usable[i])],
         errors |-> \/ c.lives < Len(c.candidates)
                    \/ \E i \in DOMAIN LiveCandidates(c) :
                          LiveCandidates(c)[i] \notin Usable(LiveCandidates(c))]

(* discoverLocalProxies: an open port is asked for its paths in turn, and  *)
(* the first that gives any answer at all names the protocol.              *)
ScanPaths == <<"mcp", "acp", "healthz", Blank>>
Reachable(port) == {path \in Range(ScanPaths) : port.status[path] # 0}
Answering(port) == Filter(ScanPaths, Reachable(port))
ScanRecord(port) ==
    LET path == Head(Answering(port))
    IN  DiscoveredTarget(<<"discovered", port.number, InferProto(path)>>, InferProto(path), "http",
                         Url(port.number, "http", path), "local_proxy_scan")
LivePorts(c) == Lasting(c.ports, Left(c.lives, Len(c.candidates)))
Open(ports) == {port \in Range(ports) : port.state = "open" /\ Answering(port) # <<>>}

(* The context ends while the last port is asked: it looks closed, or its  *)
(* paths silent, and no further turn of the loop would notice.             *)
LastPortCut(c) ==
    /\ c.midway /\ c.lives >= Len(c.candidates)
    /\ c.lives + 1 = Len(c.candidates) + Len(c.ports)
    /\ c.ports[Len(c.ports)].state # "invalid"

(* A number that is no port is an error and skipped, a closed port is      *)
(* only skipped; a context that is over ends the scan, with an error.      *)
FromScan(c) ==
    LET open == Filter(LivePorts(c), Open(LivePorts(c)))
    IN  [records |-> [i \in DOMAIN open |-> ScanRecord(open[i])],
         errors |-> \/ c.lives < Len(c.candidates) + Len(c.ports) /\ c.ports # <<>> /\ ~LastPortCut(c)
                    \/ \E i \in DOMAIN LivePorts(c) : LivePorts(c)[i].state = "invalid"]

(* discoverFromLLMSTxt of a document: of the links that                    *)
(* parseLLMSTxtCandidates returns those that speak of MCP or ACP, ACP      *)
(* before MCP, by their number in that list and the host of its URI.       *)
LinkRecord(doc, i) ==
    LET link == doc.links[i]
        proto == IF "acp" \in link.says THEN "acp" ELSE "mcp"
    IN  DiscoveredTarget(<<"llms", doc.host, i, proto>>, proto, DefaultTransport(link.url),
                         link.url, "llms_txt")
Speaking(doc) == {i \in DOMAIN doc.links : doc.links[i].says # {} /\ doc.state = "ok" /\ doc.register}
FromDoc(doc) ==
    LET speaking == Filter([i \in DOMAIN doc.links |-> i], Speaking(doc))
    IN  [k \in DOMAIN speaking |-> LinkRecord(doc, speaking[k])]

(* A document that cannot be fetched is an error and skipped, and so is    *)
(* every one after the end of the context.                                 *)
LiveDocs(c) == Lasting(c.docs, Left(c.lives, Len(c.candidates) + Len(c.ports)))
FromLLMSTxt(c) ==
    [records |-> Loop(LAMBDA records, doc : records \o FromDoc(doc), <<>>, LiveDocs(c)),
     errors |-> \/ c.lives < Len(c.candidates) + Len(c.ports) + Len(c.docs) /\ c.docs # <<>>
                \/ \E i \in DOMAIN LiveDocs(c) : LiveDocs(c)[i].state = "down"]

(* The first record of a key stays.                                        *)
Deduped(records) ==
    Loop(LAMBDA done, r :
        IF \E i \in DOMAIN done : DedupeKey(done[i]) = DedupeKey(r) THEN done ELSE Append(done, r),
        <<>>, records)

(* Mutant of AllCandidates: an error ends the discovery.                      *)
AllCandidatesUntilError(c) ==
    StaticRecords(c.static)
    \o (IF ~c.enabled \/ FromEnv(c).errors THEN <<>>
        ELSE FromEnv(c).records \o FromScan(c).records \o FromLLMSTxt(c).records)

(* Static first, then what is switched on; the errors of a source do not   *)
(* stop the next.  (The final sort by id is left out: a record is found by *)
(* its content.)                                                           *)
AllCandidates(c) ==
    StaticRecords(c.static)
    \o (IF ~c.enabled THEN <<>>
        ELSE FromEnv(c).records \o FromScan(c).records \o FromLLMSTxt(c).records)
Discover(c) ==
    [records |-> Deduped(AllCandidates(c)),
     errors |-> c.enabled /\ (FromEnv(c).errors \/ FromScan(c).errors \/ FromLLMSTxt(c).errors)]

(* sanitizeID: every run of other characters becomes one dash.  (A         *)
(* configured id is words and such runs; safeID has left nothing but       *)
(* letters, digits and dashes in the others.)                              *)
Separators == {".", "_", "-", "..", "/"}
SanitizeID(r) ==
    IF r.source = "static_config"
    THEN [i \in DOMAIN r.id |-> IF r.id[i] \in Separators THEN "-" ELSE r.id[i]]
    ELSE r.id

(* makeID: the target's id, with a hash of source, endpoint and protocol.  *)
MakeID(r, unique) ==
    IF unique THEN <<SanitizeID(r), r.source, r.endpoint, r.protocol>> ELSE <<SanitizeID(r)>>

Formats == <<"json", "markdown">>

(* writeFile: refuses to overwrite unless told to; an error ends the run.  *)
WriteFile(done, name, r, overwrite) ==
    IF done.failed THEN done
    ELSE IF name \in DOMAIN done.files /\ ~overwrite THEN [done EXCEPT !.failed = TRUE]
    ELSE [done EXCEPT !.files = [n \in DOMAIN @ \cup {name} |-> IF n = name THEN r ELSE @[n]]]

SaveDiscoveryRecords(files, records, unique, overwrite) ==
    Loop(LAMBDA done, r :
        WriteFile(WriteFile(done, <<MakeID(r, unique), Formats[1]>>, r, overwrite),
                  <<MakeID(r, unique), Formats[2]>>, r, overwrite),
        [files |-> files, failed |-> FALSE], records)

(* ------------------------------ questions ------------------------------ *)
EnvNames == {"FOO_MCP", "FOO.MCP", "FOO_ACP", "BAR"}
Urls ==
    [host : Hosts, scheme : {"http", "ws", "stdio", "ftp"},
     path : {"mcp", "acp", "sse", "healthz", Blank}]
StaticTarget ==
    [id : TargetNames, protocol : {"mcp", "acp", "http"},
     transport : {"http", "websocket", "sse", "stdio"}, endpoint : Urls]
EnvCandidate == [name : EnvNames, nth : Nat, url : Urls]   \* nth: its place in the variable
Port ==
    [number : Hosts, state : {"open", "closed", "invalid"},
     status : [Range(ScanPaths) -> {0} \cup 100 .. 599]]
Link == [url : Urls, says : SUBSET {"mcp", "acp"}]
Doc == [host : Hosts, links : Seq(Link), state : {"ok", "down"}, register : BOOLEAN]
(* Configured targets have ids of their own (Validate).                    *)
ASSUME DiscoveryAssumption ==
    /\ StaticLists \subseteq Seq(StaticTarget)
    /\ \A static \in StaticLists : \A i, j \in 1 .. Len(static) : static[i].id = static[j].id => i = j
    /\ CandidateLists \subseteq Seq(EnvCandidate)
    /\ PortLists \subseteq Seq(Port)
    /\ DocLists \subseteq Seq(Doc)
    /\ LifeSpans \subseteq Nat

(* For TLC: nothing, what is alone, what shares an endpoint or an id with  *)
(* another, what cannot be used.                                           *)
UrlA == Url("a", "http", "mcp")
UrlB == Url("b", "http", Blank)
HostSample == {"local", "a", "b", "c", "h", "port80", "port90"}
NameSample == {<<"h">>, <<"s">>, <<"my", ".", "x">>, <<"my", "-", "x">>}
StaticSample ==
    LET stdio(id) == [id |-> id, protocol |-> "mcp", transport |-> "stdio", endpoint |-> LocalStdio]
        http(id, u) == [id |-> id, protocol |-> "mcp", transport |-> "http", endpoint |-> u]
        stream(id) == [id |-> id, protocol |-> "mcp", transport |-> "sse", endpoint |-> UrlA]
    IN  {<<>>, <<http(<<"h">>, UrlA), stream(<<"s">>)>>,
         <<stdio(<<"my", ".", "x">>), stdio(<<"s">>), http(<<"my", "-", "x">>, UrlA)>>,
         <<http(<<"my", ".", "x">>, UrlA), stream(<<"my", "-", "x">>)>>,
         <<http(<<"my", ".", "x">>, UrlA), http(<<"my", "-", "x">>, UrlB)>>}
CandidateSample ==
    LET one(n, k, u) == [name |-> n, nth |-> k, url |-> u]
        ftp == Url("c", "ftp", Blank)
    IN  {<<>>, <<one("BAR", 0, UrlB)>>, <<one("FOO_MCP", 0, ftp), one("FOO_MCP", 1, UrlA)>>,
         <<one("FOO_MCP", 0, UrlA), one("FOO.MCP", 0, UrlB)>>,
         <<one("FOO_ACP", 0, UrlA), one("FOO_MCP", 0, UrlA)>>}
PortListSample ==
    LET port(h, state, status) == [number |-> h, state |-> state, status |-> status]
        silent == [p \in Range(ScanPaths) |-> 0]
        health == [p \in Range(ScanPaths) |-> IF p = "healthz" THEN 200 ELSE 0]
        acp == [p \in Range(ScanPaths) |-> IF p = "acp" THEN 200 ELSE 404]
    IN  {<<>>, <<port("port80", "open", health)>>, <<port("port80", "closed", acp)>>,
         <<port("port80", "open", acp), port("port90", "open", silent)>>,
         <<port("port80", "invalid", silent), port("port90", "open", acp)>>}
DocSample ==
    LET link(u, says) == [url |-> u, says |-> says]
        doc(links, state, register) ==
            [host |-> "h", links |-> links, state |-> state, register |-> register]
    IN  {<<>>, <<doc(<<link(UrlA, {"mcp"})>>, "ok", FALSE)>>,
         <<doc(<<link(UrlB, {}), link(UrlA, {"mcp"}), link(UrlA, {"acp", "mcp"})>>, "ok", TRUE)>>,
         <<doc(<<link(UrlA, {"mcp"})>>, "down", TRUE), doc(<<link(UrlB, {"mcp"})>>, "ok", TRUE)>>,
         <<doc(<<link(UrlA, {"mcp"})>>, "ok", TRUE), doc(<<link(UrlB, {"mcp"})>>, "ok", TRUE)>>}
Items(c) == Len(c.candidates) + Len(c.ports) + Len(c.docs)
DiscoverInputs ==
    {c \in [static : StaticLists, enabled : BOOLEAN, candidates : CandidateLists, ports : PortLists,
            docs : DocLists, lives : LifeSpans, midway : BOOLEAN] :
        c.lives <= Items(c)}
SaveInputs ==
    [first : {c \in DiscoverInputs : c.lives = Items(c) /\ ~c.midway},
     unique : BOOLEAN, overwrite : BOOLEAN]

(* What an earlier run had found: nothing, or the first of the records.    *)
First(records) == IF records = <<>> THEN <<>> ELSE <<Head(records)>>

DiscoveryAsk == Ask("discover", DiscoverInputs) \/ Ask("save", SaveInputs)
DiscoveryReply ==
    \/ Reply("discover", Discover(in))
    \/ Reply("save",
         LET records == Discover(in.first).records
             once == SaveDiscoveryRecords([n \in {} |-> 0], First(records), in.unique, in.overwrite)
         IN  [records |-> records, once |-> once.files,
              done |-> SaveDiscoveryRecords(once.files, records, in.unique, in.overwrite)])
-----------------------------------------------------------------------------
(* What there is to find: the configured targets, and while the context    *)
(* lasts each candidate that can be used, each port that answers and each  *)
(* link of a document that speaks of a protocol, whatever else fails.      *)
Findings(c) ==
    {StaticRecord(c.static[i]) : i \in DOMAIN c.static}
    \cup IF ~c.enabled THEN {}
         ELSE {EnvRecord(x) : x \in Usable(LiveCandidates(c))}
              \cup {ScanRecord(x) : x \in Open(LivePorts(c))}
              \cup UNION {{LinkRecord(doc, i) : i \in Speaking(doc)} : doc \in Range(LiveDocs(c))}

(* A target is monitored once and nothing that was found is lost: every    *)
(* finding's (protocol, transport, endpoint) has exactly one record, no    *)
(* record is anything else, and what the operator configured wins over     *)
(* what was discovered (Discover).                                         *)
FoundOnce ==
    Answered("discover") =>
        /\ \A i, j \in DOMAIN Answer.records :
              DedupeKey(Answer.records[i]) = DedupeKey(Answer.records[j]) => i = j
        /\ Range(Answer.records) \subseteq Findings(in)
        /\ \A r \in Findings(in) :
              \E x \in Range(Answer.records) :
                  /\ DedupeKey(x) = DedupeKey(r)
                  /\ r.source = "static_config" => x.source = "static_config"

(* A run without an error looked at all there was: the context outlived    *)
(* it, every candidate could be used, every port was one and every         *)
(* document was fetched.  The exception is a context that ends while the   *)
(* last port is asked and with no document to fetch after it.              *)
NoErrorMeansAll ==
    Answered("discover") /\ in.enabled /\ ~Answer.errors /\ ~LastPortCut(in) =>
        /\ in.lives = Items(in)
        /\ \A i \in DOMAIN in.candidates : in.candidates[i].url.scheme \in {"http", "ws"}
        /\ \A i \in DOMAIN in.ports : in.ports[i].state # "invalid"
        /\ \A i \in DOMAIN in.docs : in.docs[i].state = "ok"

(* Two configured targets with one file name: their ids differ only in     *)
(* what sanitizeID makes a dash of, and the targets in their transport,    *)
(* which is not part of the hash.                                          *)
Twins(r, q) ==
    /\ r # q /\ r.source = "static_config" /\ q.source = "static_config"
    /\ SanitizeID(r) = SanitizeID(q) /\ r.endpoint = q.endpoint /\ r.protocol = q.protocol

(* With require_unique_ids a run that ends well leaves a file of every     *)
(* format for every record, and none of them was written over by another   *)
(* record of the run, if it has no twin.                                   *)
UniqueFiles ==
    Answered("save") /\ in.unique /\ ~Answer.done.failed =>
        \A r \in Range(Answer.records) : \A f \in Range(Formats) :
            LET name == <<MakeID(r, TRUE), f>>
            IN  /\ name \in DOMAIN Answer.done.files
                /\ \/ Answer.done.files[name] = r
                   \/ \E q \in Range(Answer.records) : Twins(r, q)

(* "IDs are uniqueness-safe when require_unique_ids=true" (README.md): not *)
(* those of twins.                                                         *)
IDsUniquenessSafe ==
    Answered("save") /\ in.unique =>
        \A r, q \in Range(Answer.records) : MakeID(r, TRUE) = MakeID(q, TRUE) => r = q

(* Without leave to overwrite, what an earlier run saved stays as it was,  *)
(* and the run that would replace it fails (writeFile).                    *)
SavedStays ==
    Answered("save") /\ ~in.overwrite =>
        /\ \A n \in DOMAIN Answer.once : Answer.done.files[n] = Answer.once[n]
        /\ Answer.once # [n \in {} |-> 0] => Answer.done.failed

(* Every enabled target of the configuration is a record: two stdio        *)
(* targets of a protocol are not, for they share the endpoint ApplyDefaults*)
(* gives them.                                                             *)
StaticKept ==
    Answered("discover") =>
        \A s \in Range(in.static) : \E r \in Range(Answer.records) : r.id = s.id

(* What fails costs only itself, a run that was cut short says so, one     *)
(* endpoint is one finding, and saving one record never harms another.     *)
FindingsKept ==
    /\ FoundOnce
    /\ NoErrorMeansAll
    /\ UniqueFiles
    /\ SavedStays
=============================================================================
