--------------------------- MODULE ServerManager ---------------------------
(***************************************************************************)
(* internal/engine/mcp_server_manager.go over internal/mcp_faults: the     *)
(* clusters of tool proxies of the MCP servers, what their suspicious      *)
(* calls cost (failures.go) and which servers the manager calls under      *)
(* attack.  A validation takes five locks one after the other: the         *)
(* manager's for reading, the proxy's, the cluster's, none for the agent's *)
(* distance, and the manager's for writing.                                *)
(*                                                                         *)
(* sync.RWMutex lets no new reader in while a writer waits.  The verdict   *)
(* on a call comes from the proxy (module RouteProxy); here it is an       *)
(* input.  isotope.AgentState is a library: RecordMCPFailure adds the      *)
(* weight to TotalDistance, unsynchronised, as a load and a store.         *)
(***************************************************************************)
EXTENDS Naturals

CONSTANTS
    Servers, Tools, Routines,
    Suspicions,     \* the sources of suspicious calls that happen
    AttackAfter,    \* invalid calls a tool takes before it is under attack (3)
    Threshold,      \* evictionThreshold
    MaxRecorded,    \* bound on the calls recorded by a tool
    MaxRegistered   \* bound on the registrations

ASSUME ManagerAssumption ==
    /\ Suspicions \subseteq {"fuzz", "direct", "skill", "stale", "other"}
    /\ AttackAfter \in Nat /\ Threshold \in Nat
    /\ MaxRecorded \in Nat /\ MaxRegistered \in Nat

VARIABLES
    gen,        \* per server, its registrations: agent and cluster are the last
    recorded,   \* per cluster (server and registration) and tool, len(InvalidCalls)
    underFire,  \* the clusters with AttackDetected, and their SuspiciousTools
    distance,   \* per agent (server and registration), TotalDistance
    attacked,   \* m.attackedServers
    rt,         \* the goroutines
    truth       \* history: per server, the sources recorded since it exists

managerVars == <<gen, recorded, underFire, distance, attacked, rt, truth>>

Staleness == {"skill", "stale"}

(* DefaultMCPFailureModes: the DistanceWeight, through                     *)
(* mapSuspicionToFailureType (fuzz: timeout, direct: tool-not-found,       *)
(* other: corrupted-response, staleness: stale-route, a tool nobody has:   *)
(* capability-mismatch).                                                   *)
FailureMode == [fuzz |-> 8, direct |-> 40, other |-> 32, skill |-> 2,
                stale |-> 2, unknown |-> 48]

Clusters == Servers \X (1 .. MaxRegistered)
Current(s) == <<s, gen[s]>>
Invalid(c, t) == recorded[c][t]

Idle == [op |-> "idle"]
Running == \E g \in Routines : rt[g] # Idle

(* m.mu: held for reading across steps by GetServerRanking only.           *)
WriterWaits == \E g \in Routines : rt[g].op \in {"register", "mark"}
ReadHeld == \E g \in Routines : rt[g].op = "ranking"
CanRead == ~WriterWaits
CanWrite == ~ReadHeld

Go(g, step) == rt' = [rt EXCEPT ![g] = step]

ManagerInit ==
    /\ gen = [s \in Servers |-> 0]
    /\ recorded = [c \in Clusters |-> [t \in Tools |-> 0]]
    /\ underFire = [c \in Clusters |-> {}]
    /\ distance = [c \in Clusters |-> 0]
    /\ attacked = {}
    /\ rt = [g \in Routines |-> Idle]
    /\ truth = [s \in Servers |-> {}]
-----------------------------------------------------------------------------
(* RegisterMCPServer: a new agent and new proxies; attackedServers stays.  *)
WantRegister(g, s) ==
    /\ rt[g] = Idle
    /\ gen[s] < MaxRegistered
    /\ \A k \in Routines : rt[k].op # "register"
    /\ Go(g, [op |-> "register", server |-> s])
    /\ UNCHANGED <<gen, recorded, underFire, distance, attacked, truth>>

RegisterMCPServer(g) ==
    /\ rt[g].op = "register" /\ CanWrite
    /\ LET s == rt[g].server IN gen' = [gen EXCEPT ![s] = @ + 1]
    /\ Go(g, Idle)
    /\ UNCHANGED <<recorded, underFire, distance, attacked, truth>>

(* ValidateToolCall: look the server up, ...                               *)
Lookup(g, s) ==
    /\ rt[g] = Idle /\ CanRead /\ gen[s] > 0
    /\ Go(g, [op |-> "found", cluster |-> Current(s)])
    /\ UNCHANGED <<gen, recorded, underFire, distance, attacked, truth>>

(* ... let the proxy judge and record the call (an unknown tool is not     *)
(* recorded and has no metrics), ...                                       *)
Judge(g, t, source) ==
    /\ rt[g].op = "found"
    /\ LET c == rt[g].cluster
       IN  /\ Invalid(c, t) < MaxRecorded
           /\ recorded' = [recorded EXCEPT ![c][t] = @ + 1]
           /\ truth' = [truth EXCEPT ![c[1]] = @ \cup {source}]
           /\ Go(g, [op |-> "judged", cluster |-> c, tool |-> t, source |-> source])
    /\ UNCHANGED <<gen, underFire, distance, attacked>>

JudgeUnknownTool(g) ==
    /\ rt[g].op = "found"
    /\ distance[rt[g].cluster] <= Threshold
    /\ Go(g, [op |-> "priced", cluster |-> rt[g].cluster, source |-> "unknown", invalid |-> 0])
    /\ truth' = [truth EXCEPT ![rt[g].cluster[1]] = @ \cup {"unknown"}]
    /\ UNCHANGED <<gen, recorded, underFire, distance, attacked>>

(* ... a correct call has no metrics, so it is over, ...                   *)
JudgeCorrect(g) ==
    /\ rt[g].op = "found"
    /\ Go(g, Idle)
    /\ UNCHANGED <<gen, recorded, underFire, distance, attacked, truth>>

(* ... count it in the cluster (AttackDetected, SuspiciousTools), ...      *)
CountCall(g) ==
    /\ rt[g].op = "judged"
    /\ LET c == rt[g].cluster
           n == Invalid(c, rt[g].tool)
       IN  /\ underFire' = IF n > AttackAfter
                           THEN [underFire EXCEPT ![c] = @ \cup {rt[g].tool}]
                           ELSE underFire
           /\ Go(g, [op |-> "priced", cluster |-> c, source |-> rt[g].source, invalid |-> n])
    /\ UNCHANGED <<gen, recorded, distance, attacked, truth>>

(* ... RecordMCPFailure on the agent, a load and a store, ...              *)
LoadDistance(g) ==
    /\ rt[g].op = "priced"
    /\ Go(g, [op |-> "loaded", cluster |-> rt[g].cluster, invalid |-> rt[g].invalid,
              sum |-> distance[rt[g].cluster] + FailureMode[rt[g].source]])
    /\ UNCHANGED <<gen, recorded, underFire, distance, attacked, truth>>

(* Mutant of StoreDistance: an off-by-one in the threshold.                *)
StoreDistanceLater(g) ==
    /\ rt[g].op = "loaded"
    /\ distance' = [distance EXCEPT ![rt[g].cluster] = rt[g].sum]
    /\ Go(g, IF rt[g].invalid > AttackAfter + 1
             THEN [op |-> "mark", server |-> rt[g].cluster[1]] ELSE Idle)
    /\ UNCHANGED <<gen, recorded, underFire, attacked, truth>>

StoreDistance(g) ==
    /\ rt[g].op = "loaded"
    /\ distance' = [distance EXCEPT ![rt[g].cluster] = rt[g].sum]
    /\ Go(g, IF rt[g].invalid > AttackAfter
             THEN [op |-> "mark", server |-> rt[g].cluster[1]] ELSE Idle)
    /\ UNCHANGED <<gen, recorded, underFire, attacked, truth>>

(* ... and mark the server under the write lock.                           *)
MarkAttacked(g) ==
    /\ rt[g].op = "mark" /\ CanWrite
    /\ attacked' = attacked \cup {rt[g].server}
    /\ Go(g, Idle)
    /\ UNCHANGED <<gen, recorded, underFire, distance, truth>>

(* GetServerHealth and ShouldEvictServer.                                  *)
UnderAttack(s) == s \in attacked \/ underFire[Current(s)] # {}
Status(s) ==
    IF gen[s] = 0 THEN "unknown"
    ELSE IF UnderAttack(s) THEN "under-attack"
    ELSE IF distance[Current(s)] > Threshold THEN "compromised"
    ELSE IF distance[Current(s)] > 0 THEN "degraded"
    ELSE "healthy"
ShouldEvictServer(s) == Status(s) \in {"under-attack", "compromised"}

(* GetServerRanking holds the read lock and takes it again per server; the *)
(* servers are sorted by the distance read for each.                       *)
RankBegin(g) ==
    /\ rt[g] = Idle /\ CanRead
    /\ Go(g, [op |-> "ranking", todo |-> {s \in Servers : gen[s] > 0}])
    /\ UNCHANGED <<gen, recorded, underFire, distance, attacked, truth>>

RankServer(g) ==
    /\ rt[g].op = "ranking" /\ CanRead
    /\ \E s \in rt[g].todo : Go(g, [rt[g] EXCEPT !.todo = @ \ {s}])
    /\ UNCHANGED <<gen, recorded, underFire, distance, attacked, truth>>

RankEnd(g) ==
    /\ rt[g].op = "ranking" /\ rt[g].todo = {}
    /\ Go(g, Idle)
    /\ UNCHANGED <<gen, recorded, underFire, distance, attacked, truth>>

ManagerNext ==
    \E g \in Routines :
        \/ \E s \in Servers : WantRegister(g, s) \/ Lookup(g, s)
        \/ \E t \in Tools, source \in Suspicions : Judge(g, t, source)
        \/ RegisterMCPServer(g) \/ JudgeUnknownTool(g) \/ JudgeCorrect(g)
        \/ CountCall(g) \/ LoadDistance(g) \/ StoreDistance(g) \/ MarkAttacked(g)
        \/ RankBegin(g) \/ RankServer(g) \/ RankEnd(g)

ManagerSpec == ManagerInit /\ [][ManagerNext]_managerVars
-----------------------------------------------------------------------------
(* When no call is in flight, a server one of whose tools took more than   *)
(* the threshold of invalid calls is marked and to be evicted: no          *)
(* interleaving of the five critical sections loses the mark.              *)
AttackNoticed ==
    ~Running => \A s \in Servers : gen[s] > 0
        /\ (\E t \in Tools : Invalid(Current(s), t) > AttackAfter)
            => s \in attacked /\ ShouldEvictServer(s)

(* A server is reported worse than healthy only for a call made to it.     *)
NoBlameWithoutCause ==
    \A s \in Servers : Status(s) \in {"degraded", "compromised", "under-attack"}
        => truth[s] # {}

(* GetServerRanking returns: nobody waits for a lock that a ranking keeps  *)
(* while it waits for them.                                                *)
RankingNeverStuck ==
    \A g \in Routines : rt[g].op = "ranking" /\ rt[g].todo # {} => CanRead

(* A server all of whose suspicious calls were attributable to a rotation  *)
(* is not under attack.                                                    *)
StaleIsNoAttack ==
    \A s \in Servers : truth[s] \subseteq Staleness /\ gen[s] > 0 => ~UnderAttack(s)

(* No interleaving of validations and registrations hides an attack, or    *)
(* blames a server nobody called.                                          *)
BlameJust ==
    /\ AttackNoticed
    /\ NoBlameWithoutCause
=============================================================================
