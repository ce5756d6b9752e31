----------------------------- MODULE FaultRules -----------------------------
(***************************************************************************)
(* internal/mcp_faults, what it decides without state.                     *)
(*                                                                         *)
(* Rotations: what a mirror concludes of a rotation a node announced       *)
(* (VerifyRotation in rotation_verify.go), what the committer decides for  *)
(* a route (Commit in rotation_commit.go) and how a redundant store holds  *)
(* the commit against its own record (Check).  A route id is a hash over   *)
(* (scope, tool, ceiling): the triple itself.  The times are numbers, zero *)
(* the time nothing was seen.                                              *)
(*                                                                         *)
(* Failures: their costs (failures.go) and the profiles that inject them   *)
(* (injection.go).  Rates are percent, a draw of the generator is a number *)
(* below 100.                                                              *)
(***************************************************************************)
EXTENDS Decision, Integers, FiniteSets, FiniteSetsExt

CONSTANTS
    Nodes,          \* the stores of a route
    Strangers,      \* nodes the registry does not know
    Ceiling,        \* RotationPolicy.MaxGrace
    Instants,       \* when a rotation can be seen or claimed
    Graces,         \* what a claim may ask for
    Seconds         \* the times of the clock the seeds are made from

Unseen == 0
Sightings == Instants \cup {Unseen}

ASSUME VerdictAssumption ==
    /\ Ceiling \in Nat /\ Nodes # {}
    /\ Instants \subseteq Nat \ {Unseen} /\ Graces \subseteq Int /\ Seconds \subseteq Nat

NoClaim == [node |-> "none", at |-> Unseen, grace |-> 0, route |-> <<>>]

(* RouteRef.ID: the definition alone, whatever the prefix is by now.       *)
ID(scope, tool) == <<scope, tool, Ceiling>>
Watched == ID("project", "tool")
Claims(node) ==
    {NoClaim} \cup [node : {node}, at : Instants, grace : Graces,
                    route : {Watched, ID("other", "tool")}]

EffectiveGraceOf(claimed) ==
    IF claimed <= 0 THEN 0 ELSE IF claimed > Ceiling THEN Ceiling ELSE claimed

(* RouteRegistry: Register collects the replicas of a route; without a     *)
(* registry every voice counts.                                            *)
NoRegistry == [configured |-> FALSE, replicas |-> {}]
Register(registry, route, node) ==
    [configured |-> TRUE, replicas |-> registry.replicas \cup {<<route, node>>}]
Authorized(registry, route, node) ==
    registry.configured => <<route, node>> \in registry.replicas

VerifyRotation(registry, observed, claim) ==
    LET Verdict(state, grace) == [state |-> state, grace |-> grace, observed |-> observed]
    IN  CASE observed = Unseen /\ claim # NoClaim -> Verdict("claimed-without-rotation", 0)
          [] observed = Unseen /\ claim = NoClaim -> Verdict("unannounced-rotation", 0)
          [] observed # Unseen /\ claim = NoClaim ->
                Verdict("unannounced-rotation", EffectiveGraceOf(Ceiling))
          [] OTHER ->
                IF claim.route # Watched THEN Verdict("identity-mismatch", 0)
                ELSE IF ~Authorized(registry, Watched, claim.node)
                THEN Verdict("unauthorized-replica", 0)
                ELSE Verdict(CASE claim.at # observed -> "mismatched-rotation"
                               [] claim.at = observed /\ claim.grace > Ceiling -> "overclaimed-grace"
                               [] OTHER -> "announced",
                             EffectiveGraceOf(claim.grace))

(* Commit: every claim on its own, without a registry; the smallest of the *)
(* accepted graces.                                                        *)
CommonGrace(graces) == IF graces = {} THEN 0 ELSE Min(graces)
Commit(observed, claims) ==
    LET verdict == [n \in DOMAIN observed |-> VerifyRotation(NoRegistry, observed[n], claims[n])]
        accepted == {n \in DOMAIN observed : verdict[n].state = "announced"}
    IN  [rotations |-> [n \in accepted |-> verdict[n].observed],
         grace |-> CommonGrace({verdict[n].grace : n \in accepted}),
         rejected |-> [n \in DOMAIN observed \ accepted |-> verdict[n].state]]

(* Mutant of CheckCommit: only whether the node is in the commit.          *)
CheckCommitMembership(commit, node, saw) ==
    CASE node \in DOMAIN commit.rotations /\ saw = Unseen -> "invented"
      [] node \notin DOMAIN commit.rotations /\ saw # Unseen -> "omitted"
      [] OTHER -> "agrees"

(* RotationCommit.Check, run by the store of a node.                       *)
CheckCommit(commit, node, saw) ==
    LET inCommit == node \in DOMAIN commit.rotations
    IN  CASE inCommit /\ saw = Unseen -> "invented"
          [] inCommit /\ saw # Unseen /\ commit.rotations[node] # saw -> "different"
          [] ~inCommit /\ saw # Unseen -> "omitted"
          [] OTHER -> "agrees"

VerdictInputs ==
    [registry : {NoRegistry, Register(NoRegistry, Watched, CHOOSE n \in Nodes : TRUE),
                 Register(NoRegistry, ID("other", "tool"), CHOOSE n \in Nodes : TRUE)},
     observed : Sightings, claim : UNION {Claims(n) : n \in Nodes \cup Strangers}]
CommitInputs ==
    [observed : [Nodes -> Sightings], saw : [Nodes -> Sightings],
     claims : {c \in [Nodes -> UNION {Claims(n) : n \in Nodes}] :
                  \A n \in Nodes : c[n] \in Claims(n)}]

VerdictAsk == Ask("verdict", VerdictInputs) \/ Ask("commit", CommitInputs)
VerdictReply ==
    \/ Reply("verdict", VerifyRotation(in.registry, in.observed, in.claim))
    \/ Reply("commit", LET c == Commit(in.observed, in.claims)
                       IN  [commit |-> c,
                            checks |-> [n \in Nodes |-> CheckCommit(c, n, in.saw[n])]])
-----------------------------------------------------------------------------
(* A claim widens nothing: whatever a node announces, the grace a peer     *)
(* applies is within the ceiling, and a claim about a rotation nobody saw, *)
(* another route or from a stranger earns none (VerifyRotation).           *)
GraceIsThePolicys ==
    Answered("verdict") =>
        /\ Answer.grace \in 0 .. Ceiling
        /\ Answer.grace > 0 =>
              /\ in.observed # Unseen
              /\ in.claim # NoClaim => /\ in.claim.route = Watched
                                       /\ Authorized(in.registry, Watched, in.claim.node)
                                       /\ Answer.grace <= in.claim.grace

(* An announcement is believed only if it is the one the mirror made       *)
(* itself: same route, same instant, a grace it may have.                  *)
AnnouncedIsWitnessed ==
    Answered("verdict") /\ Answer.state = "announced" =>
        /\ in.claim.at = in.observed /\ in.observed # Unseen
        /\ in.claim.grace <= Ceiling /\ in.claim.route = Watched

(* The redundancy catches the committer: a commit that says of a node      *)
(* anything but what its store recorded is disputed by that store, and one *)
(* that says the same is not (Check).                                      *)
StoreCatchesCommitter ==
    Answered("commit") => \A n \in Nodes :
        LET said == IF n \in DOMAIN Answer.commit.rotations
                    THEN Answer.commit.rotations[n] ELSE Unseen
        IN  (Answer.checks[n] = "agrees") <=> (said = in.saw[n])

(* One node cannot widen the window of the others, nor vote one of them    *)
(* out: what is committed of a node depends on that node alone, and the    *)
(* committed grace is no more than any accepted node may have (Commit).    *)
CommitPerNode ==
    Answered("commit") => \A n \in Nodes :
        LET alone == Commit([m \in {n} |-> in.observed[m]], [m \in {n} |-> in.claims[m]])
        IN  /\ (n \in DOMAIN Answer.commit.rotations) <=> (n \in DOMAIN alone.rotations)
            /\ n \in DOMAIN alone.rotations => Answer.commit.grace <= alone.grace

(* What a node says of its own rotation buys it nothing that the mirror    *)
(* did not see, and what the committer may have changed the store still    *)
(* catches.                                                                *)
VerdictsSound ==
    /\ GraceIsThePolicys
    /\ AnnouncedIsWitnessed
    /\ StoreCatchesCommitter
    /\ CommitPerNode
-----------------------------------------------------------------------------
Mode(direction, weight, severity, recoverable) ==
    [direction |-> direction, weight |-> weight, severity |-> severity, recoverable |-> recoverable]

DefaultMCPFailureModes ==
    [timeout |-> Mode("unpredictable", 8, 2, TRUE),
     unauthorized |-> Mode("unauthorized", 24, 4, FALSE),
     corrupted |-> Mode("boundary", 32, 4, FALSE),
     malformed |-> Mode("boundary", 32, 4, FALSE),
     notfound |-> Mode("signaling", 40, 5, FALSE),
     exhaustion |-> Mode("boundary", 16, 3, TRUE),
     partial |-> Mode("unpredictable", 12, 2, TRUE),
     mismatch |-> Mode("signaling", 48, 5, FALSE),
     stale |-> Mode("unpredictable", 2, 1, TRUE)]
FailureTypes == DOMAIN DefaultMCPFailureModes

GetFailureMode(type) ==
    IF type \in FailureTypes THEN DefaultMCPFailureModes[type]
    ELSE Mode("unpredictable", 4, 1, TRUE)

(* The profiles: a set of rules, each a type, its rate and its retries.    *)
Rule(type, rate, retries) == [type |-> type, rate |-> rate, retries |-> retries]
TransientFailuresProfile == {Rule("timeout", 10, 3), Rule("partial", 10, 3)}
ProtocolViolationProfile == {Rule("corrupted", 10, 0), Rule("malformed", 10, 0)}
ByzantineProfile == {Rule("notfound", 5, 0), Rule("mismatch", 5, 0)}
StressProfile == {Rule("exhaustion", 15, 3)}
UnauthorizedAccessProfile == {Rule("unauthorized", 10, 0)}
ChaoticProfile == {Rule("timeout", 20, 1), Rule("corrupted", 15, 0), Rule("notfound", 10, 0),
                   Rule("unauthorized", 15, 0), Rule("exhaustion", 25, 1)}

(* CompromiseProgressionProfile: five stages of three cycles.              *)
Stages == <<{}, TransientFailuresProfile, ProtocolViolationProfile, ByzantineProfile, ChaoticProfile>>
Profiles == {StressProfile, UnauthorizedAccessProfile} \cup {Stages[i] : i \in DOMAIN Stages}

(* Mutant of SeedPin: every binary reads the pin.                          *)
SeedPinAnywhere(s) == IF s.raw \notin 0 .. 9 THEN {} ELSE {s.raw}

(* faultSeedPin and parseSeedPin: only a test binary reads the pin, and a  *)
(* pin that is not a number is no pin.  faultRandSeed: the epoch and the   *)
(* name of the profile.                                                    *)
SeedPin(s) == IF ~s.testing \/ s.raw \notin 0 .. 9 THEN {} ELSE {s.raw}
SeedWindow == 5
FaultRandSeed(s, name) ==
    [epoch |-> IF SeedPin(s) # {} THEN s.raw ELSE s.now - (s.now % SeedWindow), name |-> name]

ShouldInject(rule, enabled, draw) == enabled /\ draw < rule.rate

ProfileInputs ==
    [testing : BOOLEAN, raw : {-1, 3}, now : Seconds, other : Seconds]
RuleInputs == [rule : UNION Profiles, enabled : BOOLEAN, draw : {0, 4, 5, 9, 10, 14, 15, 20, 25, 99}]
FailureInputs == FailureTypes \cup {"unknown"}

ProfileAsk == Ask("profile", ProfileInputs) \/ Ask("rule", RuleInputs) \/ Ask("failure", FailureInputs)
ProfileReply ==
    \/ Reply("profile", {FaultRandSeed(in, n) : n \in 1 .. Len(Stages)})
    \/ Reply("rule", ShouldInject(in.rule, in.enabled, in.draw))
    \/ Reply("failure", GetFailureMode(in))
-----------------------------------------------------------------------------
(* A rule retries exactly the failures its table calls recoverable, so no  *)
(* profile retries what is a verdict on the server, and gives up on what   *)
(* passes by itself (injection.go against failures.go).                    *)
RetriesMatchRecovery ==
    Answered("rule") => ((in.rule.retries > 0) <=> GetFailureMode(in.rule.type).recoverable)

(* Worse is dearer: a more severe failure weighs more, nothing recoverable *)
(* weighs as much as what is not, and a stale route is cheaper than every  *)
(* other failure, the unknown ones included (failures.go).                 *)
SeverityPriced ==
    Answered("failure") => \A t \in FailureTypes :
        LET mode == DefaultMCPFailureModes[t]
        IN  /\ Answer.severity > mode.severity => Answer.weight > mode.weight
            /\ Answer.recoverable /\ ~mode.recoverable => Answer.weight < mode.weight
            /\ in # "stale" => Answer.weight > GetFailureMode("stale").weight

(* Processes of one window draw alike whatever their environment says, and *)
(* the stages of a profile draw independently (faultRandSeed).             *)
SeedsShared ==
    Answered("profile") =>
        /\ Cardinality(Answer) = Len(Stages)
        /\ ~in.testing /\ in.now \div SeedWindow = in.other \div SeedWindow =>
              Answer = {FaultRandSeed([in EXCEPT !.now = in.other, !.raw = -1], n) :
                              n \in 1 .. Len(Stages)}

(* The tables agree with each other: injected faults with how they are     *)
(* retried, severity with its price, and the seeds of processes of one     *)
(* window.                                                                 *)
ProfilesAgree ==
    /\ RetriesMatchRecovery
    /\ SeverityPriced
    /\ SeedsShared
=============================================================================
