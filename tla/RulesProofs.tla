----------------------------- MODULE RulesProofs -----------------------------
(* Proofs about the rules: the functions of the alarm that decide in one   *)
(* step. A question and its answer are the whole state, so one invariant,  *)
(* RulesTold, serves all of them; each section then proves what one rule   *)
(* answers, for every value of the constants. Loops over lists are         *)
(* reasoned about without induction over data: UpTo takes the least number *)
(* that would fail, LoopExists gives the states a loop goes through, and   *)
(* each loop's own lemma names them.                                       *)
EXTENDS MCRules, FiniteSetTheorems, SequenceTheorems, WellFoundedInduction, TLAPS

-----------------------------------------------------------------------------
(* Numbers and loops.                                                      *)

(* What holds of zero and passes from each number to the next holds up to  *)
(* n: by the least number it would not hold of, since no rule of induction *)
(* can be instantiated.                                                    *)
LEMMA UpTo ==
    ASSUME NEW n \in Nat, NEW S, 0 \in S, \A i \in 1 .. n : i - 1 \in S => i \in S
    PROVE  \A i \in 0 .. n : i \in S
<1> DEFINE B == {i \in 0 .. n : i \notin S}
<1> SUFFICES ASSUME B # {} PROVE FALSE OBVIOUS
<1>1. PICK x \in B : \A y \in B : ~(<<y, x>> \in OpToRel(<, Nat))
    <2>1. IsWellFoundedOn(OpToRel(<, Nat), Nat) BY NatLessThanWellFounded
    <2>2. B \subseteq Nat /\ B # {} OBVIOUS
    <2> HIDE DEF OpToRel, B
    <2> QED BY <2>1, <2>2, WFMin, Zenon
<1>2. x \in 1 .. n /\ x \notin S OBVIOUS
<1>3. x - 1 \notin S BY <1>2
<1>4. x - 1 \in B /\ x - 1 \in Nat /\ x \in Nat /\ x - 1 < x BY <1>2, <1>3
<1> QED BY <1>1, <1>4 DEF OpToRel

(* f is what a loop of n rounds goes through: base, then each round's step *)
(* of what the round before left.                                          *)
Solves(f, base, n, next) == f[0] = base /\ \A i \in 1 .. n : f[i] = next[<<i, f[i - 1]>>]

(* A recursion over the positions of a list has a solution, so a loop      *)
(* computes what its equations say.                                        *)
LEMMA LoopExists ==
    ASSUME NEW T, NEW base \in T, NEW n \in Nat, NEW next \in [(1 .. n) \X T -> T]
    PROVE  \E f \in [0 .. n -> T] : Solves(f, base, n, next)
<1> DEFINE S == {m \in 0 .. n : \E f \in [0 .. m -> T] : Solves(f, base, m, next)}
<1>1. 0 \in S
    <2> DEFINE f == [i \in 0 .. 0 |-> base]
    <2>1. f \in [0 .. 0 -> T] /\ Solves(f, base, 0, next) BY DEF Solves
    <2> HIDE DEF f
    <2>2. 0 \in 0 .. n OBVIOUS
    <2> QED BY <2>1, <2>2
<1>2. ASSUME NEW m \in 1 .. n, m - 1 \in S PROVE m \in S
    <2>1. PICK f \in [0 .. m - 1 -> T] : Solves(f, base, m - 1, next) BY <1>2
    <2> DEFINE g == [i \in 0 .. m |-> IF i = m THEN next[<<m, f[m - 1]>>] ELSE f[i]]
    <2>2. m - 1 \in 0 .. m - 1 /\ m - 1 # m /\ \A i \in 0 .. m : i # m => i \in 0 .. m - 1 OBVIOUS
    <2>3. <<m, f[m - 1]>> \in (1 .. n) \X T BY <2>2
    <2>4. next[<<m, f[m - 1]>>] \in T BY <2>3
    <2>5. g \in [0 .. m -> T] BY <2>2, <2>4
    <2>6. Solves(g, base, m, next)
        <3>1. g[0] = base BY <2>1 DEF Solves
        <3>2. ASSUME NEW i \in 1 .. m PROVE g[i] = next[<<i, g[i - 1]>>]
            <4>1. i - 1 \in 0 .. m /\ i - 1 # m /\ g[i - 1] = f[i - 1] OBVIOUS
            <4>2. CASE i = m BY <4>1, <4>2
            <4>3. CASE i # m
                <5>1. i \in 1 .. m - 1 /\ g[i] = f[i] BY <4>3
                <5>2. f[i] = next[<<i, f[i - 1]>>] BY <2>1, <5>1 DEF Solves
                <5> QED BY <4>1, <5>1, <5>2
            <4> QED BY <4>2, <4>3
        <3> QED BY <3>1, <3>2 DEF Solves
    <2> HIDE DEF g
    <2>7. \E h \in [0 .. m -> T] : Solves(h, base, m, next) BY <2>5, <2>6
    <2>8. m \in 0 .. n BY <1>2
    <2> QED BY <2>7, <2>8
<1>3. n \in S
    <2> HIDE DEF S
    <2>1. n \in 0 .. n OBVIOUS
    <2> QED BY <1>1, <1>2, <2>1, UpTo
<1> QED BY <1>3

(* What the loop behind Filter went through.                               *)
LEMMA FilterLoop ==
    ASSUME NEW T, NEW s \in Seq(T), NEW S
    PROVE  \E f \in [0 .. Len(s) -> Seq(T)] :
               /\ f[0] = <<>>
               /\ \A i \in 1 .. Len(s) : f[i] = IF s[i] \in S THEN Append(f[i - 1], s[i]) ELSE f[i - 1]
               /\ Filter(s, S) = f[Len(s)]
<1> DEFINE n == Len(s)
           next == [p \in (1 .. n) \X Seq(T) |-> IF s[p[1]] \in S THEN Append(p[2], s[p[1]]) ELSE p[2]]
           Eq(f) == f = [i \in 0 .. n |-> IF i = 0 THEN <<>>
                                          ELSE IF s[i] \in S THEN Append(f[i - 1], s[i]) ELSE f[i - 1]]
           g == CHOOSE f : Eq(f)
<1>1. n \in Nat /\ \A i \in 1 .. n : s[i] \in T BY LenProperties, ElementOfSeq
<1>2. next \in [(1 .. n) \X Seq(T) -> Seq(T)]
    <2>1. \A x \in T : \A q \in Seq(T) : Append(q, x) \in Seq(T) BY AppendProperties
    <2> HIDE DEF n
    <2> QED BY <1>1, <2>1
<1>3. <<>> \in Seq(T) OBVIOUS
<1>4. PICK f \in [0 .. n -> Seq(T)] : f[0] = <<>> /\ \A i \in 1 .. n : f[i] = next[<<i, f[i - 1]>>]
    <2> DEFINE U == Seq(T)
               e == <<>>
    <2>1. e \in U /\ next \in [(1 .. n) \X U -> U] /\ n \in Nat BY <1>1, <1>2
    <2> HIDE DEF n, next, U, e
    <2>2. \E f \in [0 .. n -> U] : Solves(f, e, n, next) BY <2>1, LoopExists
    <2> QED BY <2>2 DEF U, e, Solves
<1>5. \A i \in 1 .. n : f[i] = IF s[i] \in S THEN Append(f[i - 1], s[i]) ELSE f[i - 1]
    <2> SUFFICES ASSUME NEW i \in 1 .. n
                 PROVE  f[i] = IF s[i] \in S THEN Append(f[i - 1], s[i]) ELSE f[i - 1]
        OBVIOUS
    <2>1. i - 1 \in 0 .. n BY <1>1
    <2>2. <<i, f[i - 1]>> \in (1 .. n) \X Seq(T) BY <2>1
    <2> HIDE DEF n
    <2> QED BY <1>4, <2>2
<1>6. Eq(f)
    <2> HIDE DEF n
    <2>1. \A i \in 0 .. n : i # 0 => i \in 1 .. n BY <1>1
    <2> QED BY <1>4, <1>5, <2>1
<1>7. Eq(g) BY <1>6, Zenon
<1>8. Filter(s, S) = g[n] BY Zenon DEF Filter, Loop
<1> HIDE DEF g
<1>9. /\ g[0] = <<>> /\ g = [i \in 0 .. n |-> g[i]]
      /\ \A i \in 1 .. n : g[i] = IF s[i] \in S THEN Append(g[i - 1], s[i]) ELSE g[i - 1]
    <2> HIDE DEF n, g
    <2>1. g = [i \in 0 .. n |-> IF i = 0 THEN <<>>
                                ELSE IF s[i] \in S THEN Append(g[i - 1], s[i]) ELSE g[i - 1]]
        BY <1>7
    <2>2. 0 \in 0 .. n /\ \A i \in 1 .. n : i \in 0 .. n /\ i # 0 BY <1>1
    <2> HIDE DEF Eq
    <2> QED BY <2>1, <2>2
<1>10. \A i \in 0 .. n : g[i] \in Seq(T)
    <2> DEFINE G == {i \in 0 .. n : g[i] \in Seq(T)}
    <2> HIDE DEF n, Eq
    <2>0. 0 \in 0 .. n /\ \A i \in 1 .. n : i \in 0 .. n BY <1>1
    <2>1. 0 \in G BY <2>0, <1>3, <1>9, Zenon
    <2>2. ASSUME NEW i \in 1 .. n, i - 1 \in G PROVE i \in G
        <3>1. \A x \in T : \A q \in Seq(T) : Append(q, x) \in Seq(T) BY AppendProperties
        <3>2. g[i - 1] \in Seq(T) /\ s[i] \in T BY <1>1, <2>2
        <3>3. g[i] \in {g[i - 1], Append(g[i - 1], s[i])} BY <1>9
        <3>4. g[i] \in Seq(T) BY <3>1, <3>2, <3>3
        <3> QED BY <2>0, <3>4, Zenon
    <2> HIDE DEF G
    <2>3. \A i \in 0 .. n : i \in G BY <1>1, <2>1, <2>2, UpTo, Zenon
    <2> QED BY <2>3 DEF G
<1> HIDE DEF n
<1>11. g \in [0 .. n -> Seq(T)] BY <1>9, <1>10
<1> QED BY <1>8, <1>9, <1>11 DEF n

-----------------------------------------------------------------------------
(* What a question is answered.                                            *)

(* A question of topic t is one of Inputs, and its answer, once there is   *)
(* one, is r.                                                              *)
Told(t, Inputs, r) == topic = t => in \in Inputs /\ out \in {<<>>, <<r>>}

(* What loading a configuration answers.                                   *)
ConfigTold ==
    /\ Told("service", ServiceInputs,
            LET c == ServiceDefaults(in) IN Loaded(c, ServiceProblems(c)))
    /\ Told("health", HealthInputs, LET c == HealthDefaults(in) IN Loaded(c, HealthProblems(c)))
    /\ Told("section", SectionInputs,
            LET c == FieldDefault(in) IN Loaded(c, IF FieldProblem(c) THEN {"value"} ELSE {}))
    /\ Told("federation", FederationInputs,
            LET c == FederationDefaults(in) IN Loaded(c, FederationProblems(c)))
    /\ Told("target", TargetInputs, LET c == TargetDefaults(in) IN Loaded(c, TargetProblems(c)))
    /\ Told("credentials", CredentialInputs,
            LET c == CredentialDefaults(in) IN Loaded(c, CredentialProblems(c)))
    /\ Told("self", SelfInputs, RewriteSelfEndpoint(in.host, in.port, in.moved))

(* What the rules about faults and rotations answer.                       *)
FaultTold ==
    /\ Told("verdict", VerdictInputs, VerifyRotation(in.registry, in.observed, in.claim))
    /\ Told("commit", CommitInputs,
            LET c == Commit(in.observed, in.claims)
            IN  [commit |-> c, checks |-> [n \in Nodes |-> CheckCommit(c, n, in.saw[n])]])
    /\ Told("profile", ProfileInputs, {FaultRandSeed(in, n) : n \in 1 .. Len(Stages)})
    /\ Told("rule", RuleInputs, ShouldInject(in.rule, in.enabled, in.draw))
    /\ Told("failure", FailureInputs, GetFailureMode(in))

(* What listeners, handlers, reports and summaries answer.                 *)
ViewsTold ==
    /\ Told("claim", ClaimInputs, ClaimListener(in.port, in.held, in.unusable))
    /\ Told("describe", DescribeInputs, ListenAddrs(in.enabled, in.bound, in.configured))
    /\ Told("request", RequestInputs, [status |-> Handler(in), changes |-> Changes(in)])
    /\ Told("report", ReportInputs, MergeReport(in.own, in.incoming))
    /\ Told("summary", SummaryInputs, SummarizeTargets(in))

(* What a probe answers.                                                   *)
ProbeTold ==
    /\ Told("handshake", [check : Checks, peer : Peers],
            StdioProbe(CheckDefaults(in.check), in.peer, GoodPage))
    /\ Told("page", PageInputs, StdioProbe(CheckDefaults(in.check), Hosted("mcp", TRUE), in.page))
    /\ Told("selfprobe", SelfProbeInputs,
            StdioProbe(CheckDefaults(in.check), Hosted(in.check.protocol, in.http),
                       HostedPage(in.check, in.sse)))

(* What a discovery finds, and what a save leaves.                         *)
DiscoveryTold ==
    /\ Told("discover", DiscoverInputs, Discover(in))
    /\ Told("save", SaveInputs,
            LET records == Discover(in.first).records
                once == SaveDiscoveryRecords([n \in {} |-> 0], First(records), in.unique, in.overwrite)
            IN  [records |-> records, once |-> once.files,
                 done |-> SaveDiscoveryRecords(once.files, records, in.unique, in.overwrite)])

(* What compiling the targets and the one-shot commands answer.            *)
CommandTold ==
    /\ Told("compile", TargetLists, CompileTargets(in))
    /\ Told("check", OneShotInputs, cmdCheck(in.targets, in.inTime, in.json))
    /\ Told("validate", ValidateInputs, cmdValidate(in.targets, in.health))

(* What the gate, the credentials, the peer view and its door answer.      *)
GuardTold ==
    /\ Told("stage", StageInputs, RunSafetyStage(in.registered, in.tests, in.over))
    /\ Told("preflight", PreflightInputs, Run(in.tests, in.over))
    /\ Told("auth", AuthInputs, BuildHeaders(in.cfg, in.stored, in.keyring))
    /\ Told("callback", CallbackInputs, HandleCallback(in))
    /\ Told("render", RenderInputs, Render(in))
    /\ Told("door", DoorInputs, Door(in))

(* A question is one of its topic's, and the answer to it is what the code *)
(* computes.                                                               *)
RulesTold ==
    ConfigTold /\ FaultTold /\ ViewsTold /\ ProbeTold /\ DiscoveryTold /\ CommandTold /\ GuardTold

(* A question that was just asked is one of its topic's.                   *)
LEMMA RulesToldInit == RulesInit => RulesTold
<1> USE DEF Ask, Told
<1> SUFFICES ASSUME RulesInit PROVE RulesTold OBVIOUS
<1> USE DEF RulesInit, ConfigAsk, VerdictAsk, ProfileAsk, ViewsAsk, ProbeAsk, DiscoveryAsk,
            TargetsAsk, SafetyAsk, AuthAsk, PeerViewAsk, OneShotAsk
<1>1. ConfigTold BY DEF ConfigTold
<1>2. FaultTold BY DEF FaultTold
<1>3. ViewsTold BY DEF ViewsTold
<1>4. ProbeTold BY DEF ProbeTold
<1>5. DiscoveryTold BY DEF DiscoveryTold
<1>6. CommandTold BY DEF CommandTold
<1>7. GuardTold BY DEF GuardTold
<1> QED BY <1>1, <1>2, <1>3, <1>4, <1>5, <1>6, <1>7 DEF RulesTold

(* The answer to it is what the code computes, and stays.                  *)
LEMMA RulesToldStep == RulesTold /\ [RulesNext]_decisionVars => RulesTold'
<1> SUFFICES ASSUME RulesTold, [RulesNext]_decisionVars PROVE RulesTold' OBVIOUS
<1>1. topic' = topic /\ in' = in
    BY DEF RulesNext, ConfigReply, VerdictReply, ProfileReply, ViewsReply, ProbeReply,
           DiscoveryReply, TargetsReply, SafetyReply, AuthReply, PeerViewReply, OneShotReply,
           Reply, decisionVars
<1> USE DEF Reply, Told, RulesTold, decisionVars
<1> USE DEF RulesNext, ConfigReply, VerdictReply, ProfileReply, ViewsReply, ProbeReply,
           DiscoveryReply, TargetsReply, SafetyReply, AuthReply, PeerViewReply, OneShotReply
<1>2. ConfigTold' BY <1>1 DEF ConfigTold
<1>3. FaultTold' BY <1>1 DEF FaultTold
<1>4. ViewsTold' BY <1>1 DEF ViewsTold
<1>5. ProbeTold' BY <1>1 DEF ProbeTold
<1>6. DiscoveryTold' BY <1>1 DEF DiscoveryTold
<1>7. CommandTold' BY <1>1 DEF CommandTold
<1>8. GuardTold' BY <1>1 DEF GuardTold
<1> QED BY <1>2, <1>3, <1>4, <1>5, <1>6, <1>7, <1>8

(* In every state a question is one its topic has, and the answer, if      *)
(* there is one, is what the code computes for it: so each property of the *)
(* rules is a fact about one function, for each of its inputs.             *)
THEOREM RulesAreTold == RulesSpec => []RulesTold
<1> QED BY RulesToldInit, RulesToldStep, PTL DEF RulesSpec

-----------------------------------------------------------------------------
(* The gate.                                                               *)

(* The lists of tests of a target are sequences.                           *)
LEMMA ListsAreSequences ==
    ASSUME NEW S, NEW s \in Lists(S)
    PROVE  Len(s) \in Nat /\ DOMAIN s = 1 .. Len(s) /\ \A i \in 1 .. Len(s) : s[i] \in S
<1>1. PICK n \in 0 .. MaxTests : s \in [1 .. n -> S] BY DEF Lists
<1>2. s \in Seq(S) BY <1>1, SafetyAssumption, SeqDef
<1> QED BY <1>2, LenProperties, ElementOfSeq

(* A test that was started ends in a failure exactly when what it meets is *)
(* not what it expects, and the failure has a class.                       *)
LEMMA RunSingleTells ==
    ASSUME NEW t \in ValidTests
    PROVE  /\ (RunSingle(t).outcome = "fail") <=> (t.answer # "ok")
           /\ t.answer # "ok" => RunSingle(t).class # "none"
<1>1. CASE t \in FileTests
    <2>1. t.form = "file" /\ t.answer \in FileAnswers BY <1>1 DEF FileTests
    <2>2. RunSingle(t) = RunOne(t, 1 > 1)
        <3>1. Len(<<t>>) = 1 /\ <<t>>[1] = t OBVIOUS
        <3> QED BY <2>1, <3>1 DEF RunSingle, ExecutorRun
    <2>3. RunSingle(t) = IF t.answer = "ok" THEN Pass ELSE Fail(ClassifyCmdFailure(t.answer))
        BY <2>1, <2>2 DEF RunOne
    <2>4. ClassifyCmdFailure(t.answer) # "none" BY DEF ClassifyCmdFailure
    <2> QED BY <2>3, <2>4 DEF Pass, Fail, TestResult
<1>2. CASE t \in EndpointTests
    <2>1. t.form = "endpoint" /\ t.answer \in EndpointAnswers BY <1>2 DEF EndpointTests
    <2>2. RunSingle(t) = RunEndpointHTTP(t) BY <2>1 DEF RunSingle
    <2>3. ClassifyHTTPError(t.answer) # "none" BY DEF ClassifyHTTPError
    <2>4. \/ t.answer = "ok" /\ RunSingle(t) = Pass
          \/ t.answer # "ok" /\ \E c : c # "none" /\ RunSingle(t) = Fail(c)
        BY <2>2, <2>3 DEF RunEndpointHTTP
    <2> QED BY <2>4 DEF Pass, Fail, TestResult
<1> QED BY <1>1, <1>2 DEF ValidTests

(* Some result of a list has an outcome exactly when its count is not 0.   *)
LEMMA CountPositive ==
    ASSUME NEW results, Len(results) \in Nat, NEW outcome
    PROVE  /\ Count(results, outcome) \in Nat
           /\ Count(results, outcome) > 0
                  <=> \E i \in 1 .. Len(results) : results[i].outcome = outcome
<1> DEFINE n == Len(results)
           S == {i \in 1 .. n : results[i].outcome = outcome}
<1>1. IsFiniteSet(1 .. n) BY FS_Interval
<1>2. IsFiniteSet(S) BY <1>1, FS_Subset, S \subseteq 1 .. n
<1>3. Cardinality(S) \in Nat /\ (Cardinality(S) = 0 <=> S = {}) BY <1>2, FS_CardinalityType, FS_EmptySet
<1>4. Count(results, outcome) = Cardinality(S) BY DEF Count
<1>5. S # {} <=> \E i \in 1 .. n : results[i].outcome = outcome OBVIOUS
<1> HIDE DEF S, n
<1> QED BY <1>3, <1>4, <1>5 DEF n

(* The least number that a non-empty set of numbers has.                   *)
LEMMA Least ==
    ASSUME NEW S, S \subseteq Nat, S # {}
    PROVE  \E x \in S : \A y \in S : x <= y
<1>1. PICK x \in S : \A y \in S : ~(<<y, x>> \in OpToRel(<, Nat))
    <2>1. IsWellFoundedOn(OpToRel(<, Nat), Nat) BY NatLessThanWellFounded
    <2> HIDE DEF OpToRel
    <2> QED BY <2>1, WFMin, Zenon
<1>2. \A y \in S : x \in Nat /\ y \in Nat /\ ~(y < x) BY <1>1 DEF OpToRel
<1>3. \A y \in S : x <= y BY <1>2
<1> QED BY <1>3

(* The i-th test was started in time and does not meet what it expects.    *)
Fails(tests, over, i) == i <= over /\ tests[i].answer # "ok"

(* The answer blames test i, the first that fails.                         *)
Blames(answer, tests, over, i) ==
    /\ Fails(tests, over, i) /\ \A j \in 1 .. i - 1 : ~Fails(tests, over, j)
    /\ answer.class = RunSingle(tests[i]).class

(* The stage blocks exactly when a test that was started in time fails,    *)
(* and blames the first.                                                   *)
LEMMA StageVerdict ==
    ASSUME NEW registered, NEW tests \in Lists(ValidTests), NEW over \in Nat,
           NEW answer, answer = RunSafetyStage(registered, tests, over)
    PROVE  /\ answer.blocked <=> \E i \in 1 .. Len(tests) : Fails(tests, over, i)
           /\ answer.blocked => \E i \in 1 .. Len(tests) : Blames(answer, tests, over, i)
<1> DEFINE n == Len(tests)
           report == [i \in 1 .. n |-> IF i > over THEN Skip ELSE RunSingle(tests[i])]
           Failing(i) == report[i].outcome = "fail"
<1>1. n \in Nat /\ \A i \in 1 .. n : tests[i] \in ValidTests BY ListsAreSequences
<1>2. RegisterTarget(registered, tests) = tests
    BY <1>1 DEF RegisterTarget, ValidateHURLTests
<1>3. RunTarget(RegisterTarget(registered, tests), over) = report BY <1>2 DEF RunTarget
<1>4. Len(report) = n BY <1>1
<1>5. \A i \in 1 .. n : Failing(i) <=> Fails(tests, over, i)
    <2> SUFFICES ASSUME NEW i \in 1 .. n PROVE Failing(i) <=> Fails(tests, over, i) OBVIOUS
    <2>1. CASE i > over
        <3>1. report[i] = Skip BY <2>1
        <3> QED BY <2>1, <3>1, <1>1 DEF Skip, TestResult, Fails
    <2>2. CASE ~(i > over)
        <3>1. report[i] = RunSingle(tests[i]) BY <2>2
        <3>2. i <= over BY <2>2, <1>1
        <3>3. (RunSingle(tests[i]).outcome = "fail") <=> (tests[i].answer # "ok") BY <1>1, RunSingleTells
        <3> QED BY <3>1, <3>2, <3>3 DEF Fails
    <2> QED BY <2>1, <2>2
<1>6. HasBlocking(report) <=> \E i \in 1 .. n : Fails(tests, over, i)
    <2> HIDE DEF report, n
    <2>1. HasBlocking(report) <=> \E i \in 1 .. Len(report) : report[i].outcome = "fail"
        BY <1>1, <1>4, CountPositive DEF HasBlocking
    <2> QED BY <2>1, <1>4, <1>5
<1>7. tests = <<>> => ~HasBlocking(report)
    <2>1. tests = <<>> => n = 0 OBVIOUS
    <2> QED BY <1>1, <1>6, <2>1
<1> HIDE DEF report
<1>8. answer = IF ~HasBlocking(report) THEN [blocked |-> FALSE, class |-> "none"]
               ELSE [blocked |-> TRUE, class |-> BlamedClass(report)]
    BY <1>3, <1>7 DEF RunSafetyStage
<1>9. answer.blocked <=> \E i \in 1 .. n : Fails(tests, over, i)
    <2> HIDE DEF n
    <2> QED BY <1>6, <1>8
<1>10. ASSUME answer.blocked
       PROVE  \E i \in 1 .. n : Blames(answer, tests, over, i)
    <2> DEFINE B == {i \in 1 .. n : Fails(tests, over, i)}
               IsFirst(i) == Failing(i) /\ \A j \in 1 .. i - 1 : report[j].outcome # "fail"
    <2> HIDE DEF n
    <2>1. PICK x \in B : \A y \in B : x <= y
        <3>1. B \subseteq Nat /\ B # {} BY <1>1, <1>9, <1>10
        <3> HIDE DEF B
        <3> QED BY <3>1, Least
    <2>2. IsFirst(x) /\ x \in 1 .. n
        <3>1. x \in 1 .. n /\ Fails(tests, over, x) OBVIOUS
        <3>2. \A j \in 1 .. x - 1 : j \in 1 .. n /\ j < x /\ ~(x <= j) BY <1>1, <3>1
        <3>3. \A j \in 1 .. x - 1 : ~Fails(tests, over, j) BY <2>1, <3>2
        <3> QED BY <1>5, <3>1, <3>2, <3>3
    <2> DEFINE i == FirstFailure(report)
    <2>3. i \in 1 .. n /\ IsFirst(i)
        <3> HIDE DEF report
        <3>1. i = CHOOSE k \in 1 .. n : IsFirst(k) BY <1>4 DEF FirstFailure
        <3> HIDE DEF i, IsFirst
        <3> QED BY <2>2, <3>1
    <2> HIDE DEF i
    <2>4. Fails(tests, over, i) /\ \A j \in 1 .. i - 1 : ~Fails(tests, over, j)
        <3>1. \A j \in 1 .. i - 1 : j \in 1 .. n BY <1>1, <2>3
        <3> QED BY <1>5, <2>3, <3>1
    <2>5. answer.class = report[i].class BY <1>8, <1>9, <1>6, <1>10 DEF BlamedClass, i
    <2>6. report[i] = RunSingle(tests[i])
        <3>1. ~(i > over) BY <1>1, <2>3, <2>4 DEF Fails
        <3> QED BY <2>3, <3>1 DEF report
    <2> QED BY <2>3, <2>4, <2>5, <2>6 DEF Blames
<1> QED BY <1>9, <1>10

(* The gate's verdict follows from the tests the target has now.           *)
LEMMA StageSound ==
    ASSUME in \in StageInputs, Answer = RunSafetyStage(in.registered, in.tests, in.over)
    PROVE  GateJudgesCurrent /\ BlockedHasCause
<1> DEFINE n == Len(in.tests)
           Good(i) == in.tests[i].answer = "ok"
           IsFirst(i) == ~Good(i) /\ \A j \in 1 .. i - 1 : Good(j)
           first == CHOOSE i \in 1 .. n : IsFirst(i)
<1>1. in.tests \in Lists(ValidTests) /\ in.over \in Nat BY SafetyAssumption DEF StageInputs
<1>2. n \in Nat /\ \A i \in 1 .. n : in.tests[i] \in ValidTests BY <1>1, ListsAreSequences
<1>3. Answer.blocked <=> \E i \in 1 .. n : Fails(in.tests, in.over, i) BY <1>1, StageVerdict
<1>4. ASSUME Answer.blocked
      PROVE  Answer.class # "none" /\ Answer.class = RunSingle(in.tests[first]).class
    <2> HIDE DEF n
    <2>0. \E i \in 1 .. Len(in.tests) : Blames(Answer, in.tests, in.over, i)
        BY <1>1, <1>4, StageVerdict
    <2>1. PICK i \in 1 .. n : /\ Fails(in.tests, in.over, i)
                              /\ \A j \in 1 .. i - 1 : ~Fails(in.tests, in.over, j)
                              /\ Answer.class = RunSingle(in.tests[i]).class
        BY <2>0 DEF n, Blames
    <2>2. IsFirst(i)
        <3>1. \A j \in 1 .. i - 1 : j <= in.over BY <1>1, <1>2, <2>1 DEF Fails
        <3> QED BY <2>1, <3>1 DEF Fails
    <2>3. first \in 1 .. n /\ IsFirst(first)
        <3> HIDE DEF IsFirst
        <3> QED BY <2>2
    <2>4. first = i
        <3> HIDE DEF first, Good
        <3>1. ~(first < i) /\ ~(i < first) BY <1>2, <2>2, <2>3
        <3> QED BY <1>2, <2>3, <3>1
    <2>5. RunSingle(in.tests[i]).class # "none"
        <3>1. in.tests[i] \in ValidTests /\ in.tests[i].answer # "ok" BY <1>2, <2>2
        <3> QED BY <3>1, RunSingleTells
    <2> QED BY <2>1, <2>4, <2>5
<1>5. GateJudgesCurrent BY <1>3 DEF GateJudgesCurrent, Fails
<1> QED BY <1>4, <1>5 DEF BlockedHasCause

(* A preflight without an error and without a failure really ran a test.   *)
LEMMA PreflightSound ==
    ASSUME in \in PreflightInputs, Answer = Run(in.tests, in.over)
    PROVE  NothingRanAdmitsNothing
<1> DEFINE n == Len(in.tests)
           results == ExecutorRun(in.tests, in.over)
<1> SUFFICES ASSUME ~Answer.err, ~Answer.blocking
             PROVE  \E i \in 1 .. n : /\ i <= in.over /\ in.tests[i].form = "file"
                                      /\ in.tests[i].answer = "ok"
    BY DEF NothingRanAdmitsNothing
<1>1. in.tests \in Lists(FileTests \cup BareTests) /\ in.over \in Nat
    BY SafetyAssumption DEF PreflightInputs
<1>2. n \in Nat /\ \A i \in 1 .. n : in.tests[i] \in FileTests \cup BareTests
    BY <1>1, ListsAreSequences
<1>3. /\ Len(results) = n
      /\ \A i \in 1 .. n : results[i] = RunOne(in.tests[i], i > in.over)
    BY <1>2 DEF ExecutorRun
<1> HIDE DEF n, results
<1>4. /\ Answer.err <=> Count(results, "pass") + Count(results, "fail") = 0
      /\ Answer.blocking <=> Count(results, "fail") > 0
    BY DEF Run, HasBlocking, results
<1>5. Count(results, "pass") \in Nat /\ Count(results, "fail") \in Nat
    BY <1>2, <1>3, CountPositive
<1>6. Count(results, "pass") > 0 BY <1>4, <1>5
<1>7. PICK i \in 1 .. n : results[i].outcome = "pass" BY <1>2, <1>3, <1>6, CountPositive
<1>8. RunOne(in.tests[i], i > in.over).outcome = "pass" BY <1>3, <1>7
<1>9. ~(i > in.over) /\ in.tests[i].form = "file" /\ in.tests[i].answer = "ok"
    BY <1>8 DEF RunOne, Skip, Pass, Fail, TestResult
<1> QED BY <1>1, <1>2, <1>7, <1>9

(* However many tests a target has and wherever time runs out, the gate    *)
(* opens exactly for the tests the target has now, names the first failure *)
(* when it does not, and a preflight that ran nothing admits nothing       *)
(* (property GateSound; RunSafetyStage and Run).                           *)
THEOREM GateAlwaysSound == RulesSpec => []GateSound
<1>1. RulesTold => GateSound
    <2> SUFFICES ASSUME RulesTold PROVE GateSound OBVIOUS
    <2> USE DEF RulesTold, GuardTold, Told
    <2>1. CASE Answered("stage")
        <3>1. in \in StageInputs /\ Answer = RunSafetyStage(in.registered, in.tests, in.over)
            BY <2>1 DEF Answered, Answer
        <3>2. GateJudgesCurrent /\ BlockedHasCause BY <3>1, StageSound
        <3> QED BY <2>1, <3>2 DEF GateSound, NothingRanAdmitsNothing, Answered
    <2>2. CASE Answered("preflight")
        <3>1. in \in PreflightInputs /\ Answer = Run(in.tests, in.over)
            BY <2>2 DEF Answered, Answer
        <3>2. NothingRanAdmitsNothing BY <3>1, PreflightSound
        <3> QED BY <2>2, <3>2 DEF GateSound, GateJudgesCurrent, BlockedHasCause, Answered
    <2> QED BY <2>1, <2>2 DEF GateSound, GateJudgesCurrent, BlockedHasCause, NothingRanAdmitsNothing
<1> QED BY <1>1, RulesAreTold, PTL

-----------------------------------------------------------------------------
(* Rotations.                                                              *)

(* The least of a set of numbers is in it, and below all of it.            *)
LEMMA MinIsLeast ==
    ASSUME NEW S, S \subseteq Nat, S # {}
    PROVE  Min(S) \in S /\ \A y \in S : Min(S) <= y
<1>1. \E x \in S : \A y \in S : x <= y BY Least
<1> QED BY <1>1 DEF Min

(* What one claim earns: a grace within the ceiling, none without a        *)
(* rotation that was seen, and none for a claim about another route, from  *)
(* a stranger, or beyond what it asks for.                                 *)
LEMMA VerdictIs ==
    ASSUME NEW registry, NEW observed, NEW node, NEW claim \in Claims(node),
           NEW v, v = VerifyRotation(registry, observed, claim)
    PROVE  /\ v.observed = observed
           /\ v.grace \in 0 .. Ceiling
           /\ v.grace > 0 => observed # Unseen
           /\ v.grace > 0 /\ claim # NoClaim =>
                  /\ claim.route = Watched /\ Authorized(registry, Watched, claim.node)
                  /\ v.grace <= claim.grace
           /\ v.state = "announced" =>
                  /\ claim.at = observed /\ observed # Unseen
                  /\ claim.grace <= Ceiling /\ claim.route = Watched
<1> DEFINE V(state, grace) == [state |-> state, grace |-> grace, observed |-> observed]
           e == EffectiveGraceOf(claim.grace)
<1>0. Ceiling \in Nat /\ Graces \subseteq Int BY VerdictAssumption
<1>1. claim.grace \in Int
    <2>1. CASE claim = NoClaim BY <2>1 DEF NoClaim
    <2>2. CASE claim \in [node : {node}, at : Instants, grace : Graces,
                          route : {Watched, ID("other", "tool")}]
        BY <1>0, <2>2
    <2> QED BY <2>1, <2>2 DEF Claims
<1>2. e \in 0 .. Ceiling /\ (e > 0 => e <= claim.grace) BY <1>0, <1>1 DEF EffectiveGraceOf
<1>3. EffectiveGraceOf(Ceiling) = Ceiling BY <1>0 DEF EffectiveGraceOf
<1> HIDE DEF e
<1>4. CASE observed = Unseen
    <2>1. \E s : s # "announced" /\ v = V(s, 0) BY <1>4 DEF VerifyRotation
    <2> QED BY <2>1, <1>0, <1>4
<1>5. CASE observed # Unseen /\ claim = NoClaim
    <2>1. v = V("unannounced-rotation", Ceiling) BY <1>3, <1>5 DEF VerifyRotation
    <2> QED BY <2>1, <1>0, <1>5
<1>6. CASE observed # Unseen /\ claim # NoClaim /\ claim.route # Watched
    <2>1. v = V("identity-mismatch", 0) BY <1>6 DEF VerifyRotation
    <2> QED BY <2>1, <1>0, <1>6
<1>7. CASE observed # Unseen /\ claim # NoClaim /\ claim.route = Watched
           /\ ~Authorized(registry, Watched, claim.node)
    <2>1. v = V("unauthorized-replica", 0) BY <1>7 DEF VerifyRotation
    <2> QED BY <2>1, <1>0, <1>7
<1>8. CASE observed # Unseen /\ claim # NoClaim /\ claim.route = Watched
           /\ Authorized(registry, Watched, claim.node)
    <2>1. \E s : v = V(s, e) /\ (s = "announced" => claim.at = observed /\ ~(claim.grace > Ceiling))
        <3> DEFINE s == CASE claim.at # observed -> "mismatched-rotation"
                          [] claim.at = observed /\ claim.grace > Ceiling -> "overclaimed-grace"
                          [] OTHER -> "announced"
        <3>1. v = V(s, e) BY <1>8 DEF VerifyRotation, e
        <3>2. s = "announced" => claim.at = observed /\ ~(claim.grace > Ceiling) OBVIOUS
        <3> HIDE DEF s
        <3> QED BY <3>1, <3>2
    <2>2. PICK s : v = V(s, e) /\ (s = "announced" => claim.at = observed /\ ~(claim.grace > Ceiling))
        BY <2>1
    <2>3. v.grace = e /\ v.state = s /\ v.observed = observed BY <2>2
    <2> QED BY <2>2, <2>3, <1>0, <1>1, <1>2, <1>8
<1> QED BY <1>4, <1>5, <1>6, <1>7, <1>8

(* What a commit says of its nodes.                                        *)
LEMMA CommitIs ==
    ASSUME NEW observed, NEW claims, \A n \in DOMAIN observed : claims[n] \in Claims(n),
           NEW c, c = Commit(observed, claims),
           NEW V, V = [n \in DOMAIN observed |-> VerifyRotation(NoRegistry, observed[n], claims[n])]
    PROVE  /\ DOMAIN c.rotations = {n \in DOMAIN observed : V[n].state = "announced"}
           /\ \A n \in DOMAIN c.rotations :
                  /\ c.rotations[n] = observed[n] /\ observed[n] # Unseen
                  /\ V[n].grace \in Nat /\ c.grace <= V[n].grace
           /\ c.grace \in {0} \cup {V[n].grace : n \in DOMAIN c.rotations}
           /\ DOMAIN c.rotations # {} => c.grace \in {V[n].grace : n \in DOMAIN c.rotations}
<1> DEFINE D == DOMAIN observed
           accepted == {n \in D : V[n].state = "announced"}
           G == {V[n].grace : n \in accepted}
<1>1. \A n \in D : /\ V[n].observed = observed[n] /\ V[n].grace \in 0 .. Ceiling
                   /\ V[n].state = "announced" => observed[n] # Unseen
    BY VerdictIs
<1>2. /\ c.rotations = [n \in accepted |-> V[n].observed]
      /\ c.grace = CommonGrace(G)
    BY DEF Commit
<1>3. G \subseteq Nat BY <1>1, VerdictAssumption
<1>4. DOMAIN c.rotations = accepted BY <1>2
<1>5. G # {} => c.grace \in G /\ \A y \in G : c.grace <= y
    <2> HIDE DEF G
    <2> QED BY <1>2, <1>3, MinIsLeast DEF CommonGrace
<1>6. G = {} => c.grace = 0
    <2> HIDE DEF G
    <2> QED BY <1>2 DEF CommonGrace
<1>7. \A n \in accepted : c.rotations[n] = observed[n] /\ observed[n] # Unseen /\ V[n].grace \in G
    BY <1>1, <1>2
<1> HIDE DEF accepted
<1>8. accepted # {} => G # {} BY <1>7
<1>9. \A n \in accepted : V[n].grace \in Nat /\ c.grace <= V[n].grace
    <2> HIDE DEF G
    <2> QED BY <1>3, <1>5, <1>7
<1> QED BY <1>4, <1>5, <1>6, <1>7, <1>8, <1>9 DEF accepted

(* A commit of an allowed question, and what it would be for one node.     *)
LEMMA CommitSound ==
    ASSUME in \in CommitInputs,
           Answer = LET c == Commit(in.observed, in.claims)
                    IN  [commit |-> c, checks |-> [n \in Nodes |-> CheckCommit(c, n, in.saw[n])]]
    PROVE  StoreCatchesCommitter /\ CommitPerNode
<1> DEFINE c == Commit(in.observed, in.claims)
           V == [n \in Nodes |-> VerifyRotation(NoRegistry, in.observed[n], in.claims[n])]
<1>1. /\ DOMAIN in.observed = Nodes /\ DOMAIN in.saw = Nodes
      /\ \A n \in Nodes : in.claims[n] \in Claims(n)
    BY DEF CommitInputs
<1>2. Answer.commit = c /\ \A n \in Nodes : Answer.checks[n] = CheckCommit(c, n, in.saw[n]) OBVIOUS
<1>3. /\ DOMAIN c.rotations = {n \in Nodes : V[n].state = "announced"}
      /\ \A n \in DOMAIN c.rotations :
             /\ c.rotations[n] = in.observed[n] /\ in.observed[n] # Unseen
             /\ V[n].grace \in Nat /\ c.grace <= V[n].grace
    <2> HIDE DEF c, V
    <2> QED BY <1>1, CommitIs DEF c, V
<1> HIDE DEF c
<1>4. StoreCatchesCommitter
    <2> SUFFICES ASSUME NEW n \in Nodes
                 PROVE  LET said == IF n \in DOMAIN c.rotations THEN c.rotations[n] ELSE Unseen
                        IN  (CheckCommit(c, n, in.saw[n]) = "agrees") <=> (said = in.saw[n])
        BY <1>2 DEF StoreCatchesCommitter
    <2> HIDE DEF V
    <2>1. CASE n \in DOMAIN c.rotations BY <1>3, <2>1 DEF CheckCommit
    <2>2. CASE n \notin DOMAIN c.rotations BY <2>2 DEF CheckCommit
    <2> QED BY <2>1, <2>2
<1>5. CommitPerNode
    <2> SUFFICES ASSUME NEW n \in Nodes
                 PROVE  LET alone == Commit([m \in {n} |-> in.observed[m]], [m \in {n} |-> in.claims[m]])
                        IN  /\ (n \in DOMAIN c.rotations) <=> (n \in DOMAIN alone.rotations)
                            /\ n \in DOMAIN alone.rotations => c.grace <= alone.grace
        BY <1>2 DEF CommitPerNode
    <2> DEFINE o == [m \in {n} |-> in.observed[m]]
               k == [m \in {n} |-> in.claims[m]]
               alone == Commit(o, k)
               W == [m \in {n} |-> VerifyRotation(NoRegistry, o[m], k[m])]
    <2>1. DOMAIN o = {n} /\ k[n] = in.claims[n] /\ W[n] = V[n] OBVIOUS
    <2>2. \A m \in DOMAIN o : k[m] \in Claims(m) BY <1>1, <2>1
    <2>3. /\ DOMAIN alone.rotations = {m \in {n} : W[m].state = "announced"}
          /\ DOMAIN alone.rotations # {} => alone.grace \in {W[m].grace : m \in DOMAIN alone.rotations}
        <3> HIDE DEF o, k, alone
        <3>1. W = [m \in DOMAIN o |-> VerifyRotation(NoRegistry, o[m], k[m])] BY <2>1
        <3> HIDE DEF W
        <3> QED BY <2>1, <2>2, <3>1, CommitIs DEF alone
    <2> HIDE DEF o, k, alone, W, V
    <2>4. n \in DOMAIN alone.rotations => alone.grace = V[n].grace BY <2>1, <2>3
    <2>5. (n \in DOMAIN c.rotations) <=> (n \in DOMAIN alone.rotations) BY <1>3, <2>1, <2>3
    <2>6. n \in DOMAIN alone.rotations => c.grace <= alone.grace BY <1>3, <2>4, <2>5
    <2> QED BY <2>5, <2>6 DEF alone, o, k
<1> QED BY <1>4, <1>5

(* For any set of stores, any ceiling, and whatever nodes saw and claim: a *)
(* claim buys no grace the policy does not give, an announcement that is   *)
(* believed was witnessed, a store catches a committer that says anything  *)
(* else than it recorded, and no node decides for another (property        *)
(* VerdictsSound; VerifyRotation, Commit and CheckCommit).                 *)
THEOREM VerdictsAlwaysSound == RulesSpec => []VerdictsSound
<1>1. RulesTold => VerdictsSound
    <2> SUFFICES ASSUME RulesTold PROVE VerdictsSound OBVIOUS
    <2> USE DEF RulesTold, FaultTold, Told
    <2>1. ASSUME Answered("verdict") PROVE GraceIsThePolicys /\ AnnouncedIsWitnessed
        <3>1. /\ in \in VerdictInputs
              /\ Answer = VerifyRotation(in.registry, in.observed, in.claim)
            BY <2>1 DEF Answered, Answer
        <3>2. PICK node : in.claim \in Claims(node) BY <3>1 DEF VerdictInputs
        <3> QED BY <3>1, <3>2, VerdictIs DEF GraceIsThePolicys, AnnouncedIsWitnessed
    <2>2. ASSUME Answered("commit") PROVE StoreCatchesCommitter /\ CommitPerNode
        <3>1. /\ in \in CommitInputs
              /\ Answer = LET c == Commit(in.observed, in.claims)
                          IN  [commit |-> c, checks |-> [n \in Nodes |-> CheckCommit(c, n, in.saw[n])]]
            BY <2>2 DEF Answered, Answer
        <3> QED BY <3>1, CommitSound
    <2>3. ~Answered("verdict") => GraceIsThePolicys /\ AnnouncedIsWitnessed
        BY DEF GraceIsThePolicys, AnnouncedIsWitnessed
    <2>4. ~Answered("commit") => StoreCatchesCommitter /\ CommitPerNode
        BY DEF StoreCatchesCommitter, CommitPerNode
    <2> QED BY <2>1, <2>2, <2>3, <2>4 DEF VerdictsSound
<1> QED BY <1>1, RulesAreTold, PTL

-----------------------------------------------------------------------------
(* Configuration.                                                          *)

(* An unset text is none of the values a text can have.                    *)
LEMMA BlankIsNone ==
    /\ Blank \notin {"ok", "bad", "background", "low", "medium", "auto", "high"}
    /\ Blank \notin {"default", "other", "set", "stdio", "http", "ws", "sse", "websocket", "cmd"}
    /\ Blank \notin {"oauth", "none", "200", "101", "local", "remote", "given", "bearer", "apikey"}
    /\ Blank \notin {"cmd+args", "own", "alias", "block"}
BY Zenon DEF Blank

(* The section service, from its fields.                                   *)
Service(m, p, po, t, w) == [mode |-> m, profile |-> p, poll |-> po, timeout |-> t, workers |-> w]

(* The workers are within the cap of the profile.                          *)
Capped(p, w) ==
    /\ w \in Nat \ {0}
    /\ p = "low" => w <= 2
    /\ p \in {"auto", "medium"} => w <= 4

(* What a profile makes of a service section.                              *)
LEMMA ProfileIs ==
    ASSUME NEW m, NEW p, p # Blank, NEW po, NEW t, NEW w \in Int
    PROVE  \E x \in Int, q \in {po, Or(po, "ok")}, u \in {t, Or(t, "ok")} :
               /\ ApplyEfficiencyProfile(Service(m, p, po, t, w)) = Service(m, p, q, u, x)
               /\ Capped(p, IF x <= 0 THEN 4 ELSE x)
               /\ x <= 8 \/ x = w
               /\ Capped(p, w) => x = w
<1> DEFINE named == IF p = "auto" THEN "medium" ELSE p
           s == Service(m, p, po, t, w)
<1>1. CASE named \notin DOMAIN Fallback
    <2>1. p \notin {"low", "medium", "high", "auto"} BY <1>1 DEF Fallback
    <2>2. ApplyEfficiencyProfile(s) = Service(m, p, po, t, w)
        BY <1>1 DEF ApplyEfficiencyProfile, Service
    <2>3. Capped(p, IF w <= 0 THEN 4 ELSE w) BY <2>1 DEF Capped
    <2> QED BY <2>2, <2>3
<1>2. CASE named \in DOMAIN Fallback
    <2> DEFINE x == IF OutOfProfile(named, w) THEN Fallback[named] ELSE w
    <2>1. named \in {"low", "medium", "high"} BY <1>2 DEF Fallback
    <2>2. ApplyEfficiencyProfile(s) = Service(m, p, Or(po, "ok"), Or(t, "ok"), x)
        BY <1>2 DEF ApplyEfficiencyProfile, Service
    <2>3. x \in Int /\ Capped(p, IF x <= 0 THEN 4 ELSE x) /\ (x <= 8 \/ x = w) /\ (Capped(p, w) => x = w)
        <3>1. CASE named = "low" BY <3>1 DEF OutOfProfile, Cap, Fallback, Capped
        <3>2. CASE named = "medium" BY <3>2 DEF OutOfProfile, Cap, Fallback, Capped
        <3>3. CASE named = "high" BY <3>3 DEF OutOfProfile, Cap, Fallback, Capped
        <3> QED BY <2>1, <3>1, <3>2, <3>3
    <2> HIDE DEF x
    <2> QED BY <2>2, <2>3
<1> QED BY <1>1, <1>2

(* The service section after its defaults: nothing is unset, and the       *)
(* workers are within the cap of the profile.                              *)
LEMMA ServiceIs ==
    ASSUME NEW m, NEW p, NEW po, NEW t, NEW w \in Int
    PROVE  \E n, q, x :
              /\ ServiceDefaults(Service(m, p, po, t, w)) = Service(n, q, Or(po, "ok"), Or(t, "ok"), x)
              /\ n = Or(m, "background") /\ q \in {"low", "medium", p} /\ q # Blank
              /\ Capped(q, x) /\ (x <= 8 \/ x = w)
              /\ m # Blank /\ p # Blank /\ Capped(p, w) => n = m /\ q = p /\ x = w
<1> DEFINE n == Or(m, "background")
           q == Or(p, IF n \in {"background", "headless"} THEN "low" ELSE "medium")
           s == Service(m, p, po, t, w)
<1>1. q # Blank /\ q \in {"low", "medium", p} /\ (p # Blank => q = p) /\ (m # Blank => n = m) BY BlankIsNone DEF Or
<1>2. \A a, b : [s EXCEPT !.mode = a, !.profile = b] = Service(a, b, po, t, w)
    <2> SUFFICES ASSUME NEW a, NEW b
                 PROVE  [s EXCEPT !.mode = a, !.profile = b] = Service(a, b, po, t, w)
        OBVIOUS
    <2>1. [s EXCEPT !.mode = a] = Service(a, p, po, t, w) BY DEF Service
    <2>2. [Service(a, p, po, t, w) EXCEPT !.profile = b] = Service(a, b, po, t, w) BY DEF Service
    <2> HIDE DEF s
    <2> QED BY <2>1, <2>2
<1>3. s.mode = m /\ s.profile = p BY DEF Service
<1>4. ServiceDefaults(s) = [ApplyEfficiencyProfile(Service(n, q, po, t, w)) EXCEPT
                               !.poll = Or(@, "ok"), !.timeout = Or(@, "ok"),
                               !.workers = IF @ <= 0 THEN 4 ELSE @]
    BY <1>2, <1>3, ZenonT(60) DEF ServiceDefaults
<1> HIDE DEF n, q, s
<1>5. PICK y \in Int, a \in {po, Or(po, "ok")}, b \in {t, Or(t, "ok")} :
          /\ ApplyEfficiencyProfile(Service(n, q, po, t, w)) = Service(n, q, a, b, y)
          /\ Capped(q, IF y <= 0 THEN 4 ELSE y)
          /\ y <= 8 \/ y = w
          /\ Capped(q, w) => y = w
    BY <1>1, ProfileIs
<1> DEFINE x == IF y <= 0 THEN 4 ELSE y
<1>6. Or(a, "ok") = Or(po, "ok") /\ Or(b, "ok") = Or(t, "ok") BY <1>5, BlankIsNone DEF Or
<1>7. ServiceDefaults(s) = Service(n, q, Or(po, "ok"), Or(t, "ok"), x)
    <2> HIDE DEF x
    <2>1. ServiceDefaults(s) = [Service(n, q, a, b, y) EXCEPT !.poll = Or(a, "ok"), !.timeout = Or(b, "ok"),
                                                             !.workers = x]
        <3> DEFINE r == Service(n, q, a, b, y)
        <3>1. r.poll = a /\ r.timeout = b /\ r.workers = y BY DEF Service
        <3>2. ServiceDefaults(s) = [r EXCEPT !.poll = Or(@, "ok"), !.timeout = Or(@, "ok"),
                                             !.workers = IF @ <= 0 THEN 4 ELSE @]
            BY <1>4, <1>5
        <3> HIDE DEF r
        <3>3. ServiceDefaults(s) = [r EXCEPT !.poll = Or(a, "ok"), !.timeout = Or(b, "ok"), !.workers = x]
            BY <3>1, <3>2 DEF x
        <3> QED BY <3>3 DEF r
    <2>2. [Service(n, q, a, b, y) EXCEPT !.poll = Or(a, "ok"), !.timeout = Or(b, "ok"), !.workers = x]
            = Service(n, q, Or(a, "ok"), Or(b, "ok"), x)
        <3> DEFINE aa == Or(a, "ok")  bb == Or(b, "ok")
        <3> HIDE DEF aa, bb
        <3>1. [Service(n, q, a, b, y) EXCEPT !.poll = aa] = Service(n, q, aa, b, y) BY DEF Service
        <3>2. [Service(n, q, aa, b, y) EXCEPT !.timeout = bb] = Service(n, q, aa, bb, y) BY DEF Service
        <3>3. [Service(n, q, aa, bb, y) EXCEPT !.workers = x] = Service(n, q, aa, bb, x) BY DEF Service
        <3> QED BY <3>1, <3>2, <3>3 DEF aa, bb
    <2> QED BY <1>6, <2>1, <2>2
<1>8. x <= 8 \/ x = w BY <1>5
<1>9. Capped(q, w) => x = w BY <1>5 DEF Capped
<1>10. Capped(q, x) BY <1>5
<1> HIDE DEF x
<1> QED BY <1>1, <1>7, <1>8, <1>9, <1>10 DEF n, s

(* The section service can be run.                                         *)
ServiceRuns(c) == c.workers \in 1 .. 2048 /\ c.poll = "ok" /\ c.timeout = "ok"

(* What the service rules promise of a loaded section.                     *)
LEMMA ServiceSound ==
    ASSUME in \in ServiceInputs, NEW c, c = ServiceDefaults(in)
    PROVE  /\ ServiceDefaults(c) = c
           /\ \A f \in ServiceProblems(c) : IF f = "workers" THEN in.workers > 2048 ELSE in[f] = "bad"
           /\ ServiceProblems(c) = {} => ServiceRuns(c)
<1> DEFINE m == in.mode  p == in.profile  po == in.poll  t == in.timeout  w == in.workers
<1>1. in = Service(m, p, po, t, w) /\ w \in Int /\ po \in Durations /\ t \in Durations
    BY ConfigAssumption DEF ServiceInputs, Service
<1>a. in["mode"] = m /\ in["profile"] = p /\ in["poll"] = po /\ in["timeout"] = t OBVIOUS
<1>b. m \in {Blank, "foreground", "background", "headless", "bad"} BY DEF ServiceInputs
<1> HIDE DEF m, p, po, t, w
<1>2. PICK n, q, x :
              /\ c = Service(n, q, Or(po, "ok"), Or(t, "ok"), x)
              /\ n = Or(m, "background") /\ q \in {"low", "medium", p} /\ q # Blank
              /\ Capped(q, x) /\ (x <= 8 \/ x = w)
    BY <1>1, ServiceIs
<1>3. n # Blank /\ Or(Or(po, "ok"), "ok") = Or(po, "ok") /\ Or(Or(t, "ok"), "ok") = Or(t, "ok")
    BY <1>2, BlankIsNone DEF Or
<1>4. x \in Int BY <1>2 DEF Capped
<1>5. ServiceDefaults(c) = c
    <2> DEFINE a == Or(po, "ok")  b == Or(t, "ok")
    <2> HIDE DEF a, b
    <2>1. PICK n2, q2, x2 :
              /\ ServiceDefaults(Service(n, q, a, b, x)) = Service(n2, q2, Or(a, "ok"), Or(b, "ok"), x2)
              /\ n2 = n /\ q2 = q /\ x2 = x
        BY <1>2, <1>3, <1>4, ServiceIs
    <2> QED BY <1>2, <1>3, <2>1 DEF a, b
<1>6. /\ c["mode"] = n /\ c["profile"] = q /\ c["poll"] = Or(po, "ok") /\ c["timeout"] = Or(t, "ok")
      /\ c.workers = x
    BY <1>2 DEF Service
<1>7. \A f \in ServiceProblems(c) : IF f = "workers" THEN w > 2048 ELSE in[f] = "bad"
    <2> SUFFICES ASSUME NEW f \in ServiceProblems(c)
                 PROVE  IF f = "workers" THEN w > 2048 ELSE in[f] = "bad"
        OBVIOUS
    <2>1. \/ f \in {"mode", "profile", "poll", "timeout"} /\ c[f] \in {Blank, "bad"}
          \/ f = "workers" /\ x \notin 1 .. 2048
        BY <1>6 DEF ServiceProblems
    <2>2. CASE f = "workers" /\ x \notin 1 .. 2048 BY <1>2, <2>2 DEF Capped
    <2>3. CASE f = "mode" /\ c["mode"] \in {Blank, "bad"} BY <1>2, <1>6, <1>a, <2>3, BlankIsNone DEF Or
    <2>4. CASE f = "profile" /\ c["profile"] \in {Blank, "bad"} BY <1>2, <1>6, <1>a, <2>4, BlankIsNone DEF Or
    <2>5. CASE f = "poll" /\ c["poll"] \in {Blank, "bad"} BY <1>6, <1>a, <2>5, BlankIsNone DEF Or
    <2>6. CASE f = "timeout" /\ c["timeout"] \in {Blank, "bad"} BY <1>6, <1>a, <2>6, BlankIsNone DEF Or
    <2> QED BY <2>1, <2>2, <2>3, <2>4, <2>5, <2>6
<1>8. ASSUME ServiceProblems(c) = {} PROVE ServiceRuns(c)
    <2>1. x \in 1 .. 2048 BY <1>6, <1>8 DEF ServiceProblems
    <2>2. c["poll"] \notin {Blank, "bad"} /\ c["timeout"] \notin {Blank, "bad"}
        BY <1>8 DEF ServiceProblems
    <2>3. c.poll = "ok" /\ c.timeout = "ok" BY <1>1, <1>6, <2>2, BlankIsNone DEF Durations, Or
    <2> QED BY <1>6, <2>1, <2>3 DEF ServiceRuns
<1> QED BY <1>5, <1>6, <1>7, <1>8 DEF w

(* What the health rules promise of a loaded section.                      *)
LEMMA HealthSound ==
    ASSUME in \in HealthInputs, NEW c, c = HealthDefaults(in)
    PROVE  /\ HealthDefaults(c) = c
           /\ \A f \in HealthProblems(c) : in[f] \in {"bad", "blank"}
           /\ HealthProblems(c) = {} /\ c.enabled => c.addr \in {"default", "other"} /\ c.ttl = "ok"
<1> USE BlankIsNone
<1>0. ASSUME NEW h \in HealthInputs, NEW d, d = HealthDefaults(h)
      PROVE  /\ d \in HealthInputs
             /\ d.addr = Or(h.addr, "default") /\ d.paths = Or(h.paths, "ok") /\ d.ttl = Or(h.ttl, "ok")
             /\ d.enabled = (h.enabled \/ d.addr = "default" \/ h.self) /\ d.self = h.self
             /\ d.secret = h.secret /\ d.roots = h.roots
    BY <1>0, ZenonT(60) DEF HealthDefaults, HealthInputs, Or, Durations
<1>1. /\ c \in HealthInputs
      /\ c.addr = Or(in.addr, "default") /\ c.paths = Or(in.paths, "ok") /\ c.ttl = Or(in.ttl, "ok")
      /\ c.enabled = (in.enabled \/ c.addr = "default" \/ in.self) /\ c.self = in.self
      /\ c.secret = in.secret /\ c.roots = in.roots
    BY <1>0
<1>2. HealthDefaults(c) = c
    <2> DEFINE d == HealthDefaults(c)
    <2>1. /\ d \in HealthInputs
          /\ d.addr = Or(c.addr, "default") /\ d.paths = Or(c.paths, "ok") /\ d.ttl = Or(c.ttl, "ok")
          /\ d.enabled = (c.enabled \/ d.addr = "default" \/ c.self) /\ d.self = c.self
          /\ d.secret = c.secret /\ d.roots = c.roots
        BY <1>0, <1>1
    <2>2. d.addr = c.addr /\ d.paths = c.paths /\ d.ttl = c.ttl BY <1>1, <2>1 DEF Or
    <2>3. d.enabled = c.enabled BY <1>1, <2>1, <2>2 DEF HealthInputs
    <2> HIDE DEF d
    <2>4. d = c BY <1>1, <2>1, <2>2, <2>3 DEF HealthInputs
    <2> QED BY <2>4 DEF d
<1>3. HealthProblems(c) = {} /\ c.enabled => c["addr"] # "bad" /\ c["ttl"] # "bad"
    BY DEF HealthProblems
<1>4. ASSUME NEW f \in HealthProblems(c) PROVE in[f] \in {"bad", "blank"}
    <2>1. \/ f \in {"addr", "paths", "ttl"} /\ c[f] = "bad"
          \/ f = "secret" /\ c.secret = "blank"
          \/ f = "roots" /\ c.roots = "bad"
        BY <1>4 DEF HealthProblems
    <2>2. CASE f = "addr" /\ c["addr"] = "bad" BY <1>1, <2>2 DEF Or
    <2>3. CASE f = "paths" /\ c["paths"] = "bad" BY <1>1, <2>3 DEF Or
    <2>4. CASE f = "ttl" /\ c["ttl"] = "bad" BY <1>1, <2>4 DEF Or
    <2>5. CASE f = "secret" /\ c.secret = "blank" BY <1>1, <2>5
    <2>6. CASE f = "roots" /\ c.roots = "bad" BY <1>1, <2>6
    <2> QED BY <2>1, <2>2, <2>3, <2>4, <2>5, <2>6
<1>5. HealthProblems(c) = {} /\ c.enabled => c.addr \in {"default", "other"} /\ c.ttl = "ok"
    BY <1>1, <1>3 DEF HealthInputs, Or, Durations
<1> QED BY <1>2, <1>4, <1>5

(* A value of another section that is not written down is reported when it *)
(* has no default and is looked at, and what passes is a value.            *)
LEMMA SectionSound ==
    ASSUME in \in SectionInputs, NEW c, c = FieldDefault(in)
    PROVE  /\ in.value = "unset" => (FieldProblem(c) <=> in.field.kind = "required" /\ Checked(in))
           /\ ~FieldProblem(c) /\ in.enabled =>
                  c.value = "ok" \/ (c.value = "unset" /\ in.field.kind = "list")
<1>1. /\ in.value \in {"unset", "ok", "bad", "not-positive"} /\ in.enabled \in BOOLEAN
      /\ in.field.kind \in {"text", "count", "level", "list", "required"}
    <2>1. \A x \in MonitorFields : x.kind \in {"text", "count", "level", "list", "required"}
        BY DEF MonitorFields, Field
    <2>2. \A x \in ServiceFields : x.kind \in {"text", "count", "level", "list", "required"}
        BY DEF ServiceFields, Field
    <2>5. \A x \in DocumentFields : x.kind \in {"text", "count", "level", "list", "required"}
        BY DEF DocumentFields, Field
    <2>3. \A x \in SectionFields : x.kind \in {"text", "count", "level", "list", "required"}
        BY <2>1, <2>2, <2>5 DEF SectionFields
    <2>4. /\ in.value \in {"unset", "ok", "bad", "not-positive"} /\ in.enabled \in BOOLEAN
          /\ in.field \in SectionFields
        BY DEF SectionInputs
    <2> QED BY <2>3, <2>4
<1>2. c.field = in.field /\ c.enabled = in.enabled
    BY DEF FieldDefault, SectionInputs
<1>3. c.value = CASE in.field.kind = "text" /\ in.value = "unset" -> "ok"
                  [] in.field.kind = "count" /\ in.value \in {"unset", "not-positive"} -> "ok"
                  [] in.field.kind = "level" /\ in.value \in {"unset", "not-positive"} -> "ok"
                  [] OTHER -> in.value
    BY DEF FieldDefault, SectionInputs
<1> QED BY <1>1, <1>2, <1>3 DEF FieldProblem, Checked

(* What the federation rules promise of a loaded section.                  *)
LEMMA FederationSound ==
    ASSUME in \in FederationInputs, NEW c, c = FederationDefaults(in)
    PROVE  /\ FederationDefaults(c) = c
           /\ \A f \in FederationProblems(c) :
                  \/ f = "max" /\ c.base > MaxPortNumber - 3
                  \/ f = "downstream"
                  \/ f \in {"poll", "report", "heartbeat"} /\ (in[f] = "bad" \/ in.poll = "bad")
           /\ FederationProblems(c) = {} /\ c.enabled =>
                  1 <= c.base /\ c.base <= c.max /\ c.max <= MaxPortNumber
<1> USE BlankIsNone
<1> DEFINE T == [enabled : BOOLEAN, base : Int, max : Int, poll : Durations,
                 report : Durations, heartbeat : Durations, introducer : {Blank, "set"},
                 upstream : {Blank, "set"}, downstream : BOOLEAN]
           Base(b) == IF b \notin 1 .. MaxPortNumber THEN DefaultBasePort ELSE b
           Top(m, b) == IF m <= 0 \/ m < b \/ m > MaxPortNumber THEN b + 3 ELSE m
<1>0. MaxPortNumber \in Nat /\ DefaultBasePort \in 1 .. MaxPortNumber - 3 BY ConfigAssumption
<1>1. in \in T BY ConfigAssumption DEF FederationInputs
<1>2. ASSUME NEW f \in T, NEW d, d = FederationDefaults(f)
      PROVE  /\ d \in T /\ d.base = Base(f.base) /\ d.max = Top(f.max, d.base)
             /\ d.poll = Or(f.poll, "ok") /\ d.heartbeat = Or(f.heartbeat, "ok")
             /\ d.report = Or(f.report, d.poll) /\ d.introducer = Or(f.introducer, f.upstream)
             /\ d.enabled = f.enabled /\ d.upstream = f.upstream /\ d.downstream = f.downstream
    <2> DEFINE base == Base(f.base)
               max == Top(f.max, base)
               poll == Or(f.poll, "ok")
    <2>1. base \in Int /\ max \in Int BY <1>0
    <2>2. poll \in Durations /\ Or(f.heartbeat, "ok") \in Durations /\ Or(f.report, poll) \in Durations
          /\ Or(f.introducer, f.upstream) \in {Blank, "set"}
        BY DEF Or, Durations
    <2>3. d = [f EXCEPT !.base = base, !.max = max, !.poll = poll, !.heartbeat = Or(f.heartbeat, "ok"),
                        !.report = Or(f.report, poll), !.introducer = Or(f.introducer, f.upstream)]
        BY <1>2 DEF FederationDefaults
    <2> HIDE DEF base, max, poll
    <2>4. d \in T /\ d.base = base /\ d.max = max /\ d.poll = poll /\ d.heartbeat = Or(f.heartbeat, "ok")
          /\ d.report = Or(f.report, poll) /\ d.introducer = Or(f.introducer, f.upstream)
          /\ d.enabled = f.enabled /\ d.upstream = f.upstream /\ d.downstream = f.downstream
        BY <2>1, <2>2, <2>3
    <2> QED BY <2>4 DEF base, max, poll
<1> HIDE DEF T
<1>3. /\ c \in T /\ c.base = Base(in.base) /\ c.max = Top(in.max, c.base)
      /\ c.poll = Or(in.poll, "ok") /\ c.heartbeat = Or(in.heartbeat, "ok")
      /\ c.report = Or(in.report, c.poll) /\ c.introducer = Or(in.introducer, in.upstream)
      /\ c.enabled = in.enabled /\ c.upstream = in.upstream /\ c.downstream = in.downstream
    BY <1>1, <1>2
<1>4. in.base \in Int /\ in.max \in Int BY <1>1 DEF T
<1>5. c.base \in 1 .. MaxPortNumber /\ (c.max \in c.base .. MaxPortNumber \/ c.max = c.base + 3)
    BY <1>0, <1>3, <1>4
<1>6. FederationDefaults(c) = c
    <2> DEFINE d == FederationDefaults(c)
    <2>1. /\ d \in T /\ d.base = Base(c.base) /\ d.max = Top(c.max, d.base)
          /\ d.poll = Or(c.poll, "ok") /\ d.heartbeat = Or(c.heartbeat, "ok")
          /\ d.report = Or(c.report, d.poll) /\ d.introducer = Or(c.introducer, c.upstream)
          /\ d.enabled = c.enabled /\ d.upstream = c.upstream /\ d.downstream = c.downstream
        BY <1>2, <1>3
    <2> HIDE DEF d
    <2>2. d.base = c.base /\ d.max = c.max BY <1>0, <1>5, <2>1
    <2>3. d.poll = c.poll /\ d.heartbeat = c.heartbeat /\ d.report = c.report
          /\ d.introducer = c.introducer
        BY <1>3, <2>1 DEF Or
    <2>4. d = c BY <1>3, <2>1, <2>2, <2>3 DEF T
    <2> QED BY <2>4 DEF d
<1>7. ASSUME NEW f \in FederationProblems(c)
      PROVE  \/ f = "max" /\ c.base > MaxPortNumber - 3
             \/ f = "downstream"
             \/ f \in {"poll", "report", "heartbeat"} /\ (in[f] = "bad" \/ in.poll = "bad")
    <2>1. \/ f \in {"poll", "report", "heartbeat"} /\ c[f] \in {Blank, "bad"}
          \/ f = "max" /\ c.max \notin c.base .. MaxPortNumber
          \/ f = "downstream"
        BY <1>5, <1>7 DEF FederationProblems
    <2>2. CASE f = "max" /\ c.max \notin c.base .. MaxPortNumber BY <1>0, <1>5, <2>2
    <2>3. CASE f = "poll" /\ c["poll"] \in {Blank, "bad"} BY <1>3, <2>3 DEF Or
    <2>4. CASE f = "report" /\ c["report"] \in {Blank, "bad"} BY <1>3, <2>4 DEF Or
    <2>5. CASE f = "heartbeat" /\ c["heartbeat"] \in {Blank, "bad"} BY <1>3, <2>5 DEF Or
    <2> QED BY <2>1, <2>2, <2>3, <2>4, <2>5
<1>8. ASSUME FederationProblems(c) = {}, c.enabled
      PROVE  1 <= c.base /\ c.base <= c.max /\ c.max <= MaxPortNumber
    <2>1. c.max \in c.base .. MaxPortNumber BY <1>8 DEF FederationProblems
    <2> QED BY <1>5, <2>1
<1> QED BY <1>6, <1>7, <1>8

(* The values a target's fields have before and after its defaults.        *)
TargetTexts ==
    [enabled : BOOLEAN, transport : {Blank, "http", "websocket", "stdio", "sse", "bad"},
     type : {Blank, "local", "remote", "bad"}, endpoint : Schemes, url : {Blank, "http", "ws", "bad"},
     stdio : {Blank, "cmd"}, args : {Blank, "own", "alias"}, command : {Blank, "cmd", "cmd+args"},
     codes : {Blank, "given", "bad", "101", "200"}]

(* A command is read from its alias.                                       *)
Aliased(t) == t.stdio = Blank /\ t.command # Blank

(* What the aliases leave of a target.                                     *)
LEMMA ReconcileIs ==
    ASSUME NEW t \in TargetTexts, NEW r, r = Reconcile(t)
    PROVE  /\ r \in TargetTexts
           /\ r.enabled = t.enabled /\ r.type = t.type /\ r.url = t.url
           /\ r.command = t.command /\ r.codes = t.codes
           /\ r.endpoint = Or(t.endpoint, t.url) /\ r.stdio = (IF Aliased(t) THEN "cmd" ELSE t.stdio)
           /\ r.args = (IF Aliased(t) /\ t.command = "cmd+args" THEN "alias" ELSE t.args)
           /\ t.transport # Blank => r.transport = t.transport
<1> USE BlankIsNone
<1> DEFINE byType == IF t.type = "local" THEN Or(t.transport, "stdio") ELSE t.transport
           transport == IF Aliased(t) THEN Or(byType, "stdio") ELSE byType
           endpoint == Or(t.endpoint, t.url)
           stdio == IF Aliased(t) THEN "cmd" ELSE t.stdio
           args == IF Aliased(t) /\ t.command = "cmd+args" THEN "alias" ELSE t.args
<1>1. r = [t EXCEPT !.transport = transport, !.endpoint = endpoint, !.stdio = stdio, !.args = args]
    BY DEF Reconcile, Aliased
<1>2. /\ transport \in {Blank, "http", "websocket", "stdio", "sse", "bad"}
      /\ t.transport # Blank => transport = t.transport
    BY DEF TargetTexts, Or
<1>3. endpoint \in Schemes /\ stdio \in {Blank, "cmd"} /\ args \in {Blank, "own", "alias"}
    BY DEF TargetTexts, Or, Schemes
<1> HIDE DEF transport, endpoint, stdio, args
<1>4. /\ r \in TargetTexts
      /\ r.enabled = t.enabled /\ r.type = t.type /\ r.url = t.url
      /\ r.command = t.command /\ r.codes = t.codes
      /\ r.endpoint = endpoint /\ r.stdio = stdio /\ r.args = args /\ r.transport = transport
    BY <1>1, <1>2, <1>3, ZenonT(60) DEF TargetTexts
<1> QED BY <1>2, <1>4 DEF endpoint, stdio, args

(* What the defaults make of a target.                                     *)
LEMMA TargetIs ==
    ASSUME NEW t \in TargetTexts, NEW c, c = TargetDefaults(t)
    PROVE  /\ c \in TargetTexts
           /\ c.enabled = t.enabled /\ c.url = t.url /\ c.command = t.command
           /\ c.stdio = (IF Aliased(t) THEN "cmd" ELSE t.stdio)
           /\ c.args = (IF Aliased(t) /\ t.command = "cmd+args" THEN "alias" ELSE t.args)
           /\ c.codes # Blank /\ (t.codes # Blank => c.codes = t.codes)
           /\ t.codes = Blank => c.codes # "bad"
           /\ c.transport # Blank /\ (t.transport # Blank => c.transport = t.transport)
           /\ t.transport = Blank => c.transport # "bad"
           /\ c.endpoint = (IF c.transport = "stdio" THEN Or(Or(t.endpoint, t.url), "stdio")
                            ELSE Or(t.endpoint, t.url))
           /\ c.type # Blank /\ (t.type # Blank => c.type = t.type)
           /\ t.type = Blank => c.type # "bad"
<1> USE BlankIsNone
<1> DEFINE r == Reconcile(t)
           codes == Or(r.codes, IF r.transport = "websocket" THEN "101" ELSE "200")
           transport == Or(r.transport, InferTransport(r.endpoint))
           endpoint == IF transport = "stdio" THEN Or(r.endpoint, "stdio") ELSE r.endpoint
           type == Or(r.type, IF transport = "stdio" THEN "local" ELSE "remote")
<1>0. t.transport = Blank => r.transport \in {Blank, "stdio"}
    <2>1. r.transport \in {t.transport, Or(t.transport, "stdio"), Or(Or(t.transport, "stdio"), "stdio")}
        BY DEF Reconcile, TargetTexts, Or
    <2> QED BY <2>1 DEF Or
<1>1. /\ r \in TargetTexts
      /\ r.enabled = t.enabled /\ r.type = t.type /\ r.url = t.url
      /\ r.command = t.command /\ r.codes = t.codes
      /\ r.endpoint = Or(t.endpoint, t.url) /\ r.stdio = (IF Aliased(t) THEN "cmd" ELSE t.stdio)
      /\ r.args = (IF Aliased(t) /\ t.command = "cmd+args" THEN "alias" ELSE t.args)
      /\ t.transport # Blank => r.transport = t.transport
    BY ReconcileIs
<1>2. c = [r EXCEPT !.codes = codes, !.transport = transport, !.endpoint = endpoint, !.type = type]
    BY DEF TargetDefaults
<1> HIDE DEF r
<1>3. /\ transport \in {"http", "websocket", "stdio", "sse", "bad"} /\ transport # Blank
      /\ r.transport # Blank => transport = r.transport
      /\ t.transport = Blank => transport # "bad"
    BY <1>0, <1>1 DEF TargetTexts, Or, InferTransport
<1>4. /\ codes \in {"given", "bad", "101", "200"} /\ codes # Blank /\ (r.codes # Blank => codes = r.codes)
      /\ r.codes = Blank => codes # "bad"
    BY <1>1 DEF TargetTexts, Or
<1> HIDE DEF codes, transport
<1>5. /\ endpoint \in Schemes
      /\ type \in {"local", "remote", "bad"} /\ type # Blank /\ (r.type # Blank => type = r.type)
      /\ r.type = Blank => type # "bad"
    BY <1>1 DEF TargetTexts, Or, Schemes
<1> HIDE DEF endpoint, type
<1>6. /\ c \in TargetTexts
      /\ c.enabled = r.enabled /\ c.url = r.url /\ c.command = r.command
      /\ c.stdio = r.stdio /\ c.args = r.args
      /\ c.codes = codes /\ c.transport = transport /\ c.endpoint = endpoint /\ c.type = type
    <2>1. r \in TargetTexts BY <1>1
    <2>2. /\ transport \in {Blank, "http", "websocket", "stdio", "sse", "bad"}
          /\ codes \in {Blank, "given", "bad", "101", "200"}
          /\ type \in {Blank, "local", "remote", "bad"}
        BY <1>3, <1>4, <1>5
    <2>3. endpoint \in Schemes BY <1>5
    <2>4. c \in TargetTexts
        <3> DEFINE q == [r EXCEPT !.codes = codes]
        <3>1. q \in TargetTexts BY <2>1, <2>2 DEF TargetTexts
        <3>2. c = [q EXCEPT !.transport = transport, !.endpoint = endpoint, !.type = type] BY <1>2
        <3> HIDE DEF q
        <3> QED BY <3>1, <3>2, <2>2, <2>3, ZenonT(60) DEF TargetTexts
    <2>5. /\ c.enabled = r.enabled /\ c.url = r.url
          /\ c.command = r.command /\ c.stdio = r.stdio /\ c.args = r.args
        BY <1>2, <2>1 DEF TargetTexts
    <2>6. /\ c.codes = codes /\ c.transport = transport /\ c.endpoint = endpoint /\ c.type = type
        BY <1>2, <2>1 DEF TargetTexts
    <2> QED BY <2>4, <2>5, <2>6
<1>8. c.endpoint = (IF c.transport = "stdio" THEN Or(Or(t.endpoint, t.url), "stdio")
                    ELSE Or(t.endpoint, t.url))
    BY <1>1, <1>6 DEF endpoint
<1> QED BY <1>1, <1>3, <1>4, <1>5, <1>6, <1>8

(* What is wrong with a target's address was written down wrong, or not at *)
(* all.                                                                    *)
TargetReported(f) ==
    CASE f = "command" -> in.stdio = Blank /\ in.command = Blank
      [] f = "endpoint" -> "bad" \in {in.endpoint, in.url} \/ {in.endpoint, in.url} = {Blank}
      [] OTHER -> in[f] = "bad"

(* The address and the command of a target that was written down are kept. *)
TargetKept(c) ==
    /\ \A f \in {"endpoint", "stdio", "transport", "type"} : in[f] # Blank => c[f] = in[f]
    /\ c.args # in.args => in.stdio = Blank /\ in.command = "cmd+args" /\ c.args = "alias"
    /\ in.endpoint = Blank /\ in.url # Blank => c.endpoint = in.url
    /\ in.stdio = Blank /\ in.command # Blank => c.stdio = "cmd"

(* A target has what its transport needs.                                  *)
TargetRuns(c) ==
    c.enabled => IF c.transport = "stdio" THEN c.stdio # Blank ELSE c.endpoint \notin {Blank, "bad"}

(* What the target rules promise of a loaded target.                       *)
LEMMA TargetSound ==
    ASSUME in \in TargetInputs, NEW c, c = TargetDefaults(in)
    PROVE  /\ TargetDefaults(c) = c
           /\ \A f \in TargetProblems(c) : TargetReported(f)
           /\ TargetProblems(c) = {} => TargetRuns(c)
           /\ TargetKept(c)
<1> USE BlankIsNone
<1>1. in \in TargetTexts BY DEF TargetInputs, TargetTexts
<1>2. /\ c \in TargetTexts
      /\ c.enabled = in.enabled /\ c.url = in.url /\ c.command = in.command
      /\ c.stdio = (IF Aliased(in) THEN "cmd" ELSE in.stdio)
      /\ c.args = (IF Aliased(in) /\ in.command = "cmd+args" THEN "alias" ELSE in.args)
      /\ c.codes # Blank /\ (in.codes # Blank => c.codes = in.codes)
      /\ in.codes = Blank => c.codes # "bad"
      /\ c.transport # Blank /\ (in.transport # Blank => c.transport = in.transport)
      /\ in.transport = Blank => c.transport # "bad"
      /\ c.endpoint = (IF c.transport = "stdio" THEN Or(Or(in.endpoint, in.url), "stdio")
                       ELSE Or(in.endpoint, in.url))
      /\ c.type # Blank /\ (in.type # Blank => c.type = in.type)
      /\ in.type = Blank => c.type # "bad"
    BY <1>1, TargetIs
<1>3. TargetDefaults(c) = c
    <2> DEFINE d == TargetDefaults(c)
    <2>1. /\ d \in TargetTexts
          /\ d.enabled = c.enabled /\ d.url = c.url /\ d.command = c.command
          /\ d.stdio = (IF Aliased(c) THEN "cmd" ELSE c.stdio)
          /\ d.args = (IF Aliased(c) /\ c.command = "cmd+args" THEN "alias" ELSE c.args)
          /\ (c.codes # Blank => d.codes = c.codes)
          /\ (c.transport # Blank => d.transport = c.transport)
          /\ d.endpoint = (IF d.transport = "stdio" THEN Or(Or(c.endpoint, c.url), "stdio")
                           ELSE Or(c.endpoint, c.url))
          /\ (c.type # Blank => d.type = c.type)
        BY <1>2, TargetIs
    <2> HIDE DEF d
    <2>2. d.codes = c.codes /\ d.transport = c.transport /\ d.type = c.type BY <1>2, <2>1
    <2>3. ~Aliased(c) BY <1>2 DEF Aliased
    <2>4. d.stdio = c.stdio /\ d.args = c.args BY <2>1, <2>3
    <2>5. d.endpoint = c.endpoint BY <1>2, <2>1, <2>2 DEF Or
    <2>6. d = c BY <1>2, <2>1, <2>2, <2>4, <2>5 DEF TargetTexts
    <2> QED BY <2>6 DEF d
<1>4. ASSUME TargetProblems(c) = {} PROVE TargetRuns(c)
    <2> SUFFICES ASSUME c.enabled PROVE TargetRuns(c) BY DEF TargetRuns
    <2>1. c["endpoint"] # "bad" BY <1>4 DEF TargetProblems
    <2>2. c.transport = "stdio" => c.stdio # Blank BY <1>4 DEF TargetProblems
    <2>3. c.transport # "stdio" => c.endpoint # Blank BY <1>4 DEF TargetProblems
    <2> QED BY <2>1, <2>2, <2>3 DEF TargetRuns
<1>5. ASSUME NEW f \in TargetProblems(c) PROVE TargetReported(f)
    <2>1. \/ f \in {"transport", "type", "codes", "endpoint"} /\ c[f] = "bad"
          \/ f = "command" /\ c.stdio = Blank
          \/ f = "endpoint" /\ c.transport # "stdio" /\ c.endpoint = Blank
        BY <1>5 DEF TargetProblems
    <2>2. CASE f = "command" /\ c.stdio = Blank BY <1>2, <2>2 DEF TargetReported, Aliased
    <2>3. CASE f = "endpoint" /\ c.transport # "stdio" /\ c.endpoint = Blank
        BY <1>2, <2>3 DEF TargetReported, Or
    <2>4. CASE f = "endpoint" /\ c["endpoint"] = "bad" BY <1>2, <2>4 DEF TargetReported, Or
    <2>5. CASE f = "transport" /\ c["transport"] = "bad"
        <3>1. in["transport"] = "bad" BY <1>2, <2>5
        <3> QED BY <2>5, <3>1 DEF TargetReported
    <2>6. CASE f = "type" /\ c["type"] = "bad"
        <3>1. in["type"] = "bad" BY <1>2, <2>6
        <3> QED BY <2>6, <3>1 DEF TargetReported
    <2>7. CASE f = "codes" /\ c["codes"] = "bad"
        <3>1. in["codes"] = "bad" BY <1>2, <2>7
        <3> QED BY <2>7, <3>1 DEF TargetReported
    <2> QED BY <2>1, <2>2, <2>3, <2>4, <2>5, <2>6, <2>7
<1>6. TargetKept(c)
    <2>1. in["endpoint"] # Blank => c["endpoint"] = in["endpoint"] BY <1>2 DEF Or
    <2>2. in["stdio"] # Blank => c["stdio"] = in["stdio"] BY <1>2 DEF Aliased
    <2>3. in["transport"] # Blank => c["transport"] = in["transport"] BY <1>2
    <2>4. in["type"] # Blank => c["type"] = in["type"] BY <1>2
    <2>5. c.args # in.args => in.stdio = Blank /\ in.command = "cmd+args" /\ c.args = "alias"
        BY <1>2 DEF Aliased
    <2>6. in.endpoint = Blank /\ in.url # Blank => c.endpoint = in.url BY <1>2 DEF Or
    <2>7. in.stdio = Blank /\ in.command # Blank => c.stdio = "cmd" BY <1>2 DEF Aliased
    <2> QED BY <2>1, <2>2, <2>3, <2>4, <2>5, <2>6, <2>7 DEF TargetKept
<1> QED BY <1>3, <1>4, <1>5, <1>6

(* The values of the credentials before and after their defaults.          *)
CredentialTexts ==
    [enabled : BOOLEAN, type : {Blank, "none", "bearer", "apikey", "oauth", "bad"},
     client : {Blank, "own", "block"}, token : {Blank, "own", "block", "bad"},
     secret : {Blank, "own", "block"}, name : {Blank, "own"},
     block : [given : BOOLEAN, client : {Blank, "block"}, token : {Blank, "block", "bad"},
              secret : {Blank, "block"}]]

(* What is wrong with the credentials was written down wrong, or is a      *)
(* field of the type of auth that was asked for.                           *)
CredentialReported(f) ==
    CASE f = "type" -> in.type = "bad"
      [] f \in {"secret", "name"} -> in.type \in {"bearer", "apikey"} /\ in[f] = Blank
      [] OTHER -> IF in[f] # Blank THEN in[f] = "bad"
                  ELSE in.type = Blank => in.block[f] \in {Blank, "bad"}

(* Credentials that were written down are kept.                            *)
CredentialKept(c) ==
    /\ in.type # Blank => c = in
    /\ \A f \in {"client", "token", "secret"} :
           IF in[f] # Blank THEN c[f] = in[f]
           ELSE in.type = Blank /\ in.block.given => c[f] = in.block[f]

(* Credentials can be used.                                                *)
CredentialRuns(c) ==
    c.enabled =>
        /\ c.type = "oauth" => c.client # Blank /\ c.token # Blank
        /\ c.type \in {"bearer", "apikey"} => c.secret # Blank

(* What the rules about credentials promise of a loaded target.            *)
LEMMA CredentialSound ==
    ASSUME in \in CredentialInputs, NEW c, c = CredentialDefaults(in)
    PROVE  /\ CredentialDefaults(c) = c
           /\ \A f \in CredentialProblems(c) : CredentialReported(f)
           /\ CredentialProblems(c) = {} => CredentialRuns(c)
           /\ CredentialKept(c)
<1> USE BlankIsNone
<1> DEFINE b == in.block
<1>1. /\ in \in CredentialTexts
      /\ b.client \in {Blank, "block"} /\ b.token \in {Blank, "block", "bad"} /\ b.secret \in {Blank, "block"}
    BY DEF CredentialInputs, CredentialTexts
<1>a. /\ in["client"] = in.client /\ in["token"] = in.token /\ in["secret"] = in.secret
      /\ b["client"] = b.client /\ b["token"] = b.token /\ b["secret"] = b.secret
    OBVIOUS
<1>2. /\ c.enabled = in.enabled /\ c.name = in.name /\ c.block = b /\ c.type # Blank
      /\ ~(b.given /\ in.type = Blank) =>
             /\ c.type = Or(in.type, "none")
             /\ c.client = in.client /\ c.token = in.token /\ c.secret = in.secret
      /\ b.given /\ in.type = Blank =>
             /\ c.type = "oauth" /\ c.client = Or(in.client, b.client)
             /\ c.token = Or(in.token, b.token) /\ c.secret = Or(in.secret, b.secret)
    <2>1. CASE b.given /\ in.type = Blank
        <3> DEFINE x == Or(in.client, b.client)  y == Or(in.token, b.token)  z == Or(in.secret, b.secret)
        <3>1. c = [in EXCEPT !.type = "oauth", !.client = x, !.token = y, !.secret = z]
            BY <2>1 DEF CredentialDefaults
        <3> HIDE DEF x, y, z
        <3>2. /\ c.enabled = in.enabled /\ c.name = in.name /\ c.block = b /\ c.type = "oauth"
              /\ c.client = x /\ c.token = y /\ c.secret = z
            BY <1>1, <3>1 DEF CredentialTexts
        <3> QED BY <2>1, <3>2 DEF x, y, z
    <2>2. CASE ~(b.given /\ in.type = Blank)
        <3>1. c = [in EXCEPT !.type = Or(in.type, "none")] BY <2>2 DEF CredentialDefaults
        <3>2. Or(in.type, "none") # Blank BY DEF Or
        <3> QED BY <1>1, <2>2, <3>1, <3>2 DEF CredentialTexts
    <2> QED BY <2>1, <2>2
<1>3. in.type # Blank => c = in
    <2> SUFFICES ASSUME in.type # Blank PROVE c = in OBVIOUS
    <2>1. c = [in EXCEPT !.type = in.type] BY DEF CredentialDefaults, Or
    <2> QED BY <1>1, <2>1 DEF CredentialTexts
<1>4. CredentialDefaults(c) = c
    <2>1. c \in CredentialTexts
        <3>1. CASE b.given /\ in.type = Blank
            <4> DEFINE x == Or(in.client, b.client)  y == Or(in.token, b.token)  z == Or(in.secret, b.secret)
            <4>1. c = [in EXCEPT !.type = "oauth", !.client = x, !.token = y, !.secret = z]
                BY <3>1 DEF CredentialDefaults
            <4>2. /\ x \in {Blank, "own", "block"} /\ y \in {Blank, "own", "block", "bad"}
                  /\ z \in {Blank, "own", "block"}
                BY <1>1 DEF CredentialTexts, Or
            <4> HIDE DEF x, y, z
            <4> QED BY <1>1, <4>1, <4>2 DEF CredentialTexts
        <3>2. CASE ~(b.given /\ in.type = Blank)
            <4> DEFINE x == Or(in.type, "none")
            <4>1. c = [in EXCEPT !.type = x] BY <3>2 DEF CredentialDefaults
            <4>2. x \in {Blank, "none", "bearer", "apikey", "oauth", "bad"} BY <1>1 DEF CredentialTexts, Or
            <4> HIDE DEF x
            <4> QED BY <1>1, <4>1, <4>2 DEF CredentialTexts
        <3> QED BY <3>1, <3>2
    <2>2. CredentialDefaults(c) = [c EXCEPT !.type = c.type] BY <1>2 DEF CredentialDefaults, Or
    <2> QED BY <2>1, <2>2 DEF CredentialTexts
<1> HIDE DEF b
<1>5. ASSUME NEW f \in CredentialProblems(c) PROVE CredentialReported(f)
    <2>1. \/ f = "type" /\ c.type = "bad"
          \/ f \in {"secret", "name"} /\ c.type \in {"bearer", "apikey"} /\ c[f] = Blank
          \/ f \in {"client", "token"} /\ c.type = "oauth" /\ c[f] \in {Blank, "bad"}
        BY <1>5 DEF CredentialProblems
    <2>2. CASE f = "type" /\ c.type = "bad" BY <1>2, <2>2 DEF CredentialReported, Or
    <2>3. CASE f \in {"secret", "name"} /\ c.type \in {"bearer", "apikey"} /\ c[f] = Blank
        <3>1. in.type # Blank BY <1>2, <2>3 DEF Or
        <3>2. c = in BY <1>3, <3>1
        <3> QED BY <2>3, <3>2 DEF CredentialReported
    <2>4. CASE f = "client" /\ c.type = "oauth" /\ c["client"] \in {Blank, "bad"}
        <3>1. c.client \in {Blank, "bad"} BY <2>4
        <3>2. IF in.client # Blank THEN in.client = "bad" ELSE in.type = Blank => b.client \in {Blank, "bad"}
            BY <1>2, <2>4, <3>1 DEF Or
        <3> QED BY <1>a, <2>4, <3>2 DEF CredentialReported, b
    <2>5. CASE f = "token" /\ c.type = "oauth" /\ c["token"] \in {Blank, "bad"}
        <3>1. c.token \in {Blank, "bad"} BY <2>5
        <3>2. IF in.token # Blank THEN in.token = "bad" ELSE in.type = Blank => b.token \in {Blank, "bad"}
            BY <1>2, <2>5, <3>1 DEF Or
        <3> QED BY <1>a, <2>5, <3>2 DEF CredentialReported, b
    <2> QED BY <2>1, <2>2, <2>3, <2>4, <2>5
<1>6. ASSUME CredentialProblems(c) = {} PROVE CredentialRuns(c)
    <2> SUFFICES ASSUME c.enabled PROVE CredentialRuns(c) BY DEF CredentialRuns
    <2>1. c.type = "oauth" => c["client"] # Blank /\ c["token"] # Blank BY <1>6 DEF CredentialProblems
    <2>2. c.type \in {"bearer", "apikey"} => c["secret"] # Blank BY <1>6 DEF CredentialProblems
    <2> QED BY <2>1, <2>2 DEF CredentialRuns
<1>7. CredentialKept(c)
    <2>1. IF in.client # Blank THEN c.client = in.client
          ELSE in.type = Blank /\ b.given => c.client = b.client
        BY <1>2 DEF Or
    <2>2. IF in.token # Blank THEN c.token = in.token
          ELSE in.type = Blank /\ b.given => c.token = b.token
        BY <1>2 DEF Or
    <2>3. IF in.secret # Blank THEN c.secret = in.secret
          ELSE in.type = Blank /\ b.given => c.secret = b.secret
        BY <1>2 DEF Or
    <2> QED BY <1>3, <1>a, <2>1, <2>2, <2>3 DEF CredentialKept, b
<1> QED BY <1>4, <1>5, <1>6, <1>7

(* A target of our own follows the listener it names, and only that one.   *)
LEMMA SelfSound ==
    ASSUME in \in SelfInputs, Answer = RewriteSelfEndpoint(in.host, in.port, in.moved)
    PROVE  /\ in.host = "remote" => Answer = in.port
           /\ in.host = "local" => \A m \in in.moved : m[1] = in.port => Answer = m[2]
<1>1. \A a, b \in in.moved : a[1] = b[1] => a = b BY DEF SelfInputs
<1>2. ASSUME in.host = "local", NEW m \in in.moved, m[1] = in.port PROVE Answer = m[2]
    <2> DEFINE k == CHOOSE x \in in.moved : x[1] = in.port
    <2>1. k \in in.moved /\ k[1] = in.port BY <1>2
    <2>2. Answer = k[2] BY <1>2 DEF RewriteSelfEndpoint
    <2> HIDE DEF k
    <2>3. k = m BY <1>1, <1>2, <2>1
    <2> QED BY <2>2, <2>3
<1>3. in.host = "remote" => Answer = in.port BY DEF RewriteSelfEndpoint
<1> QED BY <1>2, <1>3

(* For any port numbers, worker counts and listeners, loading is a fixed   *)
(* point: defaults applied again change nothing, only what has no default  *)
(* is missed, what passes is runnable, and neither an alias nor a moved    *)
(* listener takes a value the user set, but for the arguments of a command *)
(* (property ConfigSettled; ApplyDefaults, Validate, RewriteSelfEndpoint). *)
THEOREM ConfigAlwaysSettled == RulesSpec => []ConfigSettled
<1>1. RulesTold => ConfigSettled
    <2> SUFFICES ASSUME RulesTold PROVE ConfigSettled OBVIOUS
    <2> USE DEF RulesTold, ConfigTold, Told, Loaded
    <2>s. ASSUME Answered("service")
          PROVE  /\ ServiceDefaults(Answer.cfg) = Answer.cfg
                 /\ \A f \in Answer.problems : IF f = "workers" THEN in.workers > 2048 ELSE in[f] = "bad"
                 /\ Answer.problems = {} => ServiceRuns(Answer.cfg)
        <3> DEFINE c == ServiceDefaults(in)
        <3>1. in \in ServiceInputs /\ Answer.cfg = c /\ Answer.problems = ServiceProblems(c)
            BY <2>s DEF Answered, Answer
        <3> HIDE DEF c
        <3> QED BY <3>1, ServiceSound DEF c
    <2>h. ASSUME Answered("health")
          PROVE  /\ HealthDefaults(Answer.cfg) = Answer.cfg
                 /\ \A f \in Answer.problems : in[f] \in {"bad", "blank"}
                 /\ Answer.problems = {} /\ Answer.cfg.enabled =>
                        Answer.cfg.addr \in {"default", "other"} /\ Answer.cfg.ttl = "ok"
        <3> DEFINE c == HealthDefaults(in)
        <3>1. in \in HealthInputs /\ Answer.cfg = c /\ Answer.problems = HealthProblems(c)
            BY <2>h DEF Answered, Answer
        <3> HIDE DEF c
        <3> QED BY <3>1, HealthSound DEF c
    <2>x. ASSUME Answered("section")
          PROVE  /\ in.value = "unset" =>
                        (Answer.problems # {} <=> in.field.kind = "required" /\ Checked(in))
                 /\ Answer.problems = {} /\ in.enabled =>
                        Answer.cfg.value = "ok"
                        \/ (Answer.cfg.value = "unset" /\ in.field.kind = "list")
        <3> DEFINE c == FieldDefault(in)
               problems == IF FieldProblem(c) THEN {"value"} ELSE {}
        <3>0. in \in SectionInputs /\ out = <<[cfg |-> c, problems |-> problems]>>
            BY <2>x, Zenon DEF Answered
        <3> HIDE DEF c, problems
        <3>1. in \in SectionInputs /\ Answer.cfg = c /\ Answer.problems = problems BY <3>0 DEF Answer
        <3>2. /\ in.value = "unset" => (FieldProblem(c) <=> in.field.kind = "required" /\ Checked(in))
              /\ ~FieldProblem(c) /\ in.enabled =>
                     c.value = "ok" \/ (c.value = "unset" /\ in.field.kind = "list")
            BY <3>1, SectionSound DEF c
        <3> QED BY <3>1, <3>2 DEF problems
    <2>f. ASSUME Answered("federation")
          PROVE  /\ FederationDefaults(Answer.cfg) = Answer.cfg
                 /\ \A f \in Answer.problems :
                        \/ f = "max" /\ Answer.cfg.base > MaxPortNumber - 3
                        \/ f = "downstream"
                        \/ f \in {"poll", "report", "heartbeat"} /\ (in[f] = "bad" \/ in.poll = "bad")
                 /\ Answer.problems = {} /\ Answer.cfg.enabled =>
                        1 <= Answer.cfg.base /\ Answer.cfg.base <= Answer.cfg.max
                        /\ Answer.cfg.max <= MaxPortNumber
        <3> DEFINE c == FederationDefaults(in)
        <3>1. in \in FederationInputs /\ Answer.cfg = c /\ Answer.problems = FederationProblems(c)
            BY <2>f DEF Answered, Answer
        <3> HIDE DEF c
        <3> QED BY <3>1, FederationSound DEF c
    <2>t. ASSUME Answered("target")
          PROVE  /\ TargetDefaults(Answer.cfg) = Answer.cfg
                 /\ \A f \in Answer.problems : TargetReported(f)
                 /\ Answer.problems = {} => TargetRuns(Answer.cfg)
                 /\ TargetKept(Answer.cfg)
        <3> DEFINE c == TargetDefaults(in)
        <3>1. in \in TargetInputs /\ Answer.cfg = c /\ Answer.problems = TargetProblems(c)
            BY <2>t DEF Answered, Answer
        <3> HIDE DEF c
        <3> QED BY <3>1, TargetSound DEF c
    <2>c. ASSUME Answered("credentials")
          PROVE  /\ CredentialDefaults(Answer.cfg) = Answer.cfg
                 /\ \A f \in Answer.problems : CredentialReported(f)
                 /\ Answer.problems = {} => CredentialRuns(Answer.cfg)
                 /\ CredentialKept(Answer.cfg)
        <3> DEFINE c == CredentialDefaults(in)
        <3>1. in \in CredentialInputs /\ Answer.cfg = c /\ Answer.problems = CredentialProblems(c)
            BY <2>c DEF Answered, Answer
        <3> HIDE DEF c
        <3> QED BY <3>1, CredentialSound DEF c
    <2>r. ASSUME Answered("self") PROVE SelfReferenceFollows
        <3>1. in \in SelfInputs /\ Answer = RewriteSelfEndpoint(in.host, in.port, in.moved)
            BY <2>r DEF Answered, Answer
        <3> QED BY <3>1, SelfSound DEF SelfReferenceFollows
    <2> HIDE DEF RulesTold
    <2>1. DefaultsIdempotent BY <2>s, <2>h, <2>f, <2>t, <2>c DEF DefaultsIdempotent
    <2>2. OnlyRequiredReported
        BY <2>s, <2>h, <2>x, <2>f, <2>t, <2>c, Zenon DEF OnlyRequiredReported, TargetReported, CredentialReported
    <2>3. LoadedIsRunnable
        <3> SUFFICES ASSUME topic \in ConfigTopics, Answered(topic), Answer.problems = {}
                     PROVE  LoadedIsRunnable
            BY DEF LoadedIsRunnable
        <3> DEFINE H == Answer.cfg.enabled =>
                            Answer.cfg.addr \in {"default", "other"} /\ Answer.cfg.ttl = "ok"
                   S == in.enabled =>
                            Answer.cfg.value = "ok"
                            \/ (Answer.cfg.value = "unset" /\ in.field.kind = "list")
                   F == Answer.cfg.enabled =>
                            1 <= Answer.cfg.base /\ Answer.cfg.base <= Answer.cfg.max
                            /\ Answer.cfg.max <= MaxPortNumber
                   V == ServiceRuns(Answer.cfg)
                   C == CredentialRuns(Answer.cfg)
                   T == TargetRuns(Answer.cfg)
        <3>0. (CASE topic = "service" -> V [] topic = "health" -> H [] topic = "section" -> S
                 [] topic = "federation" -> F [] topic = "credentials" -> C [] OTHER -> T)
              => LoadedIsRunnable
            BY Zenon DEF LoadedIsRunnable, ServiceRuns, CredentialRuns, TargetRuns
        <3>1. topic = "service" => V BY <2>s
        <3>2. topic = "health" => H BY <2>h
        <3>3. topic = "section" => S BY <2>x
        <3>4. topic = "federation" => F BY <2>f
        <3>5. topic = "target" => T BY <2>t
        <3>6. topic = "credentials" => C BY <2>c
        <3> HIDE DEF H, S, F, V, C, T
        <3> QED BY <3>0, <3>1, <3>2, <3>3, <3>4, <3>5, <3>6 DEF ConfigTopics
    <2>4. CanonicalWins BY <2>t, <2>c, Zenon DEF CanonicalWins, TargetKept, CredentialKept
    <2>5. SelfReferenceFollows BY <2>r DEF SelfReferenceFollows
    <2> QED BY <2>1, <2>2, <2>3, <2>4, <2>5 DEF ConfigSettled
<1> QED BY <1>1, RulesAreTold, PTL

-----------------------------------------------------------------------------
(* The health server.                                                      *)

(* A listener takes the first port that is not held.                       *)
LEMMA ClaimSound ==
    ASSUME in \in ClaimInputs, Answer = ClaimListener(in.port, in.held, in.unusable)
    PROVE  ClaimsNearest
<1> SUFFICES ASSUME in.port # Ephemeral PROVE ClaimsNearest BY DEF ClaimsNearest
<1> DEFINE port == in.port
           stops == {p \in port .. port + Retries : p \notin in.held}
           all == stops \cup {port + Retries + 1}
           b == Listen(port, in.held, in.unusable)
<1>1. port \in Nat /\ Retries \in Nat BY ViewsAssumption DEF ClaimInputs
<1>2. Answer.bound = b /\ Answer.component = (IF b = NoPort THEN "unhealthy" ELSE "healthy")
    BY DEF ClaimListener
<1>3. b = IF stops = {} \/ Min(all) \in in.unusable THEN NoPort ELSE Min(stops)
    BY DEF Listen
<1>4. stops \subseteq Nat /\ all \subseteq Nat /\ all # {} BY <1>1
<1>5. /\ \A x \in stops : x \in port .. port + Retries /\ x \notin in.held /\ x \in all
      /\ \A x \in all : x \in stops \/ x = port + Retries + 1
      /\ \A x \in port .. port + Retries : x \notin in.held => x \in stops
    OBVIOUS
<1> HIDE DEF stops, all, b, port
<1>6. ASSUME stops # {}
      PROVE  /\ Min(stops) \in stops /\ (\A y \in stops : Min(stops) <= y) /\ Min(all) = Min(stops)
    <2>1. Min(stops) \in stops /\ \A y \in stops : Min(stops) <= y BY <1>4, <1>6, MinIsLeast
    <2>2. Min(all) \in all /\ \A y \in all : Min(all) <= y BY <1>4, MinIsLeast
    <2>3. Min(stops) \in all BY <1>5, <2>1
    <2>4. Min(stops) \in port .. port + Retries BY <1>5, <2>1
    <2>5. Min(all) <= Min(stops) BY <2>2, <2>3
    <2>6. Min(all) # port + Retries + 1 BY <1>1, <2>4, <2>5
    <2>7. Min(all) \in stops BY <1>5, <2>2, <2>6
    <2>8. Min(stops) <= Min(all) BY <2>1, <2>7
    <2>9. Min(all) \in Nat /\ Min(stops) \in Nat BY <1>4, <2>2, <2>1
    <2> QED BY <2>1, <2>5, <2>8, <2>9
<1>7. ASSUME b # NoPort
      PROVE  /\ b \in port .. port + Retries /\ b \notin in.held \cup in.unusable
             /\ \A p \in port .. b - 1 : p \in in.held
    <2>1. stops # {} /\ b = Min(stops) /\ b \notin in.unusable BY <1>3, <1>6, <1>7
    <2>2. b \in stops /\ \A y \in stops : b <= y BY <1>6, <2>1
    <2>3. b \in port .. port + Retries /\ b \notin in.held BY <1>5, <2>2
    <2>4. ASSUME NEW p \in port .. b - 1 PROVE p \in in.held
        <3>1. p \in port .. port + Retries /\ ~(b <= p) BY <1>1, <2>3
        <3> QED BY <1>5, <2>2, <3>1
    <2> QED BY <2>1, <2>3, <2>4
<1>8. ASSUME b = NoPort, NEW p \in port .. port + Retries, p \notin in.held
      PROVE  \E q \in port .. p : q \in in.unusable \ in.held
    <2>1. p \in stops BY <1>5, <1>8
    <2>2. Min(stops) \in stops /\ Min(stops) <= p BY <1>6, <2>1
    <2>3. Min(stops) \in port .. port + Retries /\ Min(stops) \notin in.held BY <1>5, <2>2
    <2>4. Min(stops) # NoPort BY <1>1, <2>3 DEF NoPort
    <2>5. Min(stops) \in in.unusable BY <1>3, <1>6, <1>8, <2>1, <2>4
    <2>6. Min(stops) \in port .. p BY <1>1, <2>2, <2>3
    <2> QED BY <2>3, <2>5, <2>6
<1> QED BY <1>2, <1>7, <1>8 DEF ClaimsNearest, port

(* A refused request, and a reader, change nothing.                        *)
LEMMA RequestSound ==
    ASSUME in \in RequestInputs, Answer = [status |-> Handler(in), changes |-> Changes(in)]
    PROVE  RefusedChangesNothing
<1>1. Answer.status = Handler(in) /\ Answer.changes = Changes(in) OBVIOUS
<1>2. in.method \in {"GET", "POST", "DELETE", "PUT"} /\ in.allowed \in BOOLEAN BY DEF RequestInputs
<1>3. in.path = "report" => Handler(in) = ReportRoute(in)
    BY DEF Handler, HealthPaths, IsotopePaths
<1>4. in.path \in {"register", "name"} => Handler(in) = IsotopeRoute(in)
    BY DEF Handler, HealthPaths, IsotopePaths
<1>5. in.path = "certify" => Handler(in) = FeatureRoute(in)
    BY DEF Handler, HealthPaths, IsotopePaths
<1>6. in.path = "elsewhere" => Handler(in) = 404
    BY DEF Handler, HealthPaths, IsotopePaths, HealthRoute
<1>7. /\ Changes(in) # "nothing" =>
             \/ in.path = "report" /\ Handler(in) = 200
             \/ in.path = "register" /\ Handler(in) = 200
             \/ in.path = "name" /\ Handler(in) = 204
             \/ in.path = "certify" /\ Handler(in) = 200
      /\ Changes(in) = "features" => in.path = "certify" /\ Handler(in) = 200
    BY DEF Changes
<1>8. in.path = "report" /\ Handler(in) = 200 => in.method = "POST" BY <1>3 DEF ReportRoute
<1>9. in.path = "register" /\ Handler(in) = 200 => in.method = "POST" BY <1>4 DEF IsotopeRoute
<1>10. in.path = "name" /\ Handler(in) = 204 => in.method = "DELETE" BY <1>4 DEF IsotopeRoute
<1>11. in.path = "certify" /\ Handler(in) = 200 => in.method = "POST" /\ in.allowed BY <1>5 DEF FeatureRoute
<1> QED BY <1>1, <1>6, <1>7, <1>8, <1>9, <1>10, <1>11 DEF RefusedChangesNothing

(* Two disjoint finite parts count for their sum.                          *)
LEMMA SumOfParts ==
    ASSUME NEW S, NEW T, IsFiniteSet(S), IsFiniteSet(T), S \cap T = {}
    PROVE  IsFiniteSet(S \cup T) /\ Cardinality(S \cup T) = Cardinality(S) + Cardinality(T)
<1>1. Cardinality(S \cap T) = 0 BY FS_EmptySet
<1>2. Cardinality(S) \in Nat /\ Cardinality(T) \in Nat BY FS_CardinalityType
<1>3. /\ IsFiniteSet(S \cup T)
      /\ Cardinality(S \cup T) = Cardinality(S) + Cardinality(T) - Cardinality(S \cap T)
    BY FS_Union
<1> DEFINE s == Cardinality(S)  t == Cardinality(T)  u == Cardinality(S \cup T)  i == Cardinality(S \cap T)
<1>4. s \in Nat /\ t \in Nat /\ i = 0 /\ u = s + t - i BY <1>1, <1>2, <1>3
<1> HIDE DEF s, t, u, i
<1>5. u = s + t BY <1>4
<1> QED BY <1>3, <1>5 DEF s, t, u

(* Every target falls into one of the six buckets.                         *)
LEMMA SummarySound ==
    ASSUME in \in SummaryInputs, Answer = SummarizeTargets(in)
    PROVE  SummaryComplete
<1> DEFINE P(b) == {t \in Summarised : Bucket(Normalised(in[t])) = b}
           h == P("healthy")  d == P("degraded")  u == P("unhealthy")
           o == P("outage")  r == P("regression")  k == P("unknown")
<1>1. DOMAIN in = Summarised BY DEF SummaryInputs
<1>2. /\ Answer["healthy"] = Cardinality(h) /\ Answer["degraded"] = Cardinality(d)
      /\ Answer["unhealthy"] = Cardinality(u) /\ Answer["outage"] = Cardinality(o)
      /\ Answer["regression"] = Cardinality(r) /\ Answer["unknown"] = Cardinality(k)
    BY <1>1 DEF SummarizeTargets, Buckets
<1>3. \A s : Bucket(s) \in {"healthy", "degraded", "unhealthy", "outage", "regression", "unknown"}
    BY DEF Bucket
<1>4. Summarised = ((((h \cup d) \cup u) \cup o) \cup r) \cup k BY <1>3
<1>5. /\ h \cap d = {} /\ (h \cup d) \cap u = {} /\ ((h \cup d) \cup u) \cap o = {}
      /\ (((h \cup d) \cup u) \cup o) \cap r = {} /\ ((((h \cup d) \cup u) \cup o) \cup r) \cap k = {}
    OBVIOUS
<1>6. IsFiniteSet(Summarised) BY ViewsAssumption
<1>7. \A b : IsFiniteSet(P(b)) BY <1>6, FS_Subset
<1>8. /\ IsFiniteSet(h) /\ IsFiniteSet(d) /\ IsFiniteSet(u) /\ IsFiniteSet(o) /\ IsFiniteSet(r)
      /\ IsFiniteSet(k)
    BY <1>7
<1> HIDE DEF h, d, u, o, r, k, P
<1> DEFINE a == h \cup d
           b == a \cup u
           c == b \cup o
           e == c \cup r
<1>9. IsFiniteSet(a) /\ Cardinality(a) = Cardinality(h) + Cardinality(d) BY <1>5, <1>8, SumOfParts
<1>10. a \cap u = {} /\ b \cap o = {} /\ c \cap r = {} /\ e \cap k = {} /\ Summarised = e \cup k BY <1>4, <1>5
<1> HIDE DEF a
<1>11. IsFiniteSet(b) /\ Cardinality(b) = Cardinality(a) + Cardinality(u) BY <1>8, <1>9, <1>10, SumOfParts
<1> HIDE DEF b
<1>12. IsFiniteSet(c) /\ Cardinality(c) = Cardinality(b) + Cardinality(o) BY <1>8, <1>10, <1>11, SumOfParts
<1> HIDE DEF c
<1>13. IsFiniteSet(e) /\ Cardinality(e) = Cardinality(c) + Cardinality(r) BY <1>8, <1>10, <1>12, SumOfParts
<1> HIDE DEF e
<1>14. Cardinality(Summarised) = Cardinality(e) + Cardinality(k) BY <1>8, <1>10, <1>13, SumOfParts
<1>15. /\ Cardinality(h) \in Nat /\ Cardinality(d) \in Nat /\ Cardinality(u) \in Nat
       /\ Cardinality(o) \in Nat /\ Cardinality(r) \in Nat /\ Cardinality(k) \in Nat
    BY <1>8, FS_CardinalityType
<1> QED BY <1>2, <1>9, <1>11, <1>12, <1>13, <1>14, <1>15 DEF SummaryComplete

(* However many ports are scanned and held and however many targets are    *)
(* counted: a listener claims the nearest port, a refused request changes  *)
(* nothing, a report never echoes, the summary is complete and the         *)
(* document names every bound surface (property ViewsTrue; ClaimListener,  *)
(* the handlers of the health server, MergeReport and SummarizeTargets).   *)
THEOREM ViewsAlwaysTrue == RulesSpec => []ViewsTrue
<1>1. RulesTold => ViewsTrue
    <2> SUFFICES ASSUME RulesTold PROVE ViewsTrue OBVIOUS
    <2> USE DEF RulesTold, ViewsTold, Told
    <2>1. ClaimsNearest
        <3>1. ASSUME Answered("claim")
              PROVE  in \in ClaimInputs /\ Answer = ClaimListener(in.port, in.held, in.unusable)
            BY <3>1 DEF Answered, Answer
        <3> QED BY <3>1, ClaimSound DEF ClaimsNearest
    <2>2. RefusedChangesNothing
        <3>1. ASSUME Answered("request")
              PROVE  in \in RequestInputs /\ Answer = [status |-> Handler(in), changes |-> Changes(in)]
            BY <3>1 DEF Answered, Answer
        <3> QED BY <3>1, RequestSound DEF RefusedChangesNothing
    <2>3. ReportNoEcho
        <3>1. ASSUME Answered("report")
              PROVE  in \in ReportInputs /\ Answer = MergeReport(in.own, in.incoming)
            BY <3>1 DEF Answered, Answer
        <3> QED BY <3>1 DEF ReportNoEcho, MergeReport, ReportInputs, ComponentNames, IsFederationNamespaced
    <2>4. SummaryComplete
        <3>1. ASSUME Answered("summary")
              PROVE  in \in SummaryInputs /\ Answer = SummarizeTargets(in)
            BY <3>1 DEF Answered, Answer
        <3> QED BY <3>1, SummarySound DEF SummaryComplete
    <2>5. DescribesBound
        <3>1. ASSUME Answered("describe")
              PROVE  in \in DescribeInputs /\ Answer = ListenAddrs(in.enabled, in.bound, in.configured)
            BY <3>1 DEF Answered, Answer
        <3> QED BY <3>1 DEF DescribesBound, ListenAddrs, ListenerAddrOr
    <2> QED BY <2>1, <2>2, <2>3, <2>4, <2>5 DEF ViewsTrue
<1> QED BY <1>1, RulesAreTold, PTL

-----------------------------------------------------------------------------
(* Credentials.                                                            *)

(* An unset text is none of these either.                                  *)
LEMMA BlankIsNoSecret ==
    /\ Blank \notin {"unsupported", "invalid", "not-found", "broken"}
    /\ Blank \notin {"Bearer", "bearer"}
    /\ Blank \notin {"https", "local-http", "remote-http", "none", "bearer", "apikey", "bad", "oauth"}
    /\ Blank \notin {"allow", "fail", "other"}
BY Zenon DEF Blank

(* The parts of a text, and of what a resolver returns.                    *)
LEMMA TextIs ==
    /\ \A pad, words : Words(pad, words).pad = pad /\ Words(pad, words).words = words
    /\ \A text : TrimSpace(text).words = text.words /\ TrimSpace(text).pad = FALSE
    /\ \A text : Found(text).secret = text /\ Found(text).err = Blank
    /\ \A err : Failed(err).err = err
    /\ IsEmpty(Words(FALSE, <<>>))
BY DEF Words, TrimSpace, Found, Failed, IsEmpty

(* What a store holds: nothing, a token, a prefix, or both.                *)
LEMMA HeldIs ==
    ASSUME NEW stored \in Stored, NEW scheme \in {"env", "file", "keychain"}, NEW w,
           w = Held(scheme, stored).words
    PROVE  /\ stored.pad \in BOOLEAN /\ stored.token \in BOOLEAN
           /\ stored.state \in {"there", "missing", "unreadable"}
           /\ stored.prefix \in {Blank, "Bearer", "bearer"}
           /\ Held(scheme, stored).pad = stored.pad
           /\ \/ stored.token /\ stored.prefix = Blank /\ w = <<scheme>>
              \/ stored.token /\ stored.prefix # Blank /\ w = <<stored.prefix, scheme>>
              \/ ~stored.token /\ stored.prefix = Blank /\ w = <<>>
              \/ ~stored.token /\ stored.prefix # Blank /\ w = <<stored.prefix>>
<1>1. /\ stored.pad \in BOOLEAN /\ stored.token \in BOOLEAN
      /\ stored.state \in {"there", "missing", "unreadable"}
      /\ stored.prefix \in {Blank, "Bearer", "bearer"}
    BY DEF Stored
<1> DEFINE v == IF stored.token
                THEN IF stored.prefix = Blank THEN <<scheme>> ELSE <<stored.prefix, scheme>>
                ELSE IF stored.prefix = Blank THEN <<>> ELSE <<stored.prefix>>
<1>2. Held(scheme, stored) = Words(stored.pad, v) BY DEF Held
<1> HIDE DEF v
<1>3. w = v /\ Held(scheme, stored).pad = stored.pad BY <1>2, TextIs
<1> QED BY <1>1, <1>3 DEF v

(* A provider that finds a secret is the one of the scheme, and what it    *)
(* finds are the words its store holds.                                    *)
LEMMA ResolverFinds ==
    ASSUME NEW ref \in Refs, NEW stored \in Stored, NEW keyring \in BOOLEAN,
           NEW p \in {"env", "file", "keychain"}, NEW r, r = ResolveBy(p, ref, stored, keyring),
           r.err = Blank
    PROVE  /\ ref.scheme = p /\ ref.formed /\ stored.state # "missing"
           /\ r.secret.words = Held(p, stored).words
           /\ p = "env" => r.secret.pad = stored.pad /\ (stored.pad \/ r.secret.words # <<>>)
           /\ p = "file" => stored.state # "unreadable" /\ r.secret.pad = FALSE
           /\ p = "keychain" => /\ stored.state = "there" /\ r.secret.pad = FALSE
                                /\ r.secret.words # <<>>
<1> USE BlankIsNoSecret
<1>0. ref.formed \in BOOLEAN BY DEF Refs
<1> DEFINE text == Held(p, stored)
<1>t. text.pad = stored.pad /\ stored.pad \in BOOLEAN BY HeldIs
<1>f. /\ Unsupported.err # Blank /\ Invalid.err # Blank /\ NotFound.err # Blank /\ Broken.err # Blank
    BY TextIs DEF Unsupported, Invalid, NotFound, Broken
<1>1. CASE p = "env"
    <2>1. r = EnvResolve(ref, stored) BY <1>1 DEF ResolveBy
    <2>2. ref.scheme = "env" /\ ref.formed BY <1>0, <1>f, <2>1 DEF EnvResolve
    <2>3. r = IF stored.state = "missing" \/ IsEmpty(text) THEN NotFound ELSE Found(text)
        BY <1>1, <2>1, <2>2 DEF EnvResolve
    <2> HIDE DEF text
    <2>4. stored.state # "missing" /\ ~IsEmpty(text) /\ r = Found(text) BY <1>f, <2>3
    <2>5. r.secret = text BY <2>4, TextIs
    <2>6. text.pad \/ text.words # <<>> BY <2>4 DEF IsEmpty
    <2> QED BY <1>1, <1>t, <2>2, <2>4, <2>5, <2>6 DEF text
<1>2. CASE p = "file"
    <2>1. r = FileResolve(ref, stored) BY <1>2 DEF ResolveBy
    <2>2. ref.scheme = "file" /\ ref.formed BY <1>0, <1>f, <2>1 DEF FileResolve
    <2>3. stored.state \notin {"missing", "unreadable"} BY <1>f, <2>1, <2>2 DEF FileResolve
    <2>4. r = Found(TrimSpace(text)) BY <1>2, <2>1, <2>2, <2>3 DEF FileResolve
    <2> HIDE DEF text
    <2>5. r.secret = TrimSpace(text) BY <2>4, TextIs
    <2>6. r.secret.words = text.words /\ r.secret.pad = FALSE BY <2>5, TextIs
    <2> QED BY <1>2, <2>2, <2>3, <2>6 DEF text
<1>3. CASE p = "keychain"
    <2>1. r = KeyringResolve(ref, stored, keyring) BY <1>3 DEF ResolveBy
    <2>2. ref.scheme = "keychain" /\ ref.formed /\ keyring BY <1>0, <1>f, <2>1 DEF KeyringResolve
    <2>3. r = IF stored.state = "there" /\ ~IsEmpty(TrimSpace(text)) THEN Found(TrimSpace(text))
              ELSE NotFound
        BY <1>3, <2>1, <2>2 DEF KeyringResolve
    <2> HIDE DEF text
    <2>4. stored.state = "there" /\ ~IsEmpty(TrimSpace(text)) /\ r = Found(TrimSpace(text)) BY <1>f, <2>3
    <2>5. r.secret = TrimSpace(text) BY <2>4, TextIs
    <2>6. r.secret.words = text.words /\ r.secret.pad = FALSE BY <2>5, TextIs
    <2>7. r.secret.words # <<>> BY <2>4, <2>5, <2>6 DEF IsEmpty
    <2> QED BY <1>3, <2>2, <2>4, <2>6, <2>7 DEF text
<1> QED BY <1>1, <1>2, <1>3

(* r is the secret that the store of the reference's scheme holds.         *)
SecretOf(ref, stored, r) ==
    /\ ref.scheme \in {"env", "file", "keychain"} /\ ref.formed /\ stored.state # "missing"
    /\ r.secret.words = Held(ref.scheme, stored).words
    /\ ref.scheme = "env" => r.secret.pad = stored.pad /\ (stored.pad \/ r.secret.words # <<>>)
    /\ ref.scheme = "file" => stored.state # "unreadable" /\ r.secret.pad = FALSE
    /\ ref.scheme = "keychain" => /\ stored.state = "there" /\ r.secret.pad = FALSE
                                  /\ r.secret.words # <<>>

(* A secret the chain finds was found by the provider of its scheme.       *)
LEMMA ChainFinds ==
    ASSUME NEW ref \in Refs, NEW stored \in Stored, NEW keyring \in BOOLEAN,
           NEW r, r = ChainResolve(ref, stored, keyring), r.err = Blank
    PROVE  SecretOf(ref, stored, r)
<1> DEFINE n == Len(Providers)
           tried == [i \in 1 .. n |-> ResolveBy(Providers[i], ref, stored, keyring)]
           ends == {i \in 1 .. n : tried[i].err \in {Blank, "broken"}}
           first == CHOOSE i \in ends : \A j \in ends : i <= j
<1>1. n = 3 /\ \A i \in 1 .. n : Providers[i] \in {"env", "file", "keychain"} BY DEF Providers
<1>2. ends # {} /\ r = tried[first]
    <2>1. r = IF ends = {} THEN NotFound ELSE tried[first] BY DEF ChainResolve
    <2>2. NotFound.err # Blank BY BlankIsNoSecret, TextIs DEF NotFound
    <2> HIDE DEF ends, first, tried
    <2> QED BY <2>1, <2>2
<1>3. first \in ends
    <2>1. ends \subseteq Nat BY <1>1
    <2> HIDE DEF ends
    <2> QED BY <1>2, <2>1, Least
<1> HIDE DEF first, n
<1>4. first \in 1 .. n BY <1>3
<1> DEFINE p == Providers[first]
<1>5. p \in {"env", "file", "keychain"} /\ r = ResolveBy(p, ref, stored, keyring) BY <1>1, <1>2, <1>4
<1> HIDE DEF p
<1>6. /\ ref.scheme = p /\ ref.formed /\ stored.state # "missing"
      /\ r.secret.words = Held(p, stored).words
      /\ p = "env" => r.secret.pad = stored.pad /\ (stored.pad \/ r.secret.words # <<>>)
      /\ p = "file" => stored.state # "unreadable" /\ r.secret.pad = FALSE
      /\ p = "keychain" => /\ stored.state = "there" /\ r.secret.pad = FALSE
                           /\ r.secret.words # <<>>
    BY <1>5, ResolverFinds
<1> QED BY <1>5, <1>6 DEF SecretOf

(* A bearer header: one prefix, then the secret.                           *)
LEMMA BearerIs ==
    ASSUME NEW stored \in Stored, NEW scheme \in {"env", "file", "keychain"},
           NEW text, text.words = Held(scheme, stored).words
    PROVE  \E prefix \in {"Bearer", "bearer"} :
               BearerValue(text).words = <<prefix>> \o Meant(scheme, stored)
<1> DEFINE w == Held(scheme, stored).words
           s == Meant(scheme, stored)
<1>1. /\ stored.token \in BOOLEAN /\ stored.prefix \in {Blank, "Bearer", "bearer"}
      /\ \/ stored.token /\ stored.prefix = Blank /\ w = <<scheme>>
         \/ stored.token /\ stored.prefix # Blank /\ w = <<stored.prefix, scheme>>
         \/ ~stored.token /\ stored.prefix = Blank /\ w = <<>>
         \/ ~stored.token /\ stored.prefix # Blank /\ w = <<stored.prefix>>
    BY HeldIs
<1>2. /\ HasBearer(text) => BearerValue(text).words = w
      /\ ~HasBearer(text) => BearerValue(text).words = <<"Bearer">> \o w
    <2>1. HasBearer(text) => BearerValue(text) = text BY DEF BearerValue
    <2>2. ~HasBearer(text) => BearerValue(text) = Words(text.pad, <<"Bearer">> \o text.words)
        BY DEF BearerValue
    <2>3. text.words = w OBVIOUS
    <2> DEFINE v == <<"Bearer">> \o w
    <2> HIDE DEF w
    <2>4. ~HasBearer(text) => BearerValue(text) = Words(text.pad, v) BY <2>2, <2>3
    <2> HIDE DEF v
    <2>5. ~HasBearer(text) => BearerValue(text).words = v BY <2>4, TextIs
    <2> QED BY <2>1, <2>3, <2>5 DEF v
<1>3. HasBearer(text) <=> Len(w) >= 2 /\ w[1] \in {"Bearer", "bearer"} BY DEF HasBearer
<1>4. s = IF stored.token THEN <<scheme>> ELSE IF stored.prefix # Blank THEN <<stored.prefix>> ELSE <<>>
    BY <1>1 DEF Meant
<1> HIDE DEF w, s
<1>5. CASE w = s
    <2>1. ~HasBearer(text)
        <3>1. ~(Len(w) >= 2) BY <1>1, <1>4, <1>5
        <3> QED BY <1>3, <3>1
    <2> QED BY <1>2, <1>5, <2>1 DEF s
<1>6. CASE w # s
    <2>1. stored.prefix \in {"Bearer", "bearer"} /\ w = <<stored.prefix, scheme>> /\ s = <<scheme>>
        BY <1>1, <1>4, <1>6
    <2> DEFINE q == stored.prefix
    <2>2. w = <<q, scheme>> BY <2>1
    <2> HIDE DEF q
    <2>3. w = <<q>> \o <<scheme>> BY <2>2
    <2>4. Len(w) = 2 /\ w[1] = q BY <2>2
    <2>5. q \in {"Bearer", "bearer"} BY <2>1 DEF q
    <2>6. HasBearer(text) BY <1>3, <2>4, <2>5
    <2>7. BearerValue(text).words = <<q>> \o s BY <1>2, <2>1, <2>3, <2>6
    <2> QED BY <2>5, <2>7 DEF s
<1> QED BY <1>5, <1>6

(* What a target's headers carry, and which OAuth targets pass.            *)
LEMMA HeadersSound ==
    ASSUME in \in AuthInputs, Answer = BuildHeaders(in.cfg, in.stored, in.keyring)
    PROVE  HeadersCarryTheSecret /\ OAuthStaysPrivate
<1> DEFINE cfg == in.cfg
           stored == in.stored
           r == ChainResolve(cfg.ref, stored, in.keyring)
           resolved == cfg.hasRef /\ r.err = Blank
           scheme == cfg.ref.scheme
           text == r.secret
<1>1. /\ cfg \in HeaderTypes \cup OAuthTypes /\ stored \in Stored /\ in.keyring \in BOOLEAN
      /\ ~(scheme = "env" /\ stored.state = "unreadable")
    BY DEF AuthInputs
<1>2. cfg.ref \in Refs /\ cfg.hasRef \in BOOLEAN BY <1>1 DEF HeaderTypes, OAuthTypes
<1>3. ASSUME r.err = Blank
      PROVE  /\ scheme \in {"env", "file", "keychain"} /\ cfg.ref.formed
             /\ stored.state = "there"
             /\ text.words = Held(scheme, stored).words
             /\ text.words = <<>> => scheme = "file" \/ (scheme = "env" /\ stored.pad)
             /\ ~IsEmpty(text) => text.words # <<>> \/ (scheme = "env" /\ stored.pad)
    <2>1. /\ scheme \in {"env", "file", "keychain"} /\ cfg.ref.formed /\ stored.state # "missing"
          /\ text.words = Held(scheme, stored).words
          /\ scheme = "env" => text.pad = stored.pad /\ (stored.pad \/ text.words # <<>>)
          /\ scheme = "file" => stored.state # "unreadable" /\ text.pad = FALSE
          /\ scheme = "keychain" => /\ stored.state = "there" /\ text.pad = FALSE
                                    /\ text.words # <<>>
        <3> DEFINE ref == cfg.ref
                   keyring == in.keyring
        <3>1. /\ ref \in Refs /\ stored \in Stored /\ keyring \in BOOLEAN
              /\ r = ChainResolve(ref, stored, keyring) /\ r.err = Blank
            BY <1>1, <1>2, <1>3
        <3> HIDE DEF ref, keyring, stored, r
        <3>2. SecretOf(ref, stored, r) BY <3>1, ChainFinds
        <3> QED BY <3>2 DEF ref, SecretOf
    <2> HIDE DEF cfg, stored, r, scheme, text
    <2>2. stored.state \in {"there", "missing", "unreadable"} BY <1>1 DEF Stored
    <2>3. ~IsEmpty(text) <=> text.pad \/ text.words # <<>> BY DEF IsEmpty
    <2> QED BY <1>1, <2>1, <2>2, <2>3
<1>4. Answer = BuildHeaders(cfg, stored, in.keyring) OBVIOUS
<1> DEFINE oauth == /\ cfg.clientID /\ cfg.callbackID /\ cfg.tokenURL # Blank /\ cfg.redirectURL # Blank
                    /\ resolved \/ ~cfg.hasRef
                    /\ OAuthValidate(cfg, IF cfg.hasRef THEN r.secret ELSE Words(FALSE, <<>>))
<1>5. /\ cfg.type = "bearer" => Answer = IF resolved THEN Material(<<BearerValue(text)>>) ELSE Refused
      /\ cfg.type = "apikey" => Answer = IF resolved /\ cfg.keyName THEN Material(<<text>>) ELSE Refused
      /\ cfg.type = "oauth" => Answer = IF oauth THEN Material(<<>>) ELSE Refused
    <2> HIDE DEF oauth, cfg, stored
    <2>1. CASE cfg.type = "bearer" BY <1>4, <2>1, BlankIsNoSecret DEF BuildHeaders
    <2>2. CASE cfg.type = "apikey" BY <1>4, <2>2, BlankIsNoSecret DEF BuildHeaders
    <2>3. CASE cfg.type = "oauth" BY <1>4, <2>3, BlankIsNoSecret DEF BuildHeaders, oauth
    <2> QED BY <2>1, <2>2, <2>3
<1> DEFINE secret == Meant(scheme, stored)
           w == Held(scheme, stored).words
<1>h. ASSUME scheme \in {"env", "file", "keychain"}
      PROVE  /\ secret = <<>> <=> w = <<>>
             /\ w # <<>> <=> stored.token \/ stored.prefix # Blank
    <2> HIDE DEF scheme, stored
    <2>1. /\ stored.token \in BOOLEAN
          /\ \/ stored.token /\ stored.prefix = Blank /\ w = <<scheme>>
             \/ stored.token /\ stored.prefix # Blank /\ w = <<stored.prefix, scheme>>
             \/ ~stored.token /\ stored.prefix = Blank /\ w = <<>>
             \/ ~stored.token /\ stored.prefix # Blank /\ w = <<stored.prefix>>
        BY <1>1, <1>h, HeldIs
    <2>2. secret = IF stored.token THEN <<scheme>>
                   ELSE IF stored.prefix # Blank THEN <<stored.prefix>> ELSE <<>>
        BY <2>1 DEF Meant
    <2> HIDE DEF secret, w
    <2> QED BY <2>1, <2>2
<1> HIDE DEF cfg, stored, r, scheme, text
<1>6. ASSUME ~Answer.err, cfg.type \in {"bearer", "apikey"}
      PROVE  /\ cfg.hasRef /\ cfg.ref.formed /\ stored.state = "there"
             /\ cfg.type = "bearer" =>
                   \E prefix \in {"Bearer", "bearer"} : Answer.headers[1].words = <<prefix>> \o secret
             /\ cfg.type = "apikey" => Answer.headers[1].words = w
             /\ secret = <<>> => scheme = "file" \/ (scheme = "env" /\ stored.pad)
    <2>1. Refused.err = TRUE BY DEF Refused
    <2>2. /\ resolved
          /\ cfg.type = "bearer" => Answer = Material(<<BearerValue(text)>>)
          /\ cfg.type = "apikey" => Answer = Material(<<text>>)
        BY <1>5, <1>6, <2>1
    <2>3. \A v : Material(<<v>>).headers[1] = v BY DEF Material
    <2>4. /\ scheme \in {"env", "file", "keychain"} /\ cfg.ref.formed /\ stored.state = "there"
          /\ text.words = w
          /\ text.words = <<>> => scheme = "file" \/ (scheme = "env" /\ stored.pad)
        BY <1>3, <2>2
    <2>5. \E prefix \in {"Bearer", "bearer"} : BearerValue(text).words = <<prefix>> \o secret
        BY <1>1, <2>4, BearerIs
    <2>6. secret = <<>> => text.words = <<>> BY <1>h, <2>4
    <2> HIDE DEF secret, w
    <2> QED BY <2>2, <2>3, <2>4, <2>5, <2>6
<1>7. ASSUME ~Answer.err, cfg.type = "oauth"
      PROVE  /\ cfg.tokenURL # "remote-http" /\ cfg.redirectURL # "remote-http"
             /\ cfg.hasRef /\ stored.state = "there"
             /\ stored.token \/ stored.prefix # Blank \/ (scheme = "env" /\ stored.pad)
    <2>1. Refused.err = TRUE BY DEF Refused
    <2>2. oauth BY <1>5, <1>7, <2>1
    <2>3. cfg.tokenURL # "remote-http" /\ cfg.redirectURL # "remote-http" BY <2>2 DEF OAuthValidate
    <2>4. ~IsEmpty(IF cfg.hasRef THEN r.secret ELSE Words(FALSE, <<>>)) BY <2>2 DEF OAuthValidate
    <2>5. IsEmpty(Words(FALSE, <<>>)) BY TextIs
    <2>6. cfg.hasRef /\ ~IsEmpty(text) BY <1>2, <2>4, <2>5 DEF text
    <2>7. r.err = Blank BY <2>2, <2>6
    <2> HIDE DEF w
    <2> QED BY <1>3, <1>h, <2>3, <2>6, <2>7 DEF w
<1> HIDE DEF secret, w
<1> QED BY <1>6, <1>7 DEF HeadersCarryTheSecret, OAuthStaysPrivate, cfg, stored, scheme, secret, w

(* Whatever is stored and wherever, a header that is sent carries the      *)
(* secret of its reference, an OAuth target that passes keeps its secret   *)
(* private, and the mode alone decides what the mock answers (property     *)
(* CredentialsSound; BuildHeaders and HandleCallback).                     *)
THEOREM CredentialsAlwaysSound == RulesSpec => []CredentialsSound
<1>1. RulesTold => CredentialsSound
    <2> SUFFICES ASSUME RulesTold PROVE CredentialsSound OBVIOUS
    <2> USE DEF RulesTold, GuardTold, Told
    <2>1. HeadersCarryTheSecret /\ OAuthStaysPrivate
        <3>1. ASSUME Answered("auth")
              PROVE  in \in AuthInputs /\ Answer = BuildHeaders(in.cfg, in.stored, in.keyring)
            BY <3>1 DEF Answered, Answer
        <3> QED BY <3>1, HeadersSound DEF HeadersCarryTheSecret, OAuthStaysPrivate
    <2>2. MockModeDecides
        <3>1. ASSUME Answered("callback") PROVE in \in CallbackInputs /\ Answer = HandleCallback(in)
            BY <3>1 DEF Answered, Answer
        <3>2. ASSUME Answered("callback")
              PROVE  /\ Answer.code <=> Answer.status = 200
                     /\ Answer.code => in.mode \in {Blank, "allow"}
                     /\ in.mode = "allow" /\ in.method # "PUT" => Answer.code
            BY <3>1, <3>2, BlankIsNoSecret DEF HandleCallback
        <3> QED BY <3>2 DEF MockModeDecides
    <2> QED BY <2>1, <2>2 DEF CredentialsSound
<1> QED BY <1>1, RulesAreTold, PTL

-----------------------------------------------------------------------------
(* Faults.                                                                 *)

(* The entries of the table, one by one.                                   *)
LEMMA ModesAre ==
    /\ FailureTypes = {"timeout", "unauthorized", "corrupted", "malformed", "notfound",
                       "exhaustion", "partial", "mismatch", "stale"}
    /\ GetFailureMode("timeout") = Mode("unpredictable", 8, 2, TRUE)
    /\ GetFailureMode("unauthorized") = Mode("unauthorized", 24, 4, FALSE)
    /\ GetFailureMode("corrupted") = Mode("boundary", 32, 4, FALSE)
    /\ GetFailureMode("malformed") = Mode("boundary", 32, 4, FALSE)
    /\ GetFailureMode("notfound") = Mode("signaling", 40, 5, FALSE)
    /\ GetFailureMode("exhaustion") = Mode("boundary", 16, 3, TRUE)
    /\ GetFailureMode("partial") = Mode("unpredictable", 12, 2, TRUE)
    /\ GetFailureMode("mismatch") = Mode("signaling", 48, 5, FALSE)
    /\ GetFailureMode("stale") = Mode("unpredictable", 2, 1, TRUE)
    /\ GetFailureMode("unknown") = Mode("unpredictable", 4, 1, TRUE)
<1>1. FailureTypes = {"timeout", "unauthorized", "corrupted", "malformed", "notfound",
                      "exhaustion", "partial", "mismatch", "stale"}
    BY DEF FailureTypes, DefaultMCPFailureModes
<1>2. \A t \in FailureTypes : GetFailureMode(t) = DefaultMCPFailureModes[t] BY DEF GetFailureMode
<1>3. GetFailureMode("unknown") = Mode("unpredictable", 4, 1, TRUE) BY <1>1 DEF GetFailureMode
<1> QED BY <1>1, <1>2, <1>3 DEF DefaultMCPFailureModes

(* What is priced: the weight is a function of severity that only grows,   *)
(* and nothing recoverable reaches the price of what is not.               *)
LEMMA PricesAre ==
    ASSUME NEW t \in FailureTypes \cup {"unknown"}, NEW m, m = GetFailureMode(t)
    PROVE  /\ t # "stale" => m.weight # 2
           /\ \/ /\ m.recoverable = TRUE
                 /\ \/ m.severity = 1 /\ m.weight \in {2, 4}
                    \/ m.severity = 2 /\ m.weight \in {8, 12}
                    \/ m.severity = 3 /\ m.weight = 16
              \/ /\ m.recoverable = FALSE
                 /\ \/ m.severity = 4 /\ m.weight \in {24, 32}
                    \/ m.severity = 5 /\ m.weight \in {40, 48}
<1>1. CASE t = "timeout"
    <2>1. m.weight = 8 /\ m.severity = 2 /\ m.recoverable = TRUE BY <1>1, ModesAre DEF Mode
    <2> QED BY <1>1, <2>1
<1>2. CASE t = "unauthorized"
    <2>1. m.weight = 24 /\ m.severity = 4 /\ m.recoverable = FALSE BY <1>2, ModesAre DEF Mode
    <2> QED BY <1>2, <2>1
<1>3. CASE t = "corrupted"
    <2>1. m.weight = 32 /\ m.severity = 4 /\ m.recoverable = FALSE BY <1>3, ModesAre DEF Mode
    <2> QED BY <1>3, <2>1
<1>4. CASE t = "malformed"
    <2>1. m.weight = 32 /\ m.severity = 4 /\ m.recoverable = FALSE BY <1>4, ModesAre DEF Mode
    <2> QED BY <1>4, <2>1
<1>5. CASE t = "notfound"
    <2>1. m.weight = 40 /\ m.severity = 5 /\ m.recoverable = FALSE BY <1>5, ModesAre DEF Mode
    <2> QED BY <1>5, <2>1
<1>6. CASE t = "exhaustion"
    <2>1. m.weight = 16 /\ m.severity = 3 /\ m.recoverable = TRUE BY <1>6, ModesAre DEF Mode
    <2> QED BY <1>6, <2>1
<1>7. CASE t = "partial"
    <2>1. m.weight = 12 /\ m.severity = 2 /\ m.recoverable = TRUE BY <1>7, ModesAre DEF Mode
    <2> QED BY <1>7, <2>1
<1>8. CASE t = "mismatch"
    <2>1. m.weight = 48 /\ m.severity = 5 /\ m.recoverable = FALSE BY <1>8, ModesAre DEF Mode
    <2> QED BY <1>8, <2>1
<1>9. CASE t = "stale"
    <2>1. m.weight = 2 /\ m.severity = 1 /\ m.recoverable = TRUE BY <1>9, ModesAre DEF Mode
    <2> QED BY <1>9, <2>1
<1>10. CASE t = "unknown"
    <2>1. m.weight = 4 /\ m.severity = 1 /\ m.recoverable = TRUE BY <1>10, ModesAre DEF Mode
    <2> QED BY <1>10, <2>1
<1> QED BY <1>1, <1>2, <1>3, <1>4, <1>5, <1>6, <1>7, <1>8, <1>9, <1>10, ModesAre

(* The rules of every profile, by type and retries.                        *)
LEMMA RulesAre ==
    ASSUME NEW r \in UNION Profiles
    PROVE  \/ r.type \in {"timeout", "partial", "exhaustion"} /\ r.retries \in {1, 3}
           \/ /\ r.type \in {"corrupted", "malformed", "notfound", "mismatch", "unauthorized"}
              /\ r.retries = 0
<1>1. DOMAIN Stages = 1 .. 5 BY DEF Stages
<1>2. /\ Stages[1] = {} /\ Stages[2] = TransientFailuresProfile
      /\ Stages[3] = ProtocolViolationProfile /\ Stages[4] = ByzantineProfile
      /\ Stages[5] = ChaoticProfile
    BY DEF Stages
<1>3. \A i \in 1 .. 5 : i \in {1, 2, 3, 4, 5} OBVIOUS
<1>4. PICK p \in Profiles : r \in p OBVIOUS
<1>5. \/ p = StressProfile \/ p = UnauthorizedAccessProfile \/ p = TransientFailuresProfile
      \/ p = ProtocolViolationProfile \/ p = ByzantineProfile \/ p = ChaoticProfile
    <2>1. p \in {StressProfile, UnauthorizedAccessProfile} \/ \E i \in 1 .. 5 : p = Stages[i]
        BY <1>1 DEF Profiles
    <2> QED BY <1>2, <1>3, <1>4, <2>1
<1>6. CASE p = StressProfile BY <1>4, <1>6 DEF StressProfile, Rule
<1>7. CASE p = UnauthorizedAccessProfile BY <1>4, <1>7 DEF UnauthorizedAccessProfile, Rule
<1>8. CASE p = TransientFailuresProfile BY <1>4, <1>8 DEF TransientFailuresProfile, Rule
<1>9. CASE p = ProtocolViolationProfile BY <1>4, <1>9 DEF ProtocolViolationProfile, Rule
<1>10. CASE p = ByzantineProfile BY <1>4, <1>10 DEF ByzantineProfile, Rule
<1>11. CASE p = ChaoticProfile BY <1>4, <1>11 DEF ChaoticProfile, Rule
<1> QED BY <1>5, <1>6, <1>7, <1>8, <1>9, <1>10, <1>11

(* Times of one window begin at the same time.                             *)
LEMMA WindowStart ==
    ASSUME NEW a \in Nat, NEW b \in Nat, a \div 5 = b \div 5
    PROVE  a - (a % 5) = b - (b % 5)
OBVIOUS

(* The seeds of one window, and of the stages of a profile.                *)
LEMMA SeedsSound ==
    ASSUME in \in ProfileInputs, Answer = {FaultRandSeed(in, n) : n \in 1 .. Len(Stages)}
    PROVE  SeedsShared
<1> DEFINE e == IF SeedPin(in) # {} THEN in.raw ELSE in.now - (in.now % SeedWindow)
           other == [in EXCEPT !.now = in.other, !.raw = -1]
<1>1. Len(Stages) = 5 BY DEF Stages
<1>2. \A n : FaultRandSeed(in, n) = [epoch |-> e, name |-> n] BY DEF FaultRandSeed
<1>3. Cardinality(Answer) = 5
    <2> DEFINE f == [n \in 1 .. 5 |-> [epoch |-> e, name |-> n]]
    <2> HIDE DEF e
    <2>1. f \in [1 .. 5 -> Answer] BY <1>1, <1>2
    <2>2. \A x \in Answer : \E n \in 1 .. 5 : f[n] = x BY <1>1, <1>2
    <2>3. \A a, b \in 1 .. 5 : f[a] = f[b] => a = b OBVIOUS
    <2> HIDE DEF f
    <2>4. f \in Surjection(1 .. 5, Answer) BY <2>1, <2>2 DEF Surjection
    <2>5. f \in Injection(1 .. 5, Answer) BY <2>1, <2>3 DEF Injection, IsInjective
    <2>6. IsFiniteSet(1 .. 5) /\ Cardinality(1 .. 5) = 5
        <3> DEFINE a == 1
                   b == 5
        <3>1. a \in Int /\ b \in Int OBVIOUS
        <3> HIDE DEF a, b
        <3>2. IsFiniteSet(a .. b) /\ Cardinality(a .. b) = IF a > b THEN 0 ELSE b - a + 1 BY <3>1, FS_Interval
        <3> QED BY <3>2 DEF a, b
    <2>7. Cardinality(Answer) = Cardinality(1 .. 5) BY <2>4, <2>5, <2>6, FS_Surjection
    <2> QED BY <2>6, <2>7
<1>4. ASSUME ~in.testing, in.now \div SeedWindow = in.other \div SeedWindow
      PROVE  \A n : FaultRandSeed(other, n) = FaultRandSeed(in, n)
    <2>1. in.now \in Nat /\ in.other \in Nat BY VerdictAssumption DEF ProfileInputs
    <2>2. other.now = in.other /\ other.testing = in.testing /\ other.raw = -1 BY DEF ProfileInputs
    <2>3. SeedPin(in) = {} /\ SeedPin(other) = {} BY <1>4, <2>2 DEF SeedPin
    <2> HIDE DEF other
    <2>4. in.now - (in.now % 5) = in.other - (in.other % 5) BY <1>4, <2>1, WindowStart DEF SeedWindow
    <2>5. \A n : FaultRandSeed(other, n) = [epoch |-> other.now - (other.now % SeedWindow), name |-> n]
        BY <2>3 DEF FaultRandSeed
    <2>6. \A n : FaultRandSeed(in, n) = [epoch |-> in.now - (in.now % SeedWindow), name |-> n]
        BY <2>3 DEF FaultRandSeed
    <2> QED BY <2>2, <2>4, <2>5, <2>6 DEF SeedWindow
<1> QED BY <1>1, <1>3, <1>4 DEF SeedsShared

(* For any clock: injected faults agree with how they are retried,         *)
(* severity with its price, and the processes of one window draw alike     *)
(* (property ProfilesAgree; ShouldInject, GetFailureMode and               *)
(* FaultRandSeed).                                                         *)
THEOREM ProfilesAlwaysAgree == RulesSpec => []ProfilesAgree
<1>1. RulesTold => ProfilesAgree
    <2> SUFFICES ASSUME RulesTold PROVE ProfilesAgree OBVIOUS
    <2> USE DEF RulesTold, FaultTold, Told
    <2>1. RetriesMatchRecovery
        <3>1. ASSUME Answered("rule") PROVE in.rule \in UNION Profiles
            BY <3>1 DEF Answered, RuleInputs
        <3> DEFINE r == in.rule
                   m == GetFailureMode(r.type)
        <3>2. ASSUME Answered("rule") PROVE (r.retries > 0) <=> m.recoverable
            <4>1. \/ r.type \in {"timeout", "partial", "exhaustion"} /\ r.retries \in {1, 3}
                  \/ /\ r.type \in {"corrupted", "malformed", "notfound", "mismatch", "unauthorized"}
                     /\ r.retries = 0
                BY <3>1, <3>2, RulesAre
            <4> HIDE DEF r
            <4>2. r.type \in {"timeout", "partial", "exhaustion"} => m.recoverable = TRUE BY ModesAre DEF Mode
            <4>3. r.type \in {"corrupted", "malformed", "notfound", "mismatch", "unauthorized"}
                    => m.recoverable = FALSE
                BY ModesAre DEF Mode
            <4> QED BY <4>1, <4>2, <4>3
        <3> QED BY <3>2 DEF RetriesMatchRecovery
    <2>2. SeverityPriced
        <3>1. ASSUME Answered("failure") PROVE in \in FailureTypes \cup {"unknown"} /\ Answer = GetFailureMode(in)
            BY <3>1 DEF Answered, Answer, FailureInputs
        <3>2. ASSUME Answered("failure"), NEW t \in FailureTypes
              PROVE  LET mode == DefaultMCPFailureModes[t]
                     IN  /\ Answer.severity > mode.severity => Answer.weight > mode.weight
                         /\ Answer.recoverable /\ ~mode.recoverable => Answer.weight < mode.weight
                         /\ in # "stale" => Answer.weight > GetFailureMode("stale").weight
            <4> DEFINE mode == GetFailureMode(t)
            <4>1. DefaultMCPFailureModes[t] = mode BY DEF GetFailureMode
            <4>2. GetFailureMode("stale").weight = 2 BY ModesAre DEF Mode
            <4> HIDE DEF mode
            <4>3. \/ /\ mode.recoverable = TRUE
                     /\ \/ mode.severity = 1 /\ mode.weight \in {2, 4}
                        \/ mode.severity = 2 /\ mode.weight \in {8, 12}
                        \/ mode.severity = 3 /\ mode.weight = 16
                  \/ /\ mode.recoverable = FALSE
                     /\ \/ mode.severity = 4 /\ mode.weight \in {24, 32}
                        \/ mode.severity = 5 /\ mode.weight \in {40, 48}
                BY PricesAre DEF mode
            <4>4. /\ in # "stale" => Answer.weight # 2
                  /\ \/ /\ Answer.recoverable = TRUE
                        /\ \/ Answer.severity = 1 /\ Answer.weight \in {2, 4}
                           \/ Answer.severity = 2 /\ Answer.weight \in {8, 12}
                           \/ Answer.severity = 3 /\ Answer.weight = 16
                     \/ /\ Answer.recoverable = FALSE
                        /\ \/ Answer.severity = 4 /\ Answer.weight \in {24, 32}
                           \/ Answer.severity = 5 /\ Answer.weight \in {40, 48}
                BY <3>1, <3>2, PricesAre
            <4> QED BY <4>1, <4>2, <4>3, <4>4
        <3> QED BY <3>2 DEF SeverityPriced
    <2>3. SeedsShared
        <3>1. ASSUME Answered("profile")
              PROVE  in \in ProfileInputs /\ Answer = {FaultRandSeed(in, n) : n \in 1 .. Len(Stages)}
            BY <3>1 DEF Answered, Answer
        <3> QED BY <3>1, SeedsSound DEF SeedsShared
    <2> QED BY <2>1, <2>2, <2>3 DEF ProfilesAgree
<1> QED BY <1>1, RulesAreTold, PTL

-----------------------------------------------------------------------------
(* Filters.                                                                *)

(* g tells where in s each of the n entries of F comes from: F keeps the   *)
(* order of s, and has every entry of s that is in S.                      *)
Places(g, F, s, S, n) ==
    /\ \A k \in 1 .. Len(F) : g[k] \in 1 .. n /\ k <= g[k] /\ s[g[k]] \in S /\ F[k] = s[g[k]]
    /\ \A j, k \in 1 .. Len(F) : j < k => g[j] < g[k]
    /\ \A i \in 1 .. n : s[i] \in S => \E k \in 1 .. Len(F) : g[k] = i

(* A filtered list has such places.                                        *)
LEMMA FilterPlaces ==
    ASSUME NEW T, NEW s \in Seq(T), NEW S, NEW F, F = Filter(s, S)
    PROVE  F \in Seq(T) /\ \E g : Places(g, F, s, S, Len(s))
<1> DEFINE n == Len(s)
<1>1. n \in Nat /\ \A i \in 1 .. n : s[i] \in T BY LenProperties, ElementOfSeq
<1>2. PICK f \in [0 .. n -> Seq(T)] :
          /\ f[0] = <<>>
          /\ \A i \in 1 .. n : f[i] = IF s[i] \in S THEN Append(f[i - 1], s[i]) ELSE f[i - 1]
          /\ Filter(s, S) = f[n]
    BY FilterLoop
<1> HIDE DEF n
<1> DEFINE G == {m \in 0 .. n : \E g : Places(g, f[m], s, S, m)}
<1>3. 0 \in G
    <2>1. Places(<<>>, f[0], s, S, 0) BY <1>2 DEF Places
    <2> QED BY <1>1, <2>1
<1>4. ASSUME NEW m \in 1 .. n, m - 1 \in G PROVE m \in G
    <2> DEFINE q == f[m - 1]
               l == Len(q)
               o == m - 1
    <2>1. m \in 0 .. n /\ o \in 0 .. n /\ o \in Nat /\ m = o + 1 BY <1>1
    <2>2. q \in Seq(T) /\ l \in Nat /\ s[m] \in T BY <1>1, <2>1, LenProperties
    <2>3. PICK g : Places(g, q, s, S, o) BY <1>4
    <2>4. \A i \in 1 .. o : i \in 1 .. m /\ i < m BY <2>1
    <2>5. \A i \in 1 .. m : i = m \/ i \in 1 .. o BY <2>1
    <2>6. CASE s[m] \notin S
        <3>1. f[m] = q BY <1>2, <2>6
        <3> HIDE DEF q, l, o
        <3>2. Places(g, f[m], s, S, m) BY <2>3, <2>4, <2>5, <2>6, <3>1 DEF Places
        <3> QED BY <2>1, <3>2
    <2>7. CASE s[m] \in S
        <3> DEFINE h == [k \in 1 .. l + 1 |-> IF k = l + 1 THEN m ELSE g[k]]
        <3>1. f[m] = Append(q, s[m]) BY <1>2, <2>7
        <3>2. Len(f[m]) = l + 1 /\ (\A k \in 1 .. l : f[m][k] = q[k]) /\ f[m][l + 1] = s[m]
            <4>1. q \in Seq(T) /\ s[m] \in T BY <2>2
            <4> HIDE DEF q
            <4> QED BY <3>1, <4>1, AppendProperties
        <3>3. /\ \A k \in 1 .. l : g[k] \in 1 .. o /\ k <= g[k] /\ s[g[k]] \in S /\ q[k] = s[g[k]]
              /\ \A j, k \in 1 .. l : j < k => g[j] < g[k]
              /\ \A i \in 1 .. o : s[i] \in S => \E k \in 1 .. l : g[k] = i
            BY <2>3 DEF Places
        <3> HIDE DEF q, l, o
        <3>4. l <= o
            <4>1. CASE l = 0 BY <2>1, <4>1
            <4>2. CASE l > 0
                <5>1. l \in 1 .. l BY <2>2, <4>2
                <5> QED BY <2>1, <2>2, <3>3, <5>1
            <4> QED BY <2>2, <4>1, <4>2
        <3>5. /\ l + 1 \in 1 .. l + 1
              /\ \A k \in 1 .. l : k \in 1 .. l + 1 /\ k # l + 1 /\ k < l + 1
              /\ \A k \in 1 .. l + 1 : k = l + 1 \/ k \in 1 .. l
            BY <2>2
        <3>6. h[l + 1] = m /\ \A k \in 1 .. l : h[k] = g[k] BY <3>5
        <3> HIDE DEF h
        <3>7. l + 1 <= m /\ m \in 1 .. m BY <2>1, <2>2, <3>4
        <3>8. \A k \in 1 .. l + 1 : h[k] \in 1 .. m /\ k <= h[k] /\ s[h[k]] \in S /\ f[m][k] = s[h[k]]
            BY <2>4, <2>7, <3>2, <3>3, <3>5, <3>6, <3>7
        <3>9. \A j, k \in 1 .. l + 1 : j < k => h[j] < h[k]
            <4> SUFFICES ASSUME NEW j \in 1 .. l + 1, NEW k \in 1 .. l + 1, j < k PROVE h[j] < h[k] OBVIOUS
            <4>1. j \in 1 .. l BY <2>2
            <4>2. CASE k = l + 1 BY <2>4, <3>3, <3>6, <4>1, <4>2
            <4>3. CASE k \in 1 .. l BY <3>3, <3>6, <4>1, <4>3
            <4> QED BY <3>5, <4>2, <4>3
        <3>10. \A i \in 1 .. m : s[i] \in S => \E k \in 1 .. l + 1 : h[k] = i
            BY <2>5, <3>3, <3>5, <3>6
        <3>11. Places(h, f[m], s, S, m) BY <3>2, <3>8, <3>9, <3>10 DEF Places
        <3> QED BY <2>1, <3>11
    <2> QED BY <2>6, <2>7
<1>5. n \in G
    <2> HIDE DEF G
    <2>1. \A i \in 0 .. n : i \in G BY <1>1, <1>3, <1>4, UpTo, Zenon
    <2>2. n \in 0 .. n BY <1>1
    <2> QED BY <2>1, <2>2
<1>6. F = f[n] /\ f[n] \in Seq(T) BY <1>1, <1>2
<1> QED BY <1>5, <1>6 DEF n

(* A filtered list has the entries of the list that are in S, and no other.*)
LEMMA FilterEntries ==
    ASSUME NEW T, NEW s \in Seq(T), NEW S, NEW F, F = Filter(s, S)
    PROVE  /\ F \in Seq(T)
           /\ \A k \in 1 .. Len(F) : \E i \in 1 .. Len(s) : s[i] \in S /\ F[k] = s[i]
           /\ \A i \in 1 .. Len(s) : s[i] \in S => \E k \in 1 .. Len(F) : F[k] = s[i]
<1>1. F \in Seq(T) /\ \E g : Places(g, F, s, S, Len(s)) BY FilterPlaces
<1>2. PICK g : Places(g, F, s, S, Len(s)) BY <1>1
<1> DEFINE n == Len(s)
           l == Len(F)
<1>3. /\ \A k \in 1 .. l : g[k] \in 1 .. n /\ s[g[k]] \in S /\ F[k] = s[g[k]]
      /\ \A i \in 1 .. n : s[i] \in S => \E k \in 1 .. l : g[k] = i
    BY <1>2 DEF Places
<1> HIDE DEF n, l
<1>4. \A k \in 1 .. l : \E i \in 1 .. n : s[i] \in S /\ F[k] = s[i] BY <1>3
<1>5. \A i \in 1 .. n : s[i] \in S => \E k \in 1 .. l : F[k] = s[i] BY <1>3
<1> QED BY <1>1, <1>4, <1>5 DEF n, l

-----------------------------------------------------------------------------
(* Targets.                                                                *)

(* No text set is no scheme.                                               *)
LEMMA BlankIsNoScheme == Blank \notin {"http", "ws", "stdio", "ftp", "bad", "http#", "ws#", "stdio#", "space"}
BY Zenon DEF Blank

(* Authentication config.Validate takes, Target.Validate takes.            *)
LEMMA AuthAgrees ==
    ASSUME NEW a \in AuthConfigs, AuthProblems(a) = {}
    PROVE  AuthValid(a)
<1>1. a.type \in {"none", "bearer", "apikey", "oauth", "bad"} BY DEF AuthConfigs
<1>2. CASE a.type = "none" BY <1>2 DEF AuthValid
<1>3. CASE a.type = "bearer" BY <1>3 DEF AuthValid, AuthProblems
<1>4. CASE a.type = "apikey" BY <1>4 DEF AuthValid, AuthProblems
<1>5. CASE a.type = "oauth"
    <2>1. a.clientID /\ ConfigURL(a.tokenURL) BY <1>5 DEF AuthProblems
    <2>2. a.tokenURL # Blank BY <2>1, BlankIsNoScheme DEF ConfigURL, Fragments
    <2> QED BY <1>5, <2>1, <2>2 DEF AuthValid
<1>6. CASE a.type = "bad" BY <1>6 DEF AuthProblems
<1> QED BY <1>1, <1>2, <1>3, <1>4, <1>5, <1>6

(* Of what config.Validate takes Target.Validate refuses four corners.     *)
LEMMA TargetAgrees ==
    ASSUME NEW ts, NEW i, NEW t \in Target, t = ts[i], t.enabled, ConfigProblems(ts, i) = {}
    PROVE  TargetValid(t) <=> ~LateRefusal(t)
<1>1. /\ IDProblems(ts, i) = {} /\ ConnectionProblems(t) = {} /\ AuthProblems(t.auth) = {}
      /\ {t.check, t.hurl} \ {"ok", "none", "fragment"} = {}
    BY DEF ConfigProblems
<1>2. AuthValid(t.auth) BY <1>1, AuthAgrees DEF Target
<1>3. t.check \in {"ok", "none", "fragment"} /\ t.hurl \in {"ok", "none", "fragment"} BY <1>1
<1>4. t.check = "ok" BY <1>3 DEF Target, CheckFaults
<1>5. t.id # Blank BY <1>1 DEF IDProblems
<1>6. EndpointValid(t) <=> ~(t.endpoint \in Fragments \/ (t.transport = "sse" /\ t.endpoint # "http"))
    <2>1. ConfigURL(t.endpoint) \/ (t.transport = "stdio" /\ t.endpoint = Blank) BY <1>1 DEF ConnectionProblems
    <2>2. t.transport = "stdio" => t.command BY <1>1 DEF ConnectionProblems
    <2>3. t.transport \in {"http", "sse", "websocket", "stdio"} BY DEF Target, Transports
    <2>4. \/ t.transport = "stdio" /\ t.endpoint = Blank
          \/ t.endpoint \in {"http", "ws", "stdio"}
          \/ t.endpoint \in {"http#", "ws#", "stdio#"}
        BY <2>1 DEF ConfigURL, Fragments
    <2>5. CASE t.transport = "stdio" /\ t.endpoint = Blank
        BY <2>2, <2>5, BlankIsNoScheme DEF EndpointValid, Fragments
    <2>6. CASE t.endpoint \in {"http", "ws", "stdio"}
        BY <2>2, <2>3, <2>6, BlankIsNoScheme DEF EndpointValid, RequestURI, Fragments
    <2>7. CASE t.endpoint \in {"http#", "ws#", "stdio#"}
        BY <2>3, <2>7, BlankIsNoScheme DEF EndpointValid, RequestURI, Fragments
    <2> QED BY <2>4, <2>5, <2>6, <2>7
<1> QED BY <1>2, <1>3, <1>4, <1>5, <1>6 DEF TargetValid, LateRefusal

(* For any list of targets, of any fields: the engine compiles what        *)
(* config.Validate takes, but for the four corners of LateRefusal and no   *)
(* other, and loses no target (property TargetsCompile; CompileTargets).   *)
THEOREM TargetsAlwaysCompile == RulesSpec => []TargetsCompile
<1>1. RulesTold => TargetsCompile
    <2> SUFFICES ASSUME RulesTold PROVE TargetsCompile OBVIOUS
    <2>3. ASSUME Answered("compile")
          PROVE  in \in Seq(Target) /\ Answer = CompileTargets(in)
        BY <2>3, TargetsAssumption DEF Answered, Answer, RulesTold, CommandTold, Told
    <2> DEFINE enabled == EnabledTargets(in)
               S == {t \in Range(in) : t.enabled}
    <2>4. ASSUME Answered("compile")
          PROVE  /\ enabled \in Seq(Target)
                 /\ \A k \in 1 .. Len(enabled) : \E i \in 1 .. Len(in) : in[i].enabled /\ enabled[k] = in[i]
                 /\ \A i \in 1 .. Len(in) : in[i].enabled => \E k \in 1 .. Len(enabled) : enabled[k] = in[i]
        <3>1. enabled = Filter(in, S) BY DEF EnabledTargets
        <3>2. \A i : in[i] \in S => in[i].enabled OBVIOUS
        <3>3. \A i \in 1 .. Len(in) : in[i].enabled => in[i] \in S
            <4>1. \A i \in 1 .. Len(in) : in[i] \in Range(in)
                <5>1. \A i \in 1 .. Len(in) : i \in DOMAIN in BY <2>3, <2>4, LenProperties
                <5> QED BY <5>1 DEF Range
            <4> QED BY <4>1
        <3> HIDE DEF S, enabled
        <3> DEFINE T == Target
                   s == in
        <3>4. s \in Seq(T) /\ enabled = Filter(s, S) BY <2>3, <2>4, <3>1
        <3> HIDE DEF T, s
        <3>5. enabled \in Seq(T)
            <4>1. Filter(s, S) \in Seq(T) BY <3>4, FilterEntries
            <4> QED BY <3>4, <4>1
        <3>6. \A k \in 1 .. Len(enabled) : \E i \in 1 .. Len(s) : s[i] \in S /\ enabled[k] = s[i]
            <4>1. PICK g : Places(g, enabled, s, S, Len(s)) BY <3>4, FilterPlaces
            <4>2. \A k \in 1 .. Len(enabled) : g[k] \in 1 .. Len(s) /\ s[g[k]] \in S /\ enabled[k] = s[g[k]]
                BY <4>1 DEF Places
            <4> QED BY <4>2
        <3>7. \A i \in 1 .. Len(s) : s[i] \in S => \E k \in 1 .. Len(enabled) : enabled[k] = s[i]
            <4>1. PICK g : Places(g, enabled, s, S, Len(s)) BY <3>4, FilterPlaces
            <4>2. \A i \in 1 .. Len(s) : s[i] \in S => \E k \in 1 .. Len(enabled) : g[k] = i
                BY <4>1 DEF Places
            <4>3. \A k \in 1 .. Len(enabled) : enabled[k] = s[g[k]] BY <4>1 DEF Places
            <4> QED BY <4>2, <4>3
        <3> QED BY <3>2, <3>3, <3>5, <3>6, <3>7 DEF T, s
    <2> HIDE DEF enabled
    <2>5. ASSUME Answered("compile")
          PROVE  Answer = IF \E i \in 1 .. Len(enabled) : ~TargetValid(enabled[i])
                          THEN [err |-> TRUE, compiled |-> <<>>]
                          ELSE [err |-> FALSE, compiled |-> enabled]
        BY <2>3, <2>5 DEF CompileTargets, enabled
    <2>6. LoadedCompiles
        <3> SUFFICES ASSUME Answered("compile"), \A i \in 1 .. Len(in) : ConfigProblems(in, i) = {}
                     PROVE  Answer.err <=> \E i \in 1 .. Len(in) : in[i].enabled /\ LateRefusal(in[i])
            BY DEF LoadedCompiles
        <3>1. \A i \in 1 .. Len(in) : in[i] \in Target BY <2>3, ElementOfSeq
        <3>2. \A i \in 1 .. Len(in) : in[i].enabled => (TargetValid(in[i]) <=> ~LateRefusal(in[i]))
            BY <3>1, TargetAgrees
        <3>3. (\E k \in 1 .. Len(enabled) : ~TargetValid(enabled[k]))
                 <=> \E i \in 1 .. Len(in) : in[i].enabled /\ LateRefusal(in[i])
            BY <2>4, <3>2
        <3>4. Answer.err <=> \E k \in 1 .. Len(enabled) : ~TargetValid(enabled[k]) BY <2>5
        <3> HIDE DEF Answer
        <3> QED BY <3>3, <3>4
    <2>7. NoTargetLost
        <3> SUFFICES ASSUME Answered("compile"), ~Answer.err
                     PROVE  /\ Len(Answer.compiled) = Len(EnabledTargets(in))
                            /\ \A i \in 1 .. Len(Answer.compiled) :
                                  Answer.compiled[i].enabled /\ TargetValid(Answer.compiled[i])
            BY DEF NoTargetLost
        <3>1. Answer.compiled = enabled /\ \A i \in 1 .. Len(enabled) : TargetValid(enabled[i]) BY <2>5
        <3>2. \A i \in 1 .. Len(enabled) : enabled[i].enabled BY <2>4
        <3>3. Answer.compiled = EnabledTargets(in) BY <3>1 DEF enabled
        <3> HIDE DEF Answer
        <3> QED BY <3>1, <3>2, <3>3
    <2> QED BY <2>6, <2>7 DEF TargetsCompile
<1> QED BY <1>1, RulesAreTold, PTL

-----------------------------------------------------------------------------
(* Peer view.                                                              *)

(* The rows of one kind.                                                   *)
PeerRows(kind) == [kind : {kind}, index : Nat, healthy : BOOLEAN]

(* The kind of a row.                                                      *)
LEMMA RowKind == \A kind, i, v : Row(kind, i, v).kind = kind
BY DEF Row

(* The index of a row.                                                     *)
LEMMA RowIndex == \A kind, i, v : Row(kind, i, v).index = i
BY DEF Row

(* The health of a row.                                                    *)
LEMMA RowHealthy == \A kind, i, v : Row(kind, i, v).healthy = v
BY DEF Row

(* A row is one of its kind.                                               *)
LEMMA RowIn == \A kind : \A i \in Nat : \A v \in BOOLEAN : Row(kind, i, v) \in PeerRows(kind)
BY DEF Row, PeerRows

(* U lists rows of the kind, the first c of them the unhealthy ones of h,  *)
(* and then healthy ones.                                                  *)
AlertsFirst(kind, h, U, c) ==
    /\ U \in Seq(PeerRows(kind)) /\ c \in 0 .. Len(U)
    /\ \A k \in 1 .. Len(U) : U[k].index \in 1 .. Len(h) /\ U[k].healthy = h[U[k].index]
    /\ \A k \in 1 .. Len(U) : U[k].healthy => k > c
    /\ \A i \in 1 .. Len(h) : ~h[i] => \E k \in 1 .. c : U[k].index = i

(* unhealthyFirst puts the alerts first and loses none.                    *)
LEMMA UnhealthyAreFirst ==
    ASSUME NEW kind, NEW h \in Seq(BOOLEAN), NEW U, U = UnhealthyFirst(Rows(kind, h))
    PROVE  \E c : AlertsFirst(kind, h, U, c)
<1> DEFINE R == PeerRows(kind)
           s == Rows(kind, h)
           n == Len(h)
           Bad == {r \in Range(s) : ~r.healthy}
           Good == {r \in Range(s) : r.healthy}
           A == Filter(s, Bad)
           B == Filter(s, Good)
<1>1. n \in Nat /\ \A i \in 1 .. n : h[i] \in BOOLEAN BY LenProperties, ElementOfSeq
<1>2. \A i \in 1 .. n : s[i] = Row(kind, i, h[i]) BY DEF Rows
<1>3. s \in Seq(R) /\ Len(s) = n
    <2>1. \A i \in 1 .. n : s[i] \in R
        <3> SUFFICES ASSUME NEW i \in 1 .. n PROVE s[i] \in R OBVIOUS
        <3>1. i \in Nat /\ h[i] \in BOOLEAN BY <1>1
        <3> HIDE DEF n, s
        <3> QED BY <1>2, <3>1, RowIn, Zenon
    <2>2. s = [i \in 1 .. n |-> s[i]] BY DEF Rows
    <2>3. \A t \in [1 .. n -> R] : t \in Seq(R) /\ Len(t) = n
        <3> HIDE DEF n, R
        <3> QED BY <1>1
    <2>4. s \in [1 .. n -> R] BY <2>1, <2>2
    <2> QED BY <2>3, <2>4
<1>12. \A i \in 1 .. n : s[i].index = i /\ s[i].healthy = h[i]
    <2> HIDE DEF n, s
    <2> SUFFICES ASSUME NEW i \in 1 .. n PROVE s[i].index = i /\ s[i].healthy = h[i] OBVIOUS
    <2>1. s[i] = Row(kind, i, h[i]) BY <1>2
    <2> DEFINE v == h[i]
    <2>2. s[i] = Row(kind, i, v) BY <2>1
    <2> HIDE DEF v
    <2>3. s[i].index = i BY <2>2, RowIndex
    <2>4. s[i].healthy = v BY <2>2, RowHealthy
    <2> QED BY <2>3, <2>4 DEF v
<1>4. \A i \in 1 .. n : s[i] \in Bad <=> ~h[i]
    <2> SUFFICES ASSUME NEW i \in 1 .. n PROVE s[i] \in Bad <=> ~h[i] OBVIOUS
    <2>1. s[i].healthy = h[i] BY <1>12
    <2>2. s[i] \in Range(s)
        <3>1. i \in DOMAIN s BY DEF Rows
        <3> QED BY <3>1 DEF Range
    <2> HIDE DEF s
    <2> QED BY <2>1, <2>2
<1>5. \A i \in 1 .. n : s[i] \in Good => h[i] = TRUE
    <2> SUFFICES ASSUME NEW i \in 1 .. n, s[i] \in Good PROVE h[i] = TRUE OBVIOUS
    <2>1. s[i].healthy = h[i] BY <1>12
    <2> HIDE DEF s
    <2> QED BY <1>1, <2>1
<1>6. U = A \o B BY DEF UnhealthyFirst
<1> HIDE DEF s, Bad, Good, n
<1>7. /\ A \in Seq(R)
      /\ \A k \in 1 .. Len(A) : \E i \in 1 .. n : s[i] \in Bad /\ A[k] = s[i]
      /\ \A i \in 1 .. n : s[i] \in Bad => \E k \in 1 .. Len(A) : A[k] = s[i]
    <2>1. A = Filter(s, Bad) OBVIOUS
    <2> HIDE DEF A
    <2>2. s \in Seq(R) BY <1>3
    <2> HIDE DEF R
    <2>3. A \in Seq(R) /\ \A k \in 1 .. Len(A) : \E i \in 1 .. Len(s) : s[i] \in Bad /\ A[k] = s[i]
        BY <2>1, <2>2, FilterEntries
    <2>4. \A i \in 1 .. Len(s) : s[i] \in Bad => \E k \in 1 .. Len(A) : A[k] = s[i]
        BY <2>1, <2>2, FilterEntries
    <2> QED BY <1>3, <2>3, <2>4
<1>8. B \in Seq(R) /\ \A k \in 1 .. Len(B) : \E i \in 1 .. n : s[i] \in Good /\ B[k] = s[i]
    <2>1. B = Filter(s, Good) OBVIOUS
    <2> HIDE DEF B
    <2>2. s \in Seq(R) BY <1>3
    <2> HIDE DEF R
    <2>3. B \in Seq(R) /\ \A k \in 1 .. Len(B) : \E i \in 1 .. Len(s) : s[i] \in Good /\ B[k] = s[i]
        BY <2>1, <2>2, FilterEntries
    <2> QED BY <1>3, <2>3
<1> HIDE DEF A, B
<1> DEFINE a == Len(A)
           b == Len(B)
<1>9. a \in Nat /\ b \in Nat BY <1>7, <1>8, LenProperties
<1>10. /\ U \in Seq(R) /\ Len(U) = a + b
       /\ \A i \in 1 .. a + b : U[i] = IF i <= a THEN A[i] ELSE B[i - a]
    BY <1>6, <1>7, <1>8, ConcatProperties
<1> HIDE DEF a, b
<1>11. \A k \in 1 .. Len(U) : \/ k <= a /\ \E i \in 1 .. n : ~h[i] /\ U[k] = s[i]
                              \/ k > a /\ \E i \in 1 .. n : h[i] = TRUE /\ U[k] = s[i]
    <2> SUFFICES ASSUME NEW k \in 1 .. Len(U)
                 PROVE  \/ k <= a /\ \E i \in 1 .. n : ~h[i] /\ U[k] = s[i]
                        \/ k > a /\ \E i \in 1 .. n : h[i] = TRUE /\ U[k] = s[i]
        OBVIOUS
    <2>1. CASE k <= a
        <3>1. k \in 1 .. a /\ U[k] = A[k] BY <1>9, <1>10, <2>1
        <3>2. PICK i \in 1 .. n : s[i] \in Bad /\ A[k] = s[i] BY <1>7, <3>1 DEF a
        <3> QED BY <1>4, <2>1, <3>1, <3>2
    <2>2. CASE k > a
        <3>1. k - a \in 1 .. b /\ U[k] = B[k - a] BY <1>9, <1>10, <2>2
        <3>2. PICK i \in 1 .. n : s[i] \in Good /\ B[k - a] = s[i] BY <1>8, <3>1 DEF b
        <3> QED BY <1>5, <2>2, <3>1, <3>2
    <2>3. k <= a \/ k > a BY <1>9, <1>10
    <2> QED BY <2>1, <2>2, <2>3, Zenon
<1>13. \A k \in 1 .. Len(U) : U[k].index \in 1 .. n /\ U[k].healthy = h[U[k].index] BY <1>11, <1>12
<1>14. \A k \in 1 .. Len(U) : U[k].healthy => k > a BY <1>11, <1>12
<1>15. \A i \in 1 .. n : ~h[i] => \E k \in 1 .. a : U[k].index = i
    <2> SUFFICES ASSUME NEW i \in 1 .. n, ~h[i] PROVE \E k \in 1 .. a : U[k].index = i OBVIOUS
    <2>1. PICK k \in 1 .. a : A[k] = s[i] BY <1>4, <1>7 DEF a
    <2>2. U[k] = A[k] BY <1>9, <1>10, <2>1
    <2> QED BY <1>12, <2>1, <2>2
<1>16. a \in 0 .. Len(U) BY <1>9, <1>10
<1>17. AlertsFirst(kind, h, U, a) BY <1>10, <1>13, <1>14, <1>15, <1>16 DEF AlertsFirst, n
<1> QED BY <1>17

(* Z is names, continued by the first l of rows.                           *)
Continues(Z, names, rows, l) ==
    /\ Len(Z) = Len(names) + l
    /\ \A i \in 1 .. Len(names) : Z[i] = names[i]
    /\ \A i \in 1 .. l : Z[Len(names) + i] = rows[i]

(* Trimming continues the list, and never beyond the limit.                *)
LEMMA TrimmedIs ==
    ASSUME NEW R, NEW names \in Seq(R), NEW rows \in Seq(R), NEW Z, Z = Trimmed(names, rows)
    PROVE  /\ Z \in Seq(R)
           /\ Len(names) <= MaxPeerComponents => Len(Z) <= MaxPeerComponents
           /\ \E l \in 0 .. Len(rows) : Continues(Z, names, rows, l)
<1> DEFINE m == Len(names)
           n == Len(rows)
           l == IF m >= MaxPeerComponents THEN 0
                ELSE IF n <= MaxPeerComponents - m THEN n ELSE MaxPeerComponents - m
           tail == SubSeq(rows, 1, l)
<1>1. m \in Nat /\ n \in Nat /\ MaxPeerComponents \in Nat BY LenProperties, PeerViewAssumption
<1>2. \A i \in 1 .. n : rows[i] \in R BY ElementOfSeq
<1>3. Z = names \o tail BY DEF Trimmed
<1> HIDE DEF m, n
<1>4. l \in 0 .. n /\ (m <= MaxPeerComponents => m + l <= MaxPeerComponents) BY <1>1
<1> HIDE DEF l
<1>5. tail \in Seq(R) /\ Len(tail) = l /\ \A i \in 1 .. l : tail[i] = rows[i]
    <2> DEFINE one == 1
    <2>1. one \in Int /\ l \in Int /\ one = 1 BY <1>1, <1>4
    <2>2. \A i \in one .. l : rows[i] \in R BY <1>1, <1>2, <1>4
    <2> HIDE DEF one
    <2> DEFINE t == SubSeq(rows, one, l)
    <2>3. /\ t \in Seq(R) /\ Len(t) = IF one <= l THEN l - one + 1 ELSE 0
          /\ \A i \in 1 .. l - one + 1 : t[i] = rows[one + i - 1]
        BY <2>1, <2>2, SubSeqProperties
    <2>4. tail = t BY <2>1
    <2> HIDE DEF t, tail
    <2>5. Len(t) = l BY <1>1, <1>4, <2>1, <2>3
    <2>6. l - one + 1 = l /\ \A i \in 1 .. l : one + i - 1 = i BY <1>1, <1>4, <2>1
    <2> QED BY <2>3, <2>4, <2>5, <2>6
<1> HIDE DEF tail
<1>6. /\ Z \in Seq(R) /\ Len(Z) = m + l
      /\ \A i \in 1 .. m + l : Z[i] = IF i <= m THEN names[i] ELSE tail[i - m]
    BY <1>3, <1>5, ConcatProperties DEF m
<1>7. \A i \in 1 .. m : i \in 1 .. m + l /\ i <= m BY <1>1, <1>4
<1>8. \A i \in 1 .. l : m + i \in 1 .. m + l /\ ~(m + i <= m) /\ m + i - m = i BY <1>1, <1>4
<1>9. Continues(Z, names, rows, l) BY <1>5, <1>6, <1>7, <1>8 DEF Continues, m
<1> QED BY <1>4, <1>6, <1>9 DEF m, n

(* A view A of the given size shows the first l of U from position o on,   *)
(* and no other row of the kind.                                           *)
ShowsFirst(A, size, kind, U, o, l) ==
    /\ size \in Nat /\ o \in Nat /\ l \in 0 .. Len(U) /\ o + l <= size
    /\ \A i \in 1 .. l : A[o + i] = U[i]
    /\ \A p \in 1 .. size : A[p].kind = kind => p \in o + 1 .. o + l

(* In it no healthy row outlives an alert.                                 *)
LEMMA CutKeepsAlerts ==
    ASSUME NEW kind, NEW h, NEW U, NEW c, AlertsFirst(kind, h, U, c),
           NEW A, NEW size, NEW o, NEW l, ShowsFirst(A, size, kind, U, o, l),
           NEW i \in 1 .. Len(h), NEW j \in 1 .. Len(h), ~h[i], h[j],
           \E p \in 1 .. size : A[p].kind = kind /\ A[p].index = j
    PROVE  \E q \in 1 .. size : A[q].kind = kind /\ A[q].index = i
<1>0. /\ size \in Nat /\ o \in Nat /\ l \in 0 .. Len(U) /\ o + l <= size
      /\ \A k \in 1 .. l : A[o + k] = U[k]
      /\ \A p \in 1 .. size : A[p].kind = kind => p \in o + 1 .. o + l
    BY DEF ShowsFirst
<1> PICK p \in 1 .. size : A[p].kind = kind /\ A[p].index = j OBVIOUS
<1> DEFINE n == Len(U)
<1>1. /\ U \in Seq(PeerRows(kind)) /\ c \in 0 .. n
      /\ \A k \in 1 .. n : U[k].healthy = h[U[k].index]
      /\ \A k \in 1 .. n : U[k].healthy => k > c
      /\ \E k \in 1 .. c : U[k].index = i
    BY DEF AlertsFirst
<1>2. n \in Nat /\ l \in 0 .. n /\ \A k \in 1 .. n : U[k] \in PeerRows(kind) BY <1>0, <1>1, LenProperties, ElementOfSeq
<1> HIDE DEF n
<1>3. p - o \in 1 .. l /\ p - o \in 1 .. n /\ o + (p - o) = p BY <1>0, <1>2, SMTT(30)
<1>4. U[p - o].index = j
    <2> DEFINE d == p - o
    <2>1. d \in 1 .. l /\ o + d = p BY <1>3
    <2> HIDE DEF d
    <2>2. U[d] = A[p] BY <1>0, <2>1
    <2> QED BY <2>2 DEF d
<1>5. p - o > c
    <2> DEFINE d == p - o
    <2>1. d \in 1 .. n /\ U[d].index = j BY <1>3, <1>4
    <2> HIDE DEF d
    <2>2. U[d].healthy = h[j] BY <1>1, <2>1
    <2>3. U[d].healthy BY <2>2
    <2>4. d > c BY <1>1, <2>1, <2>3
    <2> QED BY <2>4 DEF d
<1>6. PICK k \in 1 .. c : U[k].index = i BY <1>1
<1>7. k \in 1 .. l /\ k \in 1 .. n /\ o + k \in 1 .. size BY <1>0, <1>1, <1>2, <1>3, <1>5
<1>8. A[o + k] = U[k] BY <1>0, <1>7
<1>9. U[k].kind = kind BY <1>2, <1>7 DEF PeerRows
<1> QED BY <1>6, <1>7, <1>8, <1>9

(* The view of a peer: its roll-up, the rows of its components that fit,   *)
(* the rows of its targets that still fit, and a last word when it is      *)
(* stale.                                                                  *)
Viewed(A, r, C, T, l, m) ==
    /\ l \in 0 .. Len(C) /\ m \in 0 .. Len(T) /\ 1 + l + m <= MaxPeerComponents
    /\ Len(A) = IF r.stale THEN 2 + l + m ELSE 1 + l + m
    /\ A[1] = RollUp(r.targets)
    /\ \A i \in 1 .. l : A[1 + i] = C[i]
    /\ \A i \in 1 .. m : A[1 + l + i] = T[i]
    /\ r.stale => A[2 + l + m] = Row("peer", 0, FALSE)

(* render makes it.                                                        *)
LEMMA RenderIs ==
    ASSUME NEW r, r.stale \in BOOLEAN, NEW C, C = UnhealthyFirst(Rows("component", r.components)),
           NEW T, T = UnhealthyFirst(Rows("target", Sound(r.targets))),
           C \in Seq(PeerRows("component")), T \in Seq(PeerRows("target"))
    PROVE  \E l, m : Viewed(Render(r), r, C, T, l, m)
<1> DEFINE R == PeerRows("peer") \cup PeerRows("component") \cup PeerRows("target")
           top == RollUp(r.targets)
           a == Trimmed(<<top>>, C)
           b == Trimmed(a, T)
           L == Row("peer", 0, FALSE)
<1>1. top \in R /\ L \in R
    <2>1. 0 \in Nat /\ FALSE \in BOOLEAN /\ Up(r.targets) \in BOOLEAN BY DEF Up
    <2>2. top \in PeerRows("peer") /\ L \in PeerRows("peer") BY <2>1, RowIn, Zenon DEF RollUp
    <2> HIDE DEF top, L
    <2> QED BY <2>2
<1>2. C \in Seq(R) /\ T \in Seq(R)
    <2>1. \A i \in 1 .. Len(C) : C[i] \in R BY ElementOfSeq
    <2>2. \A i \in 1 .. Len(T) : T[i] \in R BY ElementOfSeq
    <2>3. /\ Len(C) \in Nat /\ C = [i \in 1 .. Len(C) |-> C[i]]
          /\ Len(T) \in Nat /\ T = [i \in 1 .. Len(T) |-> T[i]]
        BY LenProperties
    <2> HIDE DEF R
    <2>4. C \in [1 .. Len(C) -> R] /\ T \in [1 .. Len(T) -> R] BY <2>1, <2>2, <2>3
    <2>5. \A n \in Nat : \A s \in [1 .. n -> R] : s \in Seq(R) OBVIOUS
    <2> QED BY <2>3, <2>4, <2>5
<1>3. Render(r) = Staleness(b, r.stale) BY DEF Render
<1> HIDE DEF R, top, L
<1>4. <<top>> \in Seq(R) /\ Len(<<top>>) = 1 /\ <<top>>[1] = top BY <1>1
<1> DEFINE one == <<top>>
<1>5. one \in Seq(R) /\ Len(one) = 1 /\ one[1] = top BY <1>4
<1>6. a = Trimmed(one, C) OBVIOUS
<1> HIDE DEF one, a
<1>7. /\ a \in Seq(R)
      /\ Len(one) <= MaxPeerComponents => Len(a) <= MaxPeerComponents
      /\ \E l \in 0 .. Len(C) : Continues(a, one, C, l)
    <2>1. one \in Seq(R) /\ C \in Seq(R) BY <1>2, <1>5
    <2> QED BY <2>1, <1>6, TrimmedIs
<1>8. PICK l \in 0 .. Len(C) : Continues(a, one, C, l) BY <1>7
<1>9. b = Trimmed(a, T) OBVIOUS
<1> HIDE DEF b
<1>10. /\ b \in Seq(R)
       /\ Len(a) <= MaxPeerComponents => Len(b) <= MaxPeerComponents
       /\ \E m \in 0 .. Len(T) : Continues(b, a, T, m)
    <2>1. a \in Seq(R) BY <1>7
    <2> QED BY <2>1, <1>2, <1>9, TrimmedIs
<1>11. PICK m \in 0 .. Len(T) : Continues(b, a, T, m) BY <1>10
<1>12. MaxPeerComponents \in Nat \ {0} /\ l \in Nat /\ m \in Nat BY <1>2, LenProperties, PeerViewAssumption
<1>13. /\ Len(a) = 1 + l /\ a[1] = top
       /\ \A i \in 1 .. l : a[1 + i] = C[i]
    <2>1. 1 \in 1 .. 1 OBVIOUS
    <2> QED BY <1>5, <1>8, <2>1 DEF Continues
<1>14. /\ Len(b) = 1 + l + m /\ b[1] = top
       /\ \A i \in 1 .. l : b[1 + i] = C[i]
       /\ \A i \in 1 .. m : b[1 + l + i] = T[i]
    <2>1. 1 \in 1 .. 1 + l /\ \A i \in 1 .. l : 1 + i \in 1 .. 1 + l BY <1>12
    <2> QED BY <1>11, <1>12, <1>13, <2>1 DEF Continues
<1>15. 1 + l + m <= MaxPeerComponents BY <1>5, <1>7, <1>10, <1>12, <1>13, <1>14
<1>16. CASE ~r.stale
    <2>1. Render(r) = b BY <1>3, <1>16 DEF Staleness
    <2>2. Viewed(Render(r), r, C, T, l, m) BY <1>14, <1>15, <1>16, <2>1 DEF Viewed, top
    <2> QED BY <2>2
<1>17. CASE r.stale
    <2> DEFINE e == Append(b, L)
               n == 1 + l + m
    <2>1. Render(r) = e BY <1>3, <1>17 DEF Staleness, L
    <2>2. Len(e) = Len(b) + 1 /\ (\A i \in 1 .. Len(b) : e[i] = b[i]) /\ e[Len(b) + 1] = L
        <3>1. b \in Seq(R) /\ L \in R BY <1>1, <1>10
        <3> QED BY <3>1, AppendProperties
    <2> HIDE DEF e
    <2>3. Len(e) = 2 + l + m /\ e[2 + l + m] = L
        <3>1. 1 + l + m + 1 = 2 + l + m BY <1>12
        <3> QED BY <1>14, <2>2, <3>1
    <2>4. /\ 1 \in 1 .. n /\ \A i \in 1 .. l : 1 + i \in 1 .. n
          /\ \A i \in 1 .. m : 1 + l + i \in 1 .. n
        BY <1>12
    <2>5. \A i \in 1 .. n : e[i] = b[i] BY <1>14, <2>2
    <2>6. /\ e[1] = top
          /\ \A i \in 1 .. l : e[1 + i] = C[i]
          /\ \A i \in 1 .. m : e[1 + l + i] = T[i]
        BY <1>14, <2>4, <2>5
    <2>7. Viewed(e, r, C, T, l, m) BY <1>15, <1>17, <2>3, <2>6 DEF Viewed, top, L
    <2> QED BY <2>1, <2>7
<1> QED BY <1>16, <1>17

(* The kinds of the rows of a view, by position.                           *)
LEMMA ViewedKinds ==
    ASSUME NEW A, NEW r, r.stale \in BOOLEAN, NEW C \in Seq(PeerRows("component")),
           NEW T \in Seq(PeerRows("target")), NEW l, NEW m, Viewed(A, r, C, T, l, m)
    PROVE  /\ l \in Nat /\ m \in Nat /\ Len(A) \in Nat
           /\ A[1].kind = "peer"
           /\ \A p \in 2 .. 1 + l : A[p].kind = "component"
           /\ \A p \in 2 + l .. 1 + l + m : A[p].kind = "target"
           /\ r.stale => A[2 + l + m].kind = "peer"
<1>1. l \in Nat /\ m \in Nat /\ l \in 0 .. Len(C) /\ m \in 0 .. Len(T) /\ Len(C) \in Nat /\ Len(T) \in Nat
    <2>1. Len(C) \in Nat /\ Len(T) \in Nat BY LenProperties
    <2> QED BY <2>1 DEF Viewed
<1>2. A[1].kind = "peer"
    <2>1. A[1] = RollUp(r.targets) BY DEF Viewed
    <2>2. RollUp(r.targets).kind = "peer" BY RowKind, Zenon DEF RollUp
    <2> QED BY <2>1, <2>2
<1>3. ASSUME NEW p \in 2 .. 1 + l PROVE A[p].kind = "component"
    <2> DEFINE d == p - 1
    <2>1. d \in 1 .. l /\ d \in 1 .. Len(C) /\ 1 + d = p BY <1>1
    <2> HIDE DEF d
    <2>2. A[p] = C[d] BY <2>1 DEF Viewed
    <2>3. C[d] \in PeerRows("component") BY <2>1, ElementOfSeq
    <2> QED BY <2>2, <2>3 DEF PeerRows
<1>4. ASSUME NEW p \in 2 + l .. 1 + l + m PROVE A[p].kind = "target"
    <2> DEFINE d == p - (1 + l)
    <2>1. d \in 1 .. m /\ d \in 1 .. Len(T) /\ 1 + l + d = p BY <1>1
    <2> HIDE DEF d
    <2>2. A[p] = T[d] BY <2>1 DEF Viewed
    <2>3. T[d] \in PeerRows("target") BY <2>1, ElementOfSeq
    <2> QED BY <2>2, <2>3 DEF PeerRows
<1>5. r.stale => A[2 + l + m].kind = "peer"
    <2>1. r.stale => A[2 + l + m] = Row("peer", 0, FALSE) BY DEF Viewed
    <2>2. Row("peer", 0, FALSE).kind = "peer" BY RowKind
    <2> QED BY <2>1, <2>2
<1>6. Len(A) \in Nat BY <1>1 DEF Viewed
<1> QED BY <1>1, <1>2, <1>3, <1>4, <1>5, <1>6

(* A report is a list.                                                     *)
LEMMA ReportsAre == ASSUME NEW V PROVE ReportLists(V) \subseteq Seq(V)
<1> SUFFICES ASSUME NEW h \in ReportLists(V) PROVE h \in Seq(V) OBVIOUS
<1>1. PICK k \in 0 .. MaxReported : h \in [1 .. k -> V] BY DEF ReportLists
<1>2. k \in Nat BY PeerViewAssumption
<1> QED BY <1>1, <1>2

(* Each target of a report is healthy or not.                              *)
LEMMA SoundIs ==
    ASSUME NEW V, NEW s \in Seq(V)
    PROVE  /\ Sound(s) \in Seq(BOOLEAN) /\ Len(Sound(s)) = Len(s)
           /\ \A i \in 1 .. Len(s) : Sound(s)[i] = (s[i] = "healthy")
<1>1. Len(s) \in Nat BY LenProperties
<1> DEFINE n == Len(s)
           f == [i \in 1 .. n |-> s[i] = "healthy"]
<1>2. f \in [1 .. n -> BOOLEAN] OBVIOUS
<1>3. Sound(s) = f BY DEF Sound
<1> HIDE DEF n
<1>4. \A i \in 1 .. n : f[i] = (s[i] = "healthy") OBVIOUS
<1> HIDE DEF f
<1>5. f \in Seq(BOOLEAN) /\ Len(f) = n BY <1>1, <1>2 DEF n
<1> QED BY <1>3, <1>4, <1>5 DEF n

(* What is shown of one kind.                                              *)
LEMMA ShownIs ==
    ASSUME NEW kind, NEW i
    PROVE  i \in Shown(kind) <=> \E p \in 1 .. Len(Answer) : Answer[p].kind = kind /\ Answer[p].index = i
BY DEF Shown

(* The rows of a view, whatever the peer reports.                          *)
LEMMA ViewTells ==
    ASSUME Answered("render"), in \in RenderInputs, Answer = Render(in)
    PROVE  AlertsOutliveHealthyRows /\ RollUpTellsAll /\ RowsTell
<1> DEFINE C == UnhealthyFirst(Rows("component", in.components))
           H == Sound(in.targets)
           T == UnhealthyFirst(Rows("target", H))
<1>0. in.components \in Seq(BOOLEAN) /\ in.targets \in Seq(ReportedStates) /\ in.stale \in BOOLEAN
    BY ReportsAre DEF RenderInputs
<1>1. /\ in.components \in Seq(BOOLEAN) /\ H \in Seq(BOOLEAN) /\ in.stale \in BOOLEAN
      /\ Len(H) = Len(in.targets) /\ \A i \in 1 .. Len(in.targets) : H[i] = (in.targets[i] = "healthy")
    BY <1>0, SoundIs
<1>2. PICK c : AlertsFirst("component", in.components, C, c) BY <1>1, UnhealthyAreFirst
<1>3. PICK d : AlertsFirst("target", H, T, d)
    <2> HIDE DEF H
    <2> QED BY <1>1, UnhealthyAreFirst
<1>4. C \in Seq(PeerRows("component")) /\ T \in Seq(PeerRows("target")) BY <1>2, <1>3 DEF AlertsFirst
<1>5. PICK l, m : Viewed(Answer, in, C, T, l, m)
    <2>1. C = UnhealthyFirst(Rows("component", in.components)) /\ T = UnhealthyFirst(Rows("target", Sound(in.targets)))
        OBVIOUS
    <2> HIDE DEF C, T
    <2>2. \E l, m : Viewed(Render(in), in, C, T, l, m) BY <1>1, <1>4, <2>1, RenderIs
    <2> QED BY <2>2
<1> HIDE DEF C, T, H
<1> DEFINE A == Answer
           n == Len(A)
<1>6. /\ l \in Nat /\ m \in Nat /\ n \in Nat
      /\ A[1].kind = "peer"
      /\ \A p \in 2 .. 1 + l : A[p].kind = "component"
      /\ \A p \in 2 + l .. 1 + l + m : A[p].kind = "target"
      /\ in.stale => A[2 + l + m].kind = "peer"
    <2> HIDE DEF A
    <2>1. Viewed(A, in, C, T, l, m) BY <1>5 DEF A
    <2>2. in.stale \in BOOLEAN BY <1>0
    <2> QED BY <1>4, <2>1, <2>2, ViewedKinds, SMTT(30)
<1>7. /\ n = IF in.stale THEN 2 + l + m ELSE 1 + l + m
      /\ 1 + l + m <= MaxPeerComponents
      /\ l \in 0 .. Len(C) /\ m \in 0 .. Len(T)
      /\ \A i \in 1 .. l : A[1 + i] = C[i]
      /\ \A i \in 1 .. m : A[1 + l + i] = T[i]
      /\ A[1] = RollUp(in.targets)
      /\ in.stale => A[2 + l + m] = Row("peer", 0, FALSE)
    BY <1>5 DEF Viewed
<1> HIDE DEF n, A
<1>8. \A p \in 1 .. n : p = 1 \/ p \in 2 .. 1 + l \/ p \in 2 + l .. 1 + l + m \/ (in.stale /\ p = 2 + l + m)
    BY <1>6, <1>7
<1>9. AlertsOutliveHealthyRows
    <2>1. ASSUME NEW i \in 1 .. Len(in.components), NEW j \in 1 .. Len(in.components),
                 ~in.components[i], in.components[j], j \in Shown("component")
          PROVE  i \in Shown("component")
        <3> DEFINE h == in.components
        <3> HIDE DEF h
        <3>1. \E p \in 1 .. n : A[p].kind = "component" /\ A[p].index = j BY <2>1, ShownIs DEF n, A
        <3>2. AlertsFirst("component", h, C, c) BY <1>2 DEF h
        <3>3. i \in 1 .. Len(h) /\ j \in 1 .. Len(h) /\ ~h[i] /\ h[j] BY <2>1 DEF h
        <3>4. \A q \in 1 .. n : A[q].kind = "component" => q \in 1 + 1 .. 1 + l BY <1>6, <1>8, SMTT(30)
        <3>5. 1 \in Nat /\ 1 + l <= n BY <1>6, <1>7
        <3>6. ShowsFirst(A, n, "component", C, 1, l) BY <1>6, <1>7, <3>4, <3>5 DEF ShowsFirst
        <3>7. \E q \in 1 .. n : A[q].kind = "component" /\ A[q].index = i
            BY <3>1, <3>2, <3>3, <3>6, CutKeepsAlerts
        <3> QED BY <3>7, ShownIs DEF n, A
    <2>2. ASSUME NEW i \in 1 .. Len(H), NEW j \in 1 .. Len(H), ~H[i], H[j], j \in Shown("target")
          PROVE  i \in Shown("target")
        <3> DEFINE h == H
                   o == 1 + l
        <3>0. o \in Nat BY <1>6
        <3>4. \A q \in 1 .. n : A[q].kind = "target" => q \in o + 1 .. o + m BY <1>6, <1>8, SMTT(30)
        <3>5. o + m <= n /\ \A k \in 1 .. m : A[o + k] = T[k] BY <1>6, <1>7
        <3> HIDE DEF h, o
        <3>1. \E p \in 1 .. n : A[p].kind = "target" /\ A[p].index = j BY <2>2, ShownIs DEF n, A
        <3>2. AlertsFirst("target", h, T, d) BY <1>3 DEF h
        <3>3. i \in 1 .. Len(h) /\ j \in 1 .. Len(h) /\ ~h[i] /\ h[j] BY <2>2 DEF h
        <3>6. ShowsFirst(A, n, "target", T, o, m) BY <1>6, <1>7, <3>0, <3>4, <3>5 DEF ShowsFirst
        <3>7. \E q \in 1 .. n : A[q].kind = "target" /\ A[q].index = i
            BY <3>1, <3>2, <3>3, <3>6, CutKeepsAlerts
        <3> QED BY <3>7, ShownIs DEF n, A
    <2> QED BY <2>1, <2>2 DEF AlertsOutliveHealthyRows, H
<1>10. RollUpTellsAll
    <2> DEFINE IsLast(i) == A[i].kind = "peer" /\ \A j \in i + 1 .. n : A[j].kind # "peer"
               last == CHOOSE i \in 1 .. n : IsLast(i)
               well == Up(in.targets)
               keys == {<<A[i].kind, A[i].index>> : i \in 1 .. n}
    <2>1. A[last].healthy <=> ~in.stale /\ well
        <3>1. CASE in.stale
            <4>1. n \in 1 .. n /\ IsLast(n) BY <1>6, <1>7, <3>1
            <4>2. \A i \in 1 .. n : IsLast(i) => i = n BY <1>6, <4>1
            <4>3. last = n BY <4>1, <4>2
            <4>4. A[n] = Row("peer", 0, FALSE) BY <1>7, <3>1
            <4>5. A[n].healthy = FALSE BY <4>4 DEF Row
            <4> HIDE DEF last
            <4> QED BY <3>1, <4>3, <4>5
        <3>2. CASE ~in.stale
            <4>1. 1 \in 1 .. n /\ IsLast(1) BY <1>6, <1>7, <1>8, <3>2
            <4>2. \A i \in 1 .. n : IsLast(i) => i = 1 BY <1>6, <1>8, <3>2
            <4>3. last = 1 BY <4>1, <4>2
            <4>4. A[1] = Row("peer", 0, well) BY <1>7 DEF RollUp
            <4> HIDE DEF last, well
            <4>5. A[1].healthy = well BY <4>4 DEF Row
            <4> QED BY <3>2, <4>3, <4>5
        <3> QED BY <1>1, <3>1, <3>2
    <2>2. Cardinality(keys) <= MaxPeerComponents
        <3> DEFINE k == 1 + l + m
                   f == [i \in 1 .. k |-> <<A[i].kind, A[i].index>>]
        <3>1. k \in Nat /\ k <= MaxPeerComponents /\ MaxPeerComponents \in Nat
            BY <1>6, <1>7, PeerViewAssumption
        <3>2. 1 \in 1 .. k /\ 1 .. k \subseteq 1 .. n BY <1>6, <1>7
        <3>3. \A i \in 1 .. n : i \in 1 .. k \/ <<A[i].kind, A[i].index>> = <<A[1].kind, A[1].index>>
            <4> SUFFICES ASSUME NEW i \in 1 .. n, i \notin 1 .. k
                         PROVE  <<A[i].kind, A[i].index>> = <<A[1].kind, A[1].index>>
                OBVIOUS
            <4>1. in.stale /\ i = 2 + l + m BY <1>6, <1>8
            <4>2. A[i] = Row("peer", 0, FALSE) BY <1>7, <4>1
            <4>3. A[1] = Row("peer", 0, well) BY <1>7 DEF RollUp
            <4> HIDE DEF well
            <4>4. A[1].index = 0 BY <4>3 DEF Row
            <4>5. A[i].index = 0 BY <4>2 DEF Row
            <4>6. A[i].kind = "peer" BY <4>2, RowKind, ZenonT(30)
            <4> QED BY <1>6, <4>4, <4>5, <4>6
        <3> HIDE DEF k
        <3>4. \A x \in keys : \E i \in 1 .. k : f[i] = x BY <3>2, <3>3
        <3>5. f \in [1 .. k -> keys] BY <3>2
        <3> HIDE DEF f, keys
        <3>6. f \in Surjection(1 .. k, keys) BY <3>4, <3>5 DEF Surjection
        <3>7. IsFiniteSet(1 .. k) /\ Cardinality(1 .. k) = k
            <4> DEFINE a == 1
            <4>1. a \in Int /\ k \in Int /\ a = 1 BY <3>1
            <4> HIDE DEF a
            <4>2. IsFiniteSet(a .. k) /\ Cardinality(a .. k) = IF a > k THEN 0 ELSE k - a + 1
                BY <4>1, FS_Interval
            <4> QED BY <3>1, <4>1, <4>2
        <3>8. IsFiniteSet(keys) /\ Cardinality(keys) <= Cardinality(1 .. k) BY <3>6, <3>7, FS_Surjection
        <3>9. Cardinality(keys) \in Nat BY <3>8, FS_CardinalityType
        <3> QED BY <3>1, <3>7, <3>8, <3>9
    <2> HIDE DEF well
    <2>3. QED BY <2>1, <2>2 DEF RollUpTellsAll, well, Up, A, n
<1>11. RowsTell
    <2> SUFFICES ASSUME NEW p \in 1 .. n
                 PROVE  /\ A[p].kind = "component" => A[p].healthy = in.components[A[p].index]
                        /\ A[p].kind = "target" => A[p].healthy = (in.targets[A[p].index] = "healthy")
        BY DEF RowsTell, A, n
    <2>0. Len(C) \in Nat /\ Len(T) \in Nat BY <1>4, LenProperties
    <2>1. ASSUME A[p].kind = "component" PROVE A[p].healthy = in.components[A[p].index]
        <3> DEFINE k == p - 1
        <3>1. p \in 2 .. 1 + l BY <1>6, <1>8, <2>1, SMTT(30)
        <3>2. k \in 1 .. l /\ k \in 1 .. Len(C) /\ 1 + k = p BY <1>6, <1>7, <2>0, <3>1
        <3> HIDE DEF k
        <3>3. A[p] = C[k] BY <1>7, <3>2
        <3> QED BY <1>2, <3>2, <3>3 DEF AlertsFirst
    <2>2. ASSUME A[p].kind = "target" PROVE A[p].healthy = (in.targets[A[p].index] = "healthy")
        <3> DEFINE k == p - (1 + l)
        <3>1. p \in 2 + l .. 1 + l + m BY <1>6, <1>8, <2>2, SMTT(30)
        <3>2. k \in 1 .. m /\ k \in 1 .. Len(T) /\ 1 + l + k = p BY <1>6, <1>7, <2>0, <3>1
        <3> HIDE DEF k
        <3>3. A[p] = T[k] BY <1>7, <3>2
        <3>4. T[k].index \in 1 .. Len(H) /\ T[k].healthy = H[T[k].index] BY <1>3, <3>2 DEF AlertsFirst
        <3> QED BY <1>1, <3>3, <3>4
    <2> QED BY <2>1, <2>2
<1> QED BY <1>9, <1>10, <1>11

(* The door of the introducer.                                             *)
LEMMA DoorIsGuarded ==
    ASSUME in \in DoorInputs, Answer = Door(in)
    PROVE  ReachableIsGuarded
<1>1. Blank # "secret" BY Zenon DEF Blank
<1> QED BY <1>1 DEF ReachableIsGuarded, Door, RequireSharedSecret, CheckSharedSecret, IsLoopbackAddr

(* For any limit of rows and any length of report: alerts outlive healthy  *)
(* rows, the last word on a peer tells whether it is stale or has a target *)
(* down, each row tells its own component's or target's state, and only a  *)
(* guarded door opens (property PeerViewTells; Render, RequireSharedSecret *)
(* and CheckSharedSecret).                                                 *)
THEOREM PeerViewAlwaysTells == RulesSpec => []PeerViewTells
<1>1. RulesTold => PeerViewTells
    <2> SUFFICES ASSUME RulesTold PROVE PeerViewTells OBVIOUS
    <2>1. ASSUME Answered("render") PROVE in \in RenderInputs /\ Answer = Render(in)
        BY <2>1 DEF Answered, Answer, RulesTold, GuardTold, Told
    <2>2. ASSUME Answered("door") PROVE in \in DoorInputs /\ Answer = Door(in)
        BY <2>2 DEF Answered, Answer, RulesTold, GuardTold, Told
    <2>3. AlertsOutliveHealthyRows /\ RollUpTellsAll /\ RowsTell
        <3>1. CASE Answered("render") BY <2>1, <3>1, ViewTells
        <3>2. CASE ~Answered("render") BY <3>2 DEF AlertsOutliveHealthyRows, RollUpTellsAll, RowsTell
        <3> QED BY <3>1, <3>2
    <2>4. ReachableIsGuarded
        <3>1. CASE Answered("door") BY <2>2, <3>1, DoorIsGuarded
        <3>2. CASE ~Answered("door") BY <3>2 DEF ReachableIsGuarded
        <3> QED BY <3>1, <3>2
    <2> QED BY <2>3, <2>4 DEF PeerViewTells
<1> QED BY <1>1, RulesAreTold, PTL

-----------------------------------------------------------------------------
(* One-shot checks.                                                        *)

(* A list in strictly rising order of its IDs.                             *)
Rising(q) == \A i, j \in 1 .. Len(q) : i < j => q[i].id < q[j].id

(* A list has an entry.                                                    *)
HasEntry(q, x) == \E i \in 1 .. Len(q) : q[i] = x

(* What inserting does to a list.                                          *)
LEMMA InsertSound ==
    ASSUME NEW R, \A x \in R : x.id \in Int, NEW q \in Seq(R), NEW r \in R, NEW Z, Z = InsertByID(q, r)
    PROVE  /\ Z \in Seq(R)
           /\ \A x : HasEntry(Z, x) <=> x = r \/ HasEntry(q, x)
           /\ Rising(q) /\ (\A x : HasEntry(q, x) => x.id # r.id) => Rising(Z)
<1> DEFINE n == Len(q)
           Low == {x \in Range(q) : x.id <= r.id}
           High == {x \in Range(q) : x.id > r.id}
           A == Filter(q, Low)
           B == Filter(q, High)
           one == <<r>>
           m == A \o one
<1>1. n \in Nat /\ \A i \in 1 .. n : q[i] \in R /\ q[i].id \in Int /\ q[i] \in Range(q)
    <2>1. n \in Nat /\ \A i \in 1 .. n : q[i] \in R /\ i \in DOMAIN q BY LenProperties, ElementOfSeq
    <2> HIDE DEF n
    <2> QED BY <2>1 DEF Range
<1>2. /\ \A i \in 1 .. n : q[i] \in Low \/ q[i] \in High
      /\ \A x \in Low : x.id <= r.id
      /\ \A x \in High : x.id > r.id
    <2> HIDE DEF n
    <2>1. r.id \in Int OBVIOUS
    <2> QED BY <1>1, <2>1
<1>3. one \in Seq(R) /\ Len(one) = 1 /\ one[1] = r OBVIOUS
<1>4. Z = m \o B BY DEF InsertByID
<1> HIDE DEF Low, High, one
<1>5. A \in Seq(R) /\ \E g : Places(g, A, q, Low, n)
    <2>1. A = Filter(q, Low) OBVIOUS
    <2> HIDE DEF A
    <2> QED BY <2>1, FilterPlaces
<1>6. B \in Seq(R) /\ \E g : Places(g, B, q, High, n)
    <2>1. B = Filter(q, High) OBVIOUS
    <2> HIDE DEF B
    <2> QED BY <2>1, FilterPlaces
<1>7. PICK g : Places(g, A, q, Low, n) BY <1>5
<1>8. PICK h : Places(h, B, q, High, n) BY <1>6
<1> HIDE DEF A, B
<1> DEFINE a == Len(A)
           b == Len(B)
<1>9. a \in Nat /\ b \in Nat BY <1>5, <1>6, LenProperties
<1>10. /\ m \in Seq(R) /\ Len(m) = a + 1
       /\ \A i \in 1 .. a + 1 : m[i] = IF i <= a THEN A[i] ELSE one[i - a]
    <2>1. /\ m \in Seq(R) /\ Len(m) = Len(A) + Len(one)
          /\ \A i \in 1 .. Len(A) + Len(one) : m[i] = IF i <= Len(A) THEN A[i] ELSE one[i - Len(A)]
        <3>1. A \in Seq(R) /\ one \in Seq(R) BY <1>3, <1>5
        <3> QED BY <3>1, ConcatProperties
    <2> QED BY <1>3, <2>1
<1> HIDE DEF m
<1>11. /\ Z \in Seq(R) /\ Len(Z) = a + 1 + b
       /\ \A i \in 1 .. a + 1 + b : Z[i] = IF i <= a + 1 THEN m[i] ELSE B[i - (a + 1)]
    <2>1. /\ Z \in Seq(R) /\ Len(Z) = Len(m) + Len(B)
          /\ \A i \in 1 .. Len(m) + Len(B) : Z[i] = IF i <= Len(m) THEN m[i] ELSE B[i - Len(m)]
        <3>1. m \in Seq(R) /\ B \in Seq(R) BY <1>6, <1>10
        <3> QED BY <1>4, <3>1, ConcatProperties
    <2> QED BY <1>10, <2>1
<1> HIDE DEF a, b, n
(* Where the entries of the new list are.                                  *)
<1>12. \A i \in 1 .. a : Z[i] = A[i]
    <2> SUFFICES ASSUME NEW i \in 1 .. a PROVE Z[i] = A[i] OBVIOUS
    <2>1. i \in 1 .. a + 1 + b /\ i <= a + 1 /\ i \in 1 .. a + 1 /\ i <= a BY <1>9
    <2> QED BY <1>10, <1>11, <2>1
<1>13. Z[a + 1] = r
    <2>1. a + 1 \in 1 .. a + 1 + b /\ a + 1 <= a + 1 /\ a + 1 \in 1 .. a + 1 /\ ~(a + 1 <= a) /\ a + 1 - a = 1
        BY <1>9
    <2> DEFINE k == a + 1
    <2>2. k \in 1 .. a + 1 /\ ~(k <= a) /\ k - a = 1 BY <1>9
    <2> HIDE DEF k
    <2>3. m[k] = one[1] BY <1>10, <2>2
    <2> QED BY <1>3, <1>11, <2>1, <2>3 DEF k
<1>14. \A i \in 1 .. b : Z[a + 1 + i] = B[i]
    <2> SUFFICES ASSUME NEW i \in 1 .. b PROVE Z[a + 1 + i] = B[i] OBVIOUS
    <2> DEFINE k == a + 1 + i
    <2>1. k \in 1 .. a + 1 + b /\ ~(k <= a + 1) /\ k - (a + 1) = i BY <1>9
    <2> HIDE DEF k
    <2>2. Z[k] = B[i] BY <1>11, <2>1
    <2> QED BY <2>2 DEF k
<1>15. \A i \in 1 .. a + 1 + b : i \in 1 .. a \/ i = a + 1 \/ (i - (a + 1) \in 1 .. b /\ a + 1 + (i - (a + 1)) = i)
    BY <1>9
<1>16. /\ \A k \in 1 .. a : g[k] \in 1 .. n /\ q[g[k]] \in Low /\ A[k] = q[g[k]]
       /\ \A j, k \in 1 .. a : j < k => g[j] < g[k]
       /\ \A i \in 1 .. n : q[i] \in Low => \E k \in 1 .. a : g[k] = i
    BY <1>7 DEF Places, a
<1>17. /\ \A k \in 1 .. b : h[k] \in 1 .. n /\ q[h[k]] \in High /\ B[k] = q[h[k]]
       /\ \A j, k \in 1 .. b : j < k => h[j] < h[k]
       /\ \A i \in 1 .. n : q[i] \in High => \E k \in 1 .. b : h[k] = i
    BY <1>8 DEF Places, b
<1>18. \A i \in 1 .. a : i \in 1 .. Len(Z) BY <1>9, <1>11
<1>19. a + 1 \in 1 .. Len(Z) /\ \A i \in 1 .. b : a + 1 + i \in 1 .. Len(Z) BY <1>9, <1>11
<1>20. ASSUME NEW x PROVE HasEntry(Z, x) <=> x = r \/ HasEntry(q, x)
    <2>1. ASSUME HasEntry(Z, x) PROVE x = r \/ HasEntry(q, x)
        <3>1. PICK i \in 1 .. a + 1 + b : Z[i] = x BY <1>11, <2>1 DEF HasEntry
        <3>2. CASE i \in 1 .. a BY <1>12, <1>16, <3>1, <3>2 DEF HasEntry, n
        <3>3. CASE i = a + 1 BY <1>13, <3>1, <3>3
        <3>4. CASE i - (a + 1) \in 1 .. b /\ a + 1 + (i - (a + 1)) = i
            <4> DEFINE k == i - (a + 1)
            <4>1. k \in 1 .. b /\ a + 1 + k = i BY <3>4
            <4> HIDE DEF k
            <4>2. x = q[h[k]] /\ h[k] \in 1 .. n BY <1>14, <1>17, <3>1, <4>1
            <4> QED BY <4>2 DEF HasEntry, n
        <3> QED BY <1>15, <3>2, <3>3, <3>4
    <2>2. ASSUME x = r PROVE HasEntry(Z, x) BY <1>13, <1>19, <2>2 DEF HasEntry
    <2>3. ASSUME HasEntry(q, x) PROVE HasEntry(Z, x)
        <3>1. PICK i \in 1 .. n : q[i] = x BY <2>3 DEF HasEntry, n
        <3>2. CASE q[i] \in Low
            <4>1. PICK k \in 1 .. a : g[k] = i BY <1>16, <3>2
            <4>2. Z[k] = x BY <1>12, <1>16, <3>1, <4>1
            <4> QED BY <1>18, <4>1, <4>2 DEF HasEntry
        <3>3. CASE q[i] \in High
            <4>1. PICK k \in 1 .. b : h[k] = i BY <1>17, <3>3
            <4>2. Z[a + 1 + k] = x BY <1>14, <1>17, <3>1, <4>1
            <4> QED BY <1>19, <4>1, <4>2 DEF HasEntry
        <3> QED BY <1>2, <3>2, <3>3
    <2> QED BY <2>1, <2>2, <2>3
<1>21. ASSUME Rising(q), \A x : HasEntry(q, x) => x.id # r.id PROVE Rising(Z)
    <2>1. r.id \in Int /\ \A i \in 1 .. n : q[i].id \in Int /\ q[i].id # r.id BY <1>1, <1>21 DEF HasEntry, n
    <2>2. \A i \in 1 .. a : Z[i].id \in Int /\ Z[i].id < r.id
        BY <1>2, <1>12, <1>16, <2>1
    <2>3. \A i \in 1 .. b : Z[a + 1 + i].id \in Int /\ r.id < Z[a + 1 + i].id
        BY <1>2, <1>14, <1>17, <2>1
    <2>4. \A i, j \in 1 .. a : i < j => Z[i].id < Z[j].id BY <1>12, <1>16, <1>21 DEF Rising, n
    <2>5. \A i, j \in 1 .. b : i < j => Z[a + 1 + i].id < Z[a + 1 + j].id
        <3>1. \A i \in 1 .. b : h[i] \in 1 .. n /\ Z[a + 1 + i] = q[h[i]] BY <1>14, <1>17
        <3>2. \A i, j \in 1 .. b : i < j => h[i] < h[j] BY <1>17
        <3>3. \A i, j \in 1 .. n : i < j => q[i].id < q[j].id BY <1>21 DEF Rising, n
        <3> SUFFICES ASSUME NEW i \in 1 .. b, NEW j \in 1 .. b, i < j
                     PROVE  Z[a + 1 + i].id < Z[a + 1 + j].id
            OBVIOUS
        <3> QED BY <3>1, <3>2, <3>3
    <2>6. ASSUME NEW i \in 1 .. a + 1 + b, NEW j \in 1 .. a + 1 + b, i < j PROVE Z[i].id < Z[j].id
        <3> DEFINE k == i - (a + 1)
                   l == j - (a + 1)
        <3>1. i \in 1 .. a \/ i = a + 1 \/ (k \in 1 .. b /\ a + 1 + k = i) BY <1>15
        <3>2. j \in 1 .. a \/ j = a + 1 \/ (l \in 1 .. b /\ a + 1 + l = j) BY <1>15
        <3>3. /\ j \in 1 .. a => i \in 1 .. a
              /\ j = a + 1 => i \in 1 .. a
              /\ (k \in 1 .. b /\ l \in 1 .. b) => k < l
              /\ (i = a + 1 /\ j \in 1 .. a) => FALSE
              /\ k \in 1 .. b => l \in 1 .. b
            BY <1>9, <2>6
        <3>4. i = a + 1 => l \in 1 .. b /\ a + 1 + l = j BY <1>9, <2>6
        <3> HIDE DEF k, l
        <3>5. CASE i \in 1 .. a
            <4>1. CASE j \in 1 .. a BY <2>4, <2>6, <3>5, <4>1
            <4>2. CASE j = a + 1 BY <1>13, <2>2, <3>5, <4>2
            <4>3. CASE l \in 1 .. b /\ a + 1 + l = j BY <2>1, <2>2, <2>3, <3>5, <4>3
            <4> QED BY <3>2, <4>1, <4>2, <4>3
        <3>6. CASE i = a + 1
            <4>1. l \in 1 .. b /\ a + 1 + l = j BY <3>4, <3>6
            <4> QED BY <1>13, <2>3, <3>6, <4>1
        <3>7. CASE k \in 1 .. b /\ a + 1 + k = i
            <4>1. l \in 1 .. b /\ k < l /\ a + 1 + l = j BY <1>9, <3>2, <3>3, <3>7, <2>6
            <4> QED BY <2>5, <3>7, <4>1
        <3> QED BY <3>1, <3>5, <3>6, <3>7
    <2> QED BY <1>11, <2>6 DEF Rising
<1> QED BY <1>11, <1>20, <1>21

(* What the loop of the sort went through.                                 *)
LEMMA SortLoop ==
    ASSUME NEW R, \A x \in R : x.id \in Int, NEW s \in Seq(R)
    PROVE  \E f \in [0 .. Len(s) -> Seq(R)] :
               /\ f[0] = <<>> /\ SortByID(s) = f[Len(s)]
               /\ \A i \in 1 .. Len(s) : f[i] = InsertByID(f[i - 1], s[i])
<1> DEFINE n == Len(s)
           U == Seq(R)
           e == <<>>
           next == [p \in (1 .. n) \X U |-> InsertByID(p[2], s[p[1]])]
           Eq(f) == f = [i \in 0 .. n |-> IF i = 0 THEN <<>> ELSE InsertByID(f[i - 1], s[i])]
           g == CHOOSE f : Eq(f)
<1>1. n \in Nat /\ \A i \in 1 .. n : s[i] \in R BY LenProperties, ElementOfSeq
<1>2. \A q \in U : \A r \in R : InsertByID(q, r) \in U BY InsertSound
<1>3. e \in U OBVIOUS
<1> HIDE DEF n, U
<1>4. next \in [(1 .. n) \X U -> U] BY <1>1, <1>2
<1>5. \A i \in 1 .. n : \A q \in U : next[<<i, q>>] = InsertByID(q, s[i]) OBVIOUS
<1> HIDE DEF next
<1>6. PICK f \in [0 .. n -> U] : Solves(f, e, n, next)
    <2> HIDE DEF e
    <2> QED BY <1>1, <1>3, <1>4, LoopExists
<1>7. 0 \in 0 .. n /\ \A i \in 1 .. n : i \in 0 .. n /\ i # 0 /\ i - 1 \in 0 .. n BY <1>1
<1>8. \A i \in 0 .. n : i # 0 => i \in 1 .. n BY <1>1
<1>9. Eq(f)
    <2>1. f[0] = <<>> /\ \A i \in 1 .. n : f[i] = InsertByID(f[i - 1], s[i]) BY <1>5, <1>6, <1>7 DEF Solves
    <2> QED BY <1>8, <2>1
<1>10. Eq(g) BY <1>9, Zenon
<1>11. SortByID(s) = g[n] BY Zenon DEF SortByID, Loop, n
<1> HIDE DEF g
<1>12. g = [i \in 0 .. n |-> g[i]] /\ g[0] = <<>> /\ \A i \in 1 .. n : g[i] = InsertByID(g[i - 1], s[i])
    BY <1>7, <1>10
<1> HIDE DEF Eq
<1>13. \A i \in 0 .. n : g[i] \in U
    <2> DEFINE G == {i \in 0 .. n : g[i] \in U}
    <2>1. 0 \in G BY <1>3, <1>7, <1>12
    <2>2. ASSUME NEW i \in 1 .. n, i - 1 \in G PROVE i \in G
        <3>1. g[i - 1] \in U /\ s[i] \in R BY <1>1, <2>2
        <3> QED BY <1>2, <1>7, <1>12, <3>1
    <2> HIDE DEF G
    <2>3. \A i \in 0 .. n : i \in G BY <1>1, <2>1, <2>2, UpTo, Zenon
    <2> QED BY <2>3 DEF G
<1>14. g \in [0 .. n -> U] BY <1>12, <1>13
<1> QED BY <1>11, <1>12, <1>14 DEF n, U

(* Sorting loses nothing, adds nothing, and orders results with IDs of     *)
(* their own.                                                              *)
LEMMA SortSound ==
    ASSUME NEW R, \A x \in R : x.id \in Int, NEW s \in Seq(R), NEW Z, Z = SortByID(s),
           \A i, j \in 1 .. Len(s) : s[i].id = s[j].id => i = j
    PROVE  Z \in Seq(R) /\ Rising(Z) /\ \A x : HasEntry(Z, x) <=> HasEntry(s, x)
<1> DEFINE n == Len(s)
<1>1. n \in Nat /\ \A i \in 1 .. n : s[i] \in R BY LenProperties, ElementOfSeq
<1>2. PICK f \in [0 .. n -> Seq(R)] :
          /\ f[0] = <<>> /\ SortByID(s) = f[n]
          /\ \A i \in 1 .. n : f[i] = InsertByID(f[i - 1], s[i])
    BY SortLoop
<1> HIDE DEF n
<1> DEFINE Same(m) == \A x : HasEntry(f[m], x) <=> \E i \in 1 .. m : s[i] = x
           G == {m \in 0 .. n : Rising(f[m]) /\ Same(m)}
<1>3. 0 \in G BY <1>1, <1>2 DEF Rising, HasEntry
<1>4. ASSUME NEW m \in 1 .. n, m - 1 \in G PROVE m \in G
    <2> DEFINE q == f[m - 1]
               o == m - 1
    <2>1. m \in 0 .. n /\ o \in 0 .. n /\ s[m] \in R BY <1>1
    <2>2. q \in Seq(R) /\ Rising(q) /\ \A x : HasEntry(q, x) <=> \E i \in 1 .. o : s[i] = x BY <1>4, <2>1
    <2>3. f[m] = InsertByID(q, s[m]) BY <1>2
    <2>4. \A i \in 1 .. o : i \in 1 .. n /\ i # m /\ i \in 1 .. m BY <1>1
    <2>5. \A i \in 1 .. m : i = m \/ i \in 1 .. o BY <1>1
    <2>6. m \in 1 .. m BY <1>1
    <2> HIDE DEF q, o
    <2>7. \A x : HasEntry(q, x) => x.id # s[m].id
        <3> SUFFICES ASSUME NEW x, HasEntry(q, x) PROVE x.id # s[m].id OBVIOUS
        <3>1. PICK i \in 1 .. o : s[i] = x BY <2>2
        <3>2. i \in 1 .. n /\ m \in 1 .. n /\ i # m BY <2>4
        <3>3. s[i].id # s[m].id BY <3>2 DEF n
        <3> QED BY <3>1, <3>3
    <2>8. Rising(f[m])
        <3>1. q \in Seq(R) /\ s[m] \in R BY <2>1, <2>2
        <3>2. Rising(q) /\ (\A x : HasEntry(q, x) => x.id # s[m].id) => Rising(f[m])
            BY <2>3, <3>1, InsertSound, ZenonT(60)
        <3> QED BY <2>2, <2>7, <3>2
    <2>9. \A x : HasEntry(f[m], x) <=> x = s[m] \/ HasEntry(q, x)
        BY <2>1, <2>2, <2>3, InsertSound, ZenonT(60)
    <2>10. Same(m) BY <2>2, <2>4, <2>5, <2>6, <2>9
    <2> QED BY <2>1, <2>8, <2>10
<1>5. n \in G
    <2> HIDE DEF G
    <2>1. \A i \in 0 .. n : i \in G BY <1>1, <1>3, <1>4, UpTo, Zenon
    <2>2. n \in 0 .. n BY <1>1
    <2> QED BY <2>1, <2>2
<1>6. Z = f[n] /\ f[n] \in Seq(R) BY <1>1, <1>2
<1>7. \A x : HasEntry(f[n], x) <=> HasEntry(s, x) BY <1>5 DEF HasEntry, n
<1> QED BY <1>5, <1>6, <1>7

(* The results a check may have.                                           *)
OneShotResults == {CheckOnce(t, late) : t \in OneShotTarget, late \in BOOLEAN}

(* The check of one target reports it by its ID; unless it reports a       *)
(* failure, the target compiled, and had its turn been in time and its     *)
(* gate and credentials good, it was reached.                              *)
LEMMA CheckOnceIs ==
    ASSUME NEW t \in OneShotTarget, NEW late \in BOOLEAN, NEW c, c = CheckOnce(t, late)
    PROVE  /\ c \in OneShotResults /\ c.id = t.id
           /\ c.state \notin {"unhealthy", "outage", "regression"} =>
                /\ t.compiles
                /\ ~late /\ t.gate \notin GateFailures /\ t.auth = "ok" /\ t.kind # "unasked"
                       => t.probe \in {"healthy", "degraded", "timeout"}
<1>1. /\ t.compiles \in BOOLEAN /\ t.gate \in {"none", "open", "protocol", "network"}
      /\ t.auth \in {"ok", "setup", "oauth", "other"}
      /\ t.probe \in {"healthy", "degraded", "unhealthy", "timeout", "unreachable", "tls", "other"}
      /\ t.kind \in {"remote", "stdio", "unasked"}
      /\ t.kind # "remote" => t.probe \in {"healthy", "unhealthy"}
    BY DEF OneShotTarget, GateFailures, AuthErrors, ProbeStates, ProbeErrors
<1>2. c \in OneShotResults BY DEF OneShotResults
<1>3. \A s, k : OneShotResult(t, s, k).id = t.id /\ OneShotResult(t, s, k).state = s BY DEF OneShotResult
<1> USE DEF GateFailures
<1>4. CASE ~t.compiles
    <2>1. c = OneShotResult(t, "unhealthy", "config") BY <1>4 DEF CheckOnce, mapOneShotConfigFailure
    <2> QED BY <1>2, <1>3, <2>1
<1>5. CASE t.compiles /\ t.gate \in GateFailures /\ ~late
    <2>1. c = OneShotResult(t, "unhealthy", t.gate) BY <1>5 DEF CheckOnce, mapOneShotSafetyFailure
    <2> QED BY <1>2, <1>3, <2>1
<1>6. CASE t.compiles /\ (t.gate \notin GateFailures \/ late) /\ t.auth # "ok"
    <2>1. c = mapOneShotAuthFailure(t) BY <1>6 DEF CheckOnce
    <2>2. c.id = t.id BY <1>3, <2>1 DEF mapOneShotAuthFailure
    <2> QED BY <1>2, <1>6, <2>2
<1>7. CASE t.compiles /\ (t.gate \notin GateFailures \/ late) /\ t.auth = "ok"
    <2>1. c = ProbeOnce(t, late) BY <1>7 DEF CheckOnce
    <2> USE DEF ProbeErrors, ProbeStates
    <2>2. CASE t.kind = "unasked"
        <3>1. c = OneShotResult(t, "healthy", "none") BY <2>1, <2>2 DEF ProbeOnce
        <3>2. c.id = t.id BY <1>3, <3>1
        <3> QED BY <1>2, <1>7, <2>2, <3>2
    <2>3. CASE t.kind = "stdio" /\ late
        <3>1. c = OneShotResult(t, "unhealthy", "timeout") BY <2>1, <2>3 DEF ProbeOnce
        <3>2. c.id = t.id BY <1>3, <3>1
        <3> QED BY <1>2, <1>7, <2>3, <3>2
    <2>4. CASE t.kind = "remote" /\ late
        <3>1. c = OneShotResult(t, "degraded", "timeout") BY <2>1, <2>4 DEF ProbeOnce, mapOneShotProbeFailure
        <3>2. c.id = t.id BY <1>3, <3>1
        <3> QED BY <1>2, <1>7, <2>4, <3>2
    <2>5. CASE t.kind = "remote" /\ ~late /\ t.probe \in ProbeErrors
        <3>1. c = mapOneShotProbeFailure(t, t.probe) BY <2>1, <2>5 DEF ProbeOnce
        <3>2. /\ t.probe = "timeout" => c = OneShotResult(t, "degraded", "timeout")
              /\ t.probe = "unreachable" => c = OneShotResult(t, "outage", "network")
              /\ t.probe = "tls" => c = OneShotResult(t, "unhealthy", "tls")
              /\ t.probe = "other" => c = OneShotResult(t, "unhealthy", "unknown")
            BY <3>1 DEF mapOneShotProbeFailure
        <3>3. c.id = t.id /\ (t.probe # "timeout" => c.state \in {"outage", "unhealthy"})
            BY <1>3, <2>5, <3>2
        <3> QED BY <1>2, <1>7, <3>3
    <2>6. CASE ~late /\ t.kind # "unasked" /\ t.probe \in ProbeStates
        <3>1. c = OneShotResult(t, t.probe, "none") BY <2>1, <2>6 DEF ProbeOnce
        <3>2. c.id = t.id /\ c.state = t.probe BY <1>3, <3>1
        <3> QED BY <1>2, <1>7, <2>6, <3>2
    <2> QED BY <1>1, <2>2, <2>3, <2>4, <2>5, <2>6
<1> QED BY <1>1, <1>4, <1>5, <1>6, <1>7

(* A report of a list of targets: a line for each enabled one and no       *)
(* other, by ID; the first ones are checked in time.                       *)
Reported(Z, ts, inTime) ==
    /\ Rising(Z)
    /\ \A k \in 1 .. Len(Z) : \E i \in 1 .. Len(ts) : ts[i].enabled /\ Z[k].id = ts[i].id
    /\ \A i \in 1 .. Len(ts) : ts[i].enabled =>
          \E k \in 1 .. Len(Z) : \E late \in BOOLEAN :
             Z[k] = CheckOnce(ts[i], late) /\ (i <= inTime => ~late)

(* runOneShotChecks makes such a report.                                   *)
LEMMA ReportSound ==
    ASSUME NEW ts \in CheckedLists, NEW inTime \in Nat, NEW Z, Z = RunOneShotChecks(ts, inTime)
    PROVE  Reported(Z, ts, inTime)
<1> DEFINE n == Len(ts)
           S == {t \in Range(ts) : t.enabled}
           F == EnabledTargets(ts)
           l == Len(F)
           s == [k \in 1 .. l |-> CheckOnce(F[k], k > inTime)]
           R == OneShotResults
<1>1. /\ ts \in Seq(OneShotTarget) /\ n \in Nat /\ \A i \in 1 .. n : ts[i] \in OneShotTarget
      /\ \A i, j \in 1 .. n : ts[i].id = ts[j].id => i = j
    <2>1. ts \in Seq(OneShotTarget) BY OneShotAssumption
    <2>2. n \in Nat /\ \A i \in 1 .. n : ts[i] \in OneShotTarget BY <2>1, LenProperties, ElementOfSeq
    <2>3. \A i, j \in 1 .. n : ts[i].id = ts[j].id => i = j BY OneShotAssumption
    <2> QED BY <2>1, <2>2, <2>3
<1>2. \A i \in 1 .. n : ts[i] \in S <=> ts[i].enabled
    <2>1. \A i \in 1 .. n : ts[i] \in Range(ts)
        <3>1. \A i \in 1 .. n : i \in DOMAIN ts BY <1>1, LenProperties
        <3> HIDE DEF n
        <3> QED BY <3>1 DEF Range
    <2> HIDE DEF n
    <2> QED BY <2>1
<1>3. F \in Seq(OneShotTarget) /\ \E g : Places(g, F, ts, S, n)
    <2>1. F = Filter(ts, S) BY DEF EnabledTargets
    <2> HIDE DEF F, S
    <2> QED BY <1>1, <2>1, FilterPlaces
<1>4. PICK g : Places(g, F, ts, S, n) BY <1>3
<1>5. l \in Nat /\ \A k \in 1 .. l : F[k] \in OneShotTarget BY <1>3, LenProperties, ElementOfSeq
<1>6. Z = SortByID(s) BY DEF RunOneShotChecks
<1> HIDE DEF n, S, F
<1>7. /\ \A k \in 1 .. l : g[k] \in 1 .. n /\ k <= g[k] /\ ts[g[k]] \in S /\ F[k] = ts[g[k]]
      /\ \A j, k \in 1 .. l : j < k => g[j] < g[k]
      /\ \A i \in 1 .. n : ts[i] \in S => \E k \in 1 .. l : g[k] = i
    BY <1>4 DEF Places
<1> HIDE DEF l
<1>8. \A k \in 1 .. l : s[k] \in R /\ s[k].id = ts[g[k]].id
    <2> SUFFICES ASSUME NEW k \in 1 .. l PROVE s[k] \in R /\ s[k].id = ts[g[k]].id OBVIOUS
    <2> DEFINE late == k > inTime
               c == CheckOnce(F[k], late)
    <2>1. s[k] = c /\ F[k] \in OneShotTarget /\ late \in BOOLEAN BY <1>5
    <2> HIDE DEF late, s
    <2>2. c \in R /\ c.id = F[k].id
        <3>1. c = CheckOnce(F[k], late) OBVIOUS
        <3> HIDE DEF c
        <3> QED BY <2>1, <3>1, CheckOnceIs
    <2> HIDE DEF c
    <2> QED BY <1>7, <2>1, <2>2
<1>9. s \in Seq(R) /\ Len(s) = l
    <2>1. s \in [1 .. l -> R]
        <3> DEFINE e == [k \in 1 .. l |-> s[k]]
        <3>1. s = e OBVIOUS
        <3> HIDE DEF s
        <3> QED BY <1>8, <3>1
    <2>2. \A q \in [1 .. l -> R] : q \in Seq(R) /\ Len(q) = l
        <3> HIDE DEF R
        <3> QED BY <1>5
    <2> QED BY <2>1, <2>2
<1>10. \A x \in R : x.id \in Int
    <2> SUFFICES ASSUME NEW x \in R PROVE x.id \in Int OBVIOUS
    <2>1. PICK t \in OneShotTarget, late \in BOOLEAN : x = CheckOnce(t, late) BY DEF OneShotResults
    <2>2. x.id = t.id BY <2>1, CheckOnceIs
    <2>3. t.id \in TargetIDs BY DEF OneShotTarget
    <2> QED BY <2>2, <2>3, OneShotAssumption
<1>11. \A j, k \in 1 .. l : s[j].id = s[k].id => j = k
    <2> SUFFICES ASSUME NEW j \in 1 .. l, NEW k \in 1 .. l, s[j].id = s[k].id PROVE j = k OBVIOUS
    <2>1. ts[g[j]].id = ts[g[k]].id BY <1>8
    <2>2. g[j] = g[k] /\ g[j] \in Int BY <1>1, <1>7, <2>1
    <2>3. ~(j < k) /\ ~(k < j) BY <1>7, <2>2
    <2> QED BY <1>5, <2>3
<1>12. \A k \in 1 .. l : s[k] = CheckOnce(F[k], k > inTime) OBVIOUS
<1> HIDE DEF s, R
<1>13. Rising(Z) /\ \A x : HasEntry(Z, x) <=> HasEntry(s, x)
    <2>1. \A j, k \in 1 .. Len(s) : s[j].id = s[k].id => j = k BY <1>9, <1>11
    <2>2. s \in Seq(R) BY <1>9
    <2> QED BY <1>6, <1>10, <2>1, <2>2, SortSound
<1>14. ASSUME NEW k \in 1 .. Len(Z) PROVE \E i \in 1 .. n : ts[i].enabled /\ Z[k].id = ts[i].id
    <2>1. HasEntry(Z, Z[k]) BY DEF HasEntry
    <2>2. PICK j \in 1 .. l : s[j] = Z[k] BY <1>9, <1>13, <2>1 DEF HasEntry
    <2> QED BY <1>2, <1>7, <1>8, <2>2
<1>15. ASSUME NEW i \in 1 .. n, ts[i].enabled
       PROVE  \E k \in 1 .. Len(Z) : \E late \in BOOLEAN :
                  Z[k] = CheckOnce(ts[i], late) /\ (i <= inTime => ~late)
    <2>1. PICK k \in 1 .. l : g[k] = i BY <1>2, <1>7, <1>15
    <2> DEFINE late == k > inTime
    <2>2. late \in BOOLEAN /\ (i <= inTime => ~late)
        <3>1. k <= i BY <1>7, <2>1
        <3> QED BY <1>1, <1>5, <3>1
    <2> HIDE DEF late
    <2>3. s[k] = CheckOnce(ts[i], late) BY <1>7, <1>12, <2>1 DEF late
    <2>4. HasEntry(Z, s[k])
        <3>1. HasEntry(s, s[k]) BY <1>9 DEF HasEntry
        <3> QED BY <1>13, <3>1
    <2>5. PICK p \in 1 .. Len(Z) : Z[p] = s[k] BY <2>4 DEF HasEntry
    <2> QED BY <2>2, <2>3, <2>5
<1> QED BY <1>13, <1>14, <1>15 DEF n, Reported

(* A target config.Validate takes has no issue for validate.               *)
LEMMA NoIssueLeft ==
    ASSUME NEW ts, NEW i, NEW t \in Target, t = ts[i], t.enabled, ConfigProblems(ts, i) = {}
    PROVE  /\ ~(t.endpoint = Blank /\ ~t.command)
           /\ ~(t.auth.type = "oauth" /\ (~t.auth.clientID \/ t.auth.tokenURL = Blank))
<1>1. ConnectionProblems(t) = {} /\ AuthProblems(t.auth) = {} BY DEF ConfigProblems
<1>2. ConfigURL(t.endpoint) \/ (t.transport = "stdio" /\ t.endpoint = Blank) BY <1>1 DEF ConnectionProblems
<1>3. t.transport = "stdio" => t.command BY <1>1 DEF ConnectionProblems
<1>4. ~(t.endpoint = Blank /\ ~t.command) BY <1>2, <1>3, BlankIsNoScheme DEF ConfigURL, Fragments
<1>5. ASSUME t.auth.type = "oauth" PROVE t.auth.clientID /\ t.auth.tokenURL # Blank
    <2>1. t.auth.clientID /\ ConfigURL(t.auth.tokenURL) BY <1>1, <1>5 DEF AuthProblems
    <2> QED BY <2>1, BlankIsNoScheme DEF ConfigURL, Fragments
<1> QED BY <1>4, <1>5

(* For any list of targets with IDs of their own and any moment the time   *)
(* is over: a line for each, success only where all was reached, and       *)
(* nothing left for validate to find (property OneShotTells; cmdCheck and  *)
(* cmdValidate).                                                           *)
THEOREM OneShotAlwaysTells == RulesSpec => []OneShotTells
<1>1. RulesTold => OneShotTells
    <2> SUFFICES ASSUME RulesTold PROVE OneShotTells OBVIOUS
    <2> DEFINE ts == in.targets
               Z == RunOneShotChecks(ts, in.inTime)
    <2>1. ASSUME Answered("check")
          PROVE  /\ ts \in CheckedLists /\ in.inTime \in Nat /\ in.json \in BOOLEAN
                 /\ Answer.results = Z
                 /\ Answer.fails <=> ~in.json /\ \E i \in 1 .. Len(Z) : Z[i].state \in {"unhealthy", "outage", "regression"}
        <3>1. in \in OneShotInputs /\ Answer = cmdCheck(in.targets, in.inTime, in.json)
            BY <2>1 DEF Answered, Answer, RulesTold, CommandTold, Told
        <3>2. ts \in CheckedLists /\ in.inTime \in Nat /\ in.json \in BOOLEAN
            BY <3>1, OneShotAssumption DEF OneShotInputs
        <3> QED BY <3>1, <3>2 DEF cmdCheck
    <2>2. ASSUME Answered("check")
          PROVE  /\ Rising(Z)
                 /\ \A k \in 1 .. Len(Z) : \E i \in 1 .. Len(ts) : ts[i].enabled /\ Z[k].id = ts[i].id
                 /\ \A i \in 1 .. Len(ts) : ts[i].enabled =>
                       \E k \in 1 .. Len(Z) : \E late \in BOOLEAN :
                          Z[k] = CheckOnce(ts[i], late) /\ (i <= in.inTime => ~late)
        <3>1. ts \in CheckedLists /\ in.inTime \in Nat BY <2>1, <2>2
        <3>2. Z = RunOneShotChecks(ts, in.inTime) OBVIOUS
        <3> HIDE DEF ts, Z
        <3>3. Reported(Z, ts, in.inTime) BY <3>1, <3>2, ReportSound
        <3> QED BY <3>3 DEF Reported
    <2>3. ASSUME Answered("check") PROVE \A i \in 1 .. Len(ts) : ts[i] \in OneShotTarget
        BY <2>1, <2>3, OneShotAssumption, ElementOfSeq
    <2> HIDE DEF ts, Z
    <2>4. OneLineEach
        <3> SUFFICES ASSUME Answered("check")
                     PROVE  /\ {Z[i].id : i \in 1 .. Len(Z)} = {ts[i].id : i \in {j \in 1 .. Len(ts) : ts[j].enabled}}
                            /\ \A i, j \in 1 .. Len(Z) : i < j => Z[i].id < Z[j].id
            BY <2>1 DEF OneLineEach, ts
        <3>1. ASSUME NEW i \in 1 .. Len(ts), ts[i].enabled PROVE \E k \in 1 .. Len(Z) : Z[k].id = ts[i].id
            <4>1. PICK k \in 1 .. Len(Z), late \in BOOLEAN : Z[k] = CheckOnce(ts[i], late) BY <2>2, <3>1
            <4>2. ts[i] \in OneShotTarget BY <2>3
            <4>3. Z[k].id = ts[i].id BY <4>1, <4>2, CheckOnceIs
            <4> QED BY <4>3
        <3>2. \A k \in 1 .. Len(Z) : \E i \in 1 .. Len(ts) : ts[i].enabled /\ Z[k].id = ts[i].id BY <2>2
        <3>3. {Z[i].id : i \in 1 .. Len(Z)} = {ts[i].id : i \in {j \in 1 .. Len(ts) : ts[j].enabled}}
            <4> DEFINE E == {j \in 1 .. Len(ts) : ts[j].enabled}
            <4>1. \A i : i \in E <=> i \in 1 .. Len(ts) /\ ts[i].enabled OBVIOUS
            <4> HIDE DEF E
            <4>2. \A x \in {Z[i].id : i \in 1 .. Len(Z)} : x \in {ts[i].id : i \in E} BY <3>2, <4>1
            <4>3. \A x \in {ts[i].id : i \in E} : x \in {Z[i].id : i \in 1 .. Len(Z)} BY <3>1, <4>1
            <4>4. {Z[i].id : i \in 1 .. Len(Z)} = {ts[i].id : i \in E} BY <4>2, <4>3
            <4> QED BY <4>4 DEF E
        <3>4. \A i, j \in 1 .. Len(Z) : i < j => Z[i].id < Z[j].id BY <2>2 DEF Rising
        <3> QED BY <3>3, <3>4
    <2>5. SuccessMeansReached
        <3> SUFFICES ASSUME Answered("check"), ~in.json, ~Answer.fails, NEW i \in 1 .. Len(ts), ts[i].enabled
                     PROVE  /\ ts[i].compiles
                            /\ i <= in.inTime /\ ts[i].gate \notin GateFailures /\ ts[i].auth = "ok"
                                /\ ts[i].kind # "unasked"
                                 => ts[i].probe \in {"healthy", "degraded", "timeout"}
            BY DEF SuccessMeansReached, ts
        <3>1. PICK k \in 1 .. Len(Z), late \in BOOLEAN :
                  Z[k] = CheckOnce(ts[i], late) /\ (i <= in.inTime => ~late)
            BY <2>2
        <3>2. Z[k].state \notin {"unhealthy", "outage", "regression"} BY <2>1
        <3>3. ts[i] \in OneShotTarget BY <2>3
        <3> QED BY <3>1, <3>2, <3>3, CheckOnceIs
    <2>6. ValidMeansNoIssues
        <3> SUFFICES ASSUME Answered("validate"), ~Answer.fails PROVE Answer.issues = {}
            BY DEF ValidMeansNoIssues
        <3> DEFINE vs == in.targets
                   health == HealthDefaults(in.health)
        <3>1. vs \in Seq(Target) /\ Answer = cmdValidate(vs, in.health)
            BY TargetsAssumption DEF Answered, Answer, RulesTold, CommandTold, Told, ValidateInputs
        <3>2. /\ \A i \in 1 .. Len(vs) : ConfigProblems(vs, i) = {}
              /\ Answer.issues = validateConfigIssues(vs, health)
            BY <3>1 DEF cmdValidate
        <3>3. health.addr # Blank
            <4>1. health.addr = Or(in.health.addr, "default")
                <5>1. in.health \in [enabled : BOOLEAN, self : {FALSE}, addr : {Blank, "default", "other", "bad"},
                                     paths : {"ok"}, ttl : {"ok"}, secret : {"none"}, roots : {"none"}]
                    BY DEF Answered, RulesTold, CommandTold, Told, ValidateInputs
                <5> QED BY <5>1 DEF HealthDefaults
            <4>2. "default" # Blank BY Zenon DEF Blank
            <4> HIDE DEF health
            <4> QED BY <4>1, <4>2 DEF Or
        <3>4. \A i \in 1 .. Len(vs) : vs[i] \in Target BY <3>1, ElementOfSeq
        <3> HIDE DEF vs, health
        <3>5. \A i \in 1 .. Len(vs) : vs[i].enabled =>
                  /\ ~(vs[i].endpoint = Blank /\ ~vs[i].command)
                  /\ ~(vs[i].auth.type = "oauth" /\ (~vs[i].auth.clientID \/ vs[i].auth.tokenURL = Blank))
            BY <3>2, <3>4, NoIssueLeft
        <3>6. validateConfigIssues(vs, health) = {} BY <3>3, <3>5 DEF validateConfigIssues
        <3> QED BY <3>2, <3>6
    <2> QED BY <2>4, <2>5, <2>6 DEF OneShotTells
<1> QED BY <1>1, RulesAreTold, PTL

-----------------------------------------------------------------------------
(* Probers.                                                                *)

(* No text set is no method.                                               *)
LEMMA BlankIsNoMethod == Blank \notin Methods /\ Blank \notin {"none", "base", "strict"}
BY Zenon DEF Blank, Methods

(* What the loop of normalizeMethods went through: no blank method is      *)
(* left, none comes in, and a list keeps its first method.                 *)
LEMMA MethodsNormal ==
    ASSUME NEW W, NEW s \in Seq(W \cup {Blank})
    PROVE  /\ NormalizeMethods(s) \in Seq(W)
           /\ Len(s) > 0 /\ s[1] # Blank =>
                 Len(NormalizeMethods(s)) > 0 /\ NormalizeMethods(s)[1] = s[1]
<1> DEFINE n == Len(s)
           U == Seq(W)
           e == <<>>
           Step(q, m) == IF m = Blank \/ Contains(q, m) THEN q ELSE Append(q, m)
           next == [p \in (1 .. n) \X U |-> Step(p[2], s[p[1]])]
           Eq(f) == f = [i \in 0 .. n |-> IF i = 0 THEN <<>>
                                          ELSE IF s[i] = Blank \/ Contains(f[i - 1], s[i]) THEN f[i - 1]
                                          ELSE Append(f[i - 1], s[i])]
           g == CHOOSE f : Eq(f)
<1>1. n \in Nat /\ \A i \in 1 .. n : s[i] \in W \cup {Blank} BY LenProperties, ElementOfSeq
<1>2. \A q \in U : \A m \in W \cup {Blank} : Step(q, m) \in U BY AppendProperties
<1>3. e \in U OBVIOUS
<1>16. ASSUME NEW q \in U, NEW m \in W \cup {Blank}
       PROVE  /\ Len(q) > 0 => Len(Step(q, m)) > 0 /\ Step(q, m)[1] = q[1]
              /\ q = <<>> /\ m # Blank => Len(Step(q, m)) > 0 /\ Step(q, m)[1] = m
    <2>1. CASE m = Blank \/ Contains(q, m)
        <3>1. Step(q, m) = q BY <2>1
        <3>2. q = <<>> => ~Contains(q, m) BY DEF Contains
        <3> HIDE DEF Step
        <3> QED BY <2>1, <3>1, <3>2
    <2>2. CASE ~(m = Blank \/ Contains(q, m))
        <3>1. Step(q, m) = Append(q, m) /\ m \in W BY <2>2
        <3>2. /\ Len(q) \in Nat /\ Len(Append(q, m)) = Len(q) + 1 /\ Append(q, m)[Len(q) + 1] = m
              /\ \A k \in 1 .. Len(q) : Append(q, m)[k] = q[k]
            BY <3>1, AppendProperties, LenProperties
        <3>3. q = <<>> => Len(q) = 0 OBVIOUS
        <3> HIDE DEF Step
        <3> QED BY <3>1, <3>2, <3>3
    <2> QED BY <2>1, <2>2
<1> HIDE DEF n, U
<1>4. next \in [(1 .. n) \X U -> U]
    <2> HIDE DEF Step
    <2> QED BY <1>1, <1>2
<1>5. \A i \in 1 .. n : \A q \in U : next[<<i, q>>] = Step(q, s[i]) OBVIOUS
<1> HIDE DEF next
<1>6. PICK f \in [0 .. n -> U] : Solves(f, e, n, next)
    <2> HIDE DEF e
    <2> QED BY <1>1, <1>3, <1>4, LoopExists
<1>7. 0 \in 0 .. n /\ \A i \in 1 .. n : i \in 0 .. n /\ i # 0 /\ i - 1 \in 0 .. n BY <1>1
<1>8. \A i \in 0 .. n : i # 0 => i \in 1 .. n BY <1>1
<1>9. Eq(f)
    <2>1. f[0] = <<>> /\ \A i \in 1 .. n : f[i] = Step(f[i - 1], s[i])
        <3> HIDE DEF Step
        <3> QED BY <1>5, <1>6, <1>7 DEF Solves
    <2> QED BY <1>8, <2>1
<1>10. Eq(g) BY <1>9, Zenon
<1>11. NormalizeMethods(s) = g[n] BY Zenon DEF NormalizeMethods, Loop, n
<1> HIDE DEF g
<1>12. g[0] = <<>> /\ \A i \in 1 .. n : g[i] = Step(g[i - 1], s[i]) BY <1>7, <1>10
<1> HIDE DEF Eq, Step
<1> DEFINE Begun(i) == i > 0 /\ s[1] # Blank => Len(g[i]) > 0 /\ g[i][1] = s[1]
           G == {i \in 0 .. n : g[i] \in U /\ Begun(i)}
<1>13. 0 \in G BY <1>3, <1>7, <1>12
<1>14. ASSUME NEW i \in 1 .. n, i - 1 \in G PROVE i \in G
    <2>1. g[i - 1] \in U /\ Begun(i - 1) BY <1>14
    <2>2. g[i] = Step(g[i - 1], s[i]) /\ s[i] \in W \cup {Blank} BY <1>1, <1>12
    <2>3. g[i] \in U BY <1>2, <2>1, <2>2
    <2>4. Begun(i)
        <3>1. CASE i = 1
            <4>1. g[i - 1] = <<>> BY <1>12, <3>1
            <4> QED BY <1>16, <2>1, <2>2, <3>1, <4>1
        <3>2. CASE i > 1
            <4>1. i - 1 > 0 BY <3>2
            <4> QED BY <1>16, <2>1, <2>2, <4>1
        <3> QED BY <3>1, <3>2
    <2> HIDE DEF Begun
    <2> QED BY <1>7, <2>3, <2>4
<1>15. n \in G
    <2> HIDE DEF G
    <2>1. \A i \in 0 .. n : i \in G BY <1>1, <1>13, <1>14, UpTo, Zenon
    <2>2. n \in 0 .. n BY <1>1
    <2> QED BY <2>1, <2>2
<1> QED BY <1>11, <1>15 DEF U, n

(* The states of the loop of an HTTP handshake.                            *)
HTTPStates ==
    [exercised : Seq(Methods), failed : Seq(Methods \cup {"notifications/initialized"}),
     initialized : BOOLEAN, over : {"no", "break", "outage"}]

(* The peer does all that a method asks of it.                             *)
Good(t, peer, m) ==
    /\ peer.answers[m] = "ok"
    /\ m = "initialize" /\ t.protocol = "mcp" => ValidInitialize(peer.init) /\ peer.notified = "ok"

(* What a turn of the loop may do.                                         *)
HTTPTurn(t, peer, h, m, d) ==
    /\ h.over # "no" => d = h
    /\ h.over = "no" /\ Good(t, peer, m) =>
          /\ d.exercised = Append(h.exercised, m) /\ d.failed = h.failed /\ d.over = "no"
          /\ d.initialized <=> h.initialized \/ m = "initialize"
    /\ h.over = "no" /\ ~Good(t, peer, m) =>
          /\ d.failed # <<>> \/ (d.over = "outage" /\ d.failed = h.failed)
          /\ d.over = "break" => d.failed # <<>>
          /\ \/ d.exercised = h.exercised /\ (d.initialized <=> h.initialized)
             \/ /\ peer.answers[m] = "ok" /\ m = "initialize"
                /\ d.exercised = Append(h.exercised, m) /\ d.initialized
          /\ peer.answers[m] = "status" => d.over = "no"

(* Each turn does one of these, and keeps the shape of the loop's state.   *)
LEMMA HTTPStepIs ==
    ASSUME NEW t, NEW peer \in Peer, NEW h \in HTTPStates, NEW m \in Methods,
           NEW d, d = HTTPStep(t, peer, h, m)
    PROVE  d \in HTTPStates /\ HTTPTurn(t, peer, h, m, d)
<1> DEFINE a == peer.answers[m]
           v == ValidInitialize(peer.init)
           failed == [h EXCEPT !.failed = Append(@, m)]
           good == [h EXCEPT !.exercised = Append(@, m), !.initialized = @ \/ m = "initialize"]
<1>1. a \in {"ok", "down", "status", "garbage", "rejected"} /\ peer.notified \in {"ok", "down", "status"}
    BY DEF Peer
<1>2. /\ h.exercised \in Seq(Methods) /\ h.failed \in Seq(Methods \cup {"notifications/initialized"})
      /\ h.initialized \in BOOLEAN /\ h.over \in {"no", "break", "outage"}
    BY DEF HTTPStates
<1>3. /\ Append(h.exercised, m) \in Seq(Methods)
      /\ Append(h.failed, m) \in Seq(Methods \cup {"notifications/initialized"})
      /\ Append(h.failed, m) # <<>>
      /\ Append(h.failed, "notifications/initialized") \in Seq(Methods \cup {"notifications/initialized"})
      /\ Append(h.failed, "notifications/initialized") # <<>>
    <2> DEFINE x == "notifications/initialized"
               W == Methods \cup {x}
    <2>1. m \in W /\ x \in W /\ h.failed \in Seq(W) BY <1>2
    <2> HIDE DEF W, x, Methods
    <2>2. /\ Append(h.exercised, m) \in Seq(Methods)
          /\ Append(h.failed, m) \in Seq(W) /\ Append(h.failed, m) # <<>>
          /\ Append(h.failed, x) \in Seq(W) /\ Append(h.failed, x) # <<>>
        BY <1>2, <2>1, AppendProperties
    <2> QED BY <2>2 DEF W, x
<1>4. /\ failed \in HTTPStates /\ failed.exercised = h.exercised /\ failed.initialized = h.initialized
      /\ failed.over = h.over /\ failed.failed # <<>>
    BY <1>2, <1>3 DEF HTTPStates
<1>5. /\ good \in HTTPStates /\ good.exercised = Append(h.exercised, m) /\ good.failed = h.failed
      /\ good.over = h.over /\ good.initialized = (h.initialized \/ m = "initialize")
    BY <1>2, <1>3 DEF HTTPStates
<1>6. CASE h.over # "no"
    <2>1. d = h BY <1>6 DEF HTTPStep
    <2> QED BY <1>6, <2>1 DEF HTTPTurn
<1>7. CASE h.over = "no" /\ a = "down"
    <2>1. d = [h EXCEPT !.over = "outage"] BY <1>7 DEF HTTPStep
    <2>2. /\ d \in HTTPStates /\ d.exercised = h.exercised /\ d.failed = h.failed
          /\ d.initialized = h.initialized /\ d.over = "outage"
        BY <1>2, <2>1 DEF HTTPStates
    <2> QED BY <1>7, <2>2 DEF HTTPTurn, Good
<1>8. CASE h.over = "no" /\ a \in {"status", "garbage", "rejected"}
    <2>1. d = failed BY <1>8 DEF HTTPStep
    <2> HIDE DEF failed
    <2>2. /\ d \in HTTPStates /\ d.exercised = h.exercised /\ d.failed # <<>>
          /\ d.initialized = h.initialized /\ d.over = "no"
        BY <1>4, <1>8, <2>1
    <2> QED BY <1>8, <2>2 DEF HTTPTurn, Good
<1>9. CASE h.over = "no" /\ a = "ok" /\ (m # "initialize" \/ t.protocol # "mcp")
    <2>1. d = good BY <1>9 DEF HTTPStep
    <2>2. Good(t, peer, m) BY <1>9 DEF Good
    <2> HIDE DEF good
    <2> QED BY <1>5, <1>9, <2>1, <2>2 DEF HTTPTurn
<1>10. CASE h.over = "no" /\ a = "ok" /\ m = "initialize" /\ t.protocol = "mcp" /\ ~v
    <2>1. d = [failed EXCEPT !.over = "break"] BY <1>10 DEF HTTPStep
    <2> HIDE DEF failed
    <2>2. /\ d \in HTTPStates /\ d.exercised = h.exercised /\ d.failed # <<>>
          /\ d.initialized = h.initialized /\ d.over = "break"
        BY <1>4, <2>1 DEF HTTPStates
    <2>3. ~Good(t, peer, m) /\ a # "status" BY <1>10 DEF Good
    <2> QED BY <1>10, <2>2, <2>3 DEF HTTPTurn
<1>11. CASE h.over = "no" /\ a = "ok" /\ m = "initialize" /\ t.protocol = "mcp" /\ v
    <2>1. CASE peer.notified = "down"
        <3>1. d = [good EXCEPT !.over = "outage"] BY <1>11, <2>1 DEF HTTPStep
        <3> HIDE DEF good
        <3>2. /\ d \in HTTPStates /\ d.exercised = Append(h.exercised, m) /\ d.failed = h.failed
              /\ d.initialized = TRUE /\ d.over = "outage"
            BY <1>5, <1>11, <3>1 DEF HTTPStates
        <3>3. ~Good(t, peer, m) /\ a # "status" BY <1>11, <2>1 DEF Good
        <3> QED BY <1>11, <3>2, <3>3 DEF HTTPTurn
    <2>2. CASE peer.notified = "status"
        <3> DEFINE x == "notifications/initialized"
                   b == [good EXCEPT !.over = "break"]
        <3>1. d = [good EXCEPT !.over = "break", !.failed = Append(@, x)] BY <1>11, <2>2 DEF HTTPStep
        <3>2. d = [b EXCEPT !.failed = Append(@, x)] BY <1>5, <3>1 DEF HTTPStates
        <3> HIDE DEF good
        <3>3. /\ b \in HTTPStates /\ b.exercised = Append(h.exercised, m) /\ b.failed = h.failed
              /\ b.initialized = TRUE /\ b.over = "break"
            BY <1>5, <1>11 DEF HTTPStates
        <3> HIDE DEF b
        <3>4. /\ d \in HTTPStates /\ d.exercised = Append(h.exercised, m) /\ d.failed # <<>>
              /\ d.initialized = TRUE /\ d.over = "break"
            BY <1>3, <3>2, <3>3 DEF HTTPStates
        <3>5. ~Good(t, peer, m) /\ a # "status" BY <1>11, <2>2 DEF Good
        <3> QED BY <1>11, <3>4, <3>5 DEF HTTPTurn
    <2>3. CASE peer.notified = "ok"
        <3>1. d = good BY <1>11, <2>3 DEF HTTPStep
        <3>2. Good(t, peer, m) BY <1>11, <2>3 DEF Good
        <3> HIDE DEF good
        <3> QED BY <1>5, <1>11, <3>1, <3>2 DEF HTTPTurn
    <2> QED BY <1>1, <2>1, <2>2, <2>3
<1> QED BY <1>1, <1>6, <1>7, <1>8, <1>9, <1>10, <1>11

(* The handshake before its first method, and the loop over the methods.   *)
HTTPStart == [exercised |-> <<>>, failed |-> <<>>, initialized |-> FALSE, over |-> "no"]

(* The loop of an HTTP handshake over the methods M.                       *)
HTTPRun(t, peer, M) == Loop(LAMBDA done, m : HTTPStep(t, peer, done, m), HTTPStart, M)

(* The states f that the loop of an HTTP handshake goes through.           *)
HTTPPath(t, peer, s, f) ==
    /\ f \in [0 .. Len(s) -> HTTPStates]
    /\ f[0] = HTTPStart /\ HTTPRun(t, peer, s) = f[Len(s)]
    /\ \A i \in 1 .. Len(s) : f[i] = HTTPStep(t, peer, f[i - 1], s[i])

(* There are such states.                                                  *)
LEMMA HTTPLoop ==
    ASSUME NEW t, NEW peer \in Peer, NEW s \in Seq(Methods)
    PROVE  \E f : HTTPPath(t, peer, s, f)
<1> DEFINE n == Len(s)
           next == [p \in (1 .. n) \X HTTPStates |-> HTTPStep(t, peer, p[2], s[p[1]])]
           Eq(f) == f = [i \in 0 .. n |-> IF i = 0 THEN HTTPStart ELSE HTTPStep(t, peer, f[i - 1], s[i])]
           g == CHOOSE f : Eq(f)
<1>1. n \in Nat /\ \A i \in 1 .. n : s[i] \in Methods BY LenProperties, ElementOfSeq
<1>2. \A h \in HTTPStates : \A m \in Methods : HTTPStep(t, peer, h, m) \in HTTPStates
    <2> HIDE DEF HTTPStates, HTTPStep
    <2> QED BY HTTPStepIs
<1>3. HTTPStart \in HTTPStates
    <2> DEFINE A == Seq(Methods)
               B == Seq(Methods \cup {"notifications/initialized"})
    <2>1. <<>> \in A /\ <<>> \in B OBVIOUS
    <2> HIDE DEF A, B
    <2>2. HTTPStart \in [exercised : A, failed : B, initialized : BOOLEAN, over : {"no", "break", "outage"}]
        BY <2>1 DEF HTTPStart
    <2> QED BY <2>2 DEF HTTPStates, A, B
<1> HIDE DEF n
<1>4. next \in [(1 .. n) \X HTTPStates -> HTTPStates] BY <1>1, <1>2
<1>5. \A i \in 1 .. n : \A q \in HTTPStates : next[<<i, q>>] = HTTPStep(t, peer, q, s[i]) OBVIOUS
<1> HIDE DEF next
<1>6. PICK f \in [0 .. n -> HTTPStates] : Solves(f, HTTPStart, n, next)
    BY <1>1, <1>3, <1>4, LoopExists
<1>7. 0 \in 0 .. n /\ \A i \in 1 .. n : i \in 0 .. n /\ i # 0 /\ i - 1 \in 0 .. n BY <1>1
<1>8. \A i \in 0 .. n : i # 0 => i \in 1 .. n BY <1>1
<1>9. Eq(f)
    <2>1. f[0] = HTTPStart /\ \A i \in 1 .. n : f[i] = HTTPStep(t, peer, f[i - 1], s[i])
        BY <1>5, <1>6, <1>7 DEF Solves
    <2> QED BY <1>8, <2>1
<1>10. Eq(g) BY <1>9, Zenon
<1>11. HTTPRun(t, peer, s) = g[n] BY Zenon DEF HTTPRun, Loop, n
<1> HIDE DEF g
<1>12. /\ g = [i \in 0 .. n |-> g[i]] /\ g[0] = HTTPStart
       /\ \A i \in 1 .. n : g[i] = HTTPStep(t, peer, g[i - 1], s[i])
    BY <1>7, <1>10
<1> HIDE DEF Eq
<1>13. \A i \in 0 .. n : g[i] \in HTTPStates
    <2> DEFINE G == {i \in 0 .. n : g[i] \in HTTPStates}
    <2>1. 0 \in G BY <1>3, <1>7, <1>12
    <2>2. ASSUME NEW i \in 1 .. n, i - 1 \in G PROVE i \in G
        <3>1. g[i - 1] \in HTTPStates /\ s[i] \in Methods BY <1>1, <2>2
        <3> QED BY <1>2, <1>7, <1>12, <3>1
    <2> HIDE DEF G
    <2>3. \A i \in 0 .. n : i \in G BY <1>1, <2>1, <2>2, UpTo, Zenon
    <2> QED BY <2>3 DEF G
<1>14. g \in [0 .. n -> HTTPStates] BY <1>12, <1>13
<1> QED BY <1>11, <1>12, <1>14 DEF n, HTTPPath

(* A handshake that got as far as the i-th method: while nothing failed,   *)
(* what was asked is what was answered, and what failed was not good.      *)
HTTPSoFar(t, peer, M, i, h) ==
    /\ h.over = "no" /\ h.failed = <<>> =>
          /\ Len(h.exercised) = i
          /\ \A k \in 1 .. i : h.exercised[k] = M[k] /\ Good(t, peer, M[k])
    /\ h.over = "break" => h.failed # <<>>
    /\ h.failed # <<>> => \E k \in 1 .. i : ~Good(t, peer, M[k])
    /\ (\E k \in 1 .. Len(h.exercised) : h.exercised[k] = "initialize") => h.initialized = TRUE
    /\ (\A k \in 1 .. i : Good(t, peer, M[k])) => h.over = "no" /\ h.failed = <<>>
    /\ (\A k \in 1 .. i : peer.answers[M[k]] = "status") => h.over = "no" /\ h.exercised = <<>>

(* One more method keeps it so.                                            *)
LEMMA HTTPGoesOn ==
    ASSUME NEW t, NEW peer \in Peer, NEW M \in Seq(Methods), NEW i \in 1 .. Len(M),
           NEW h \in HTTPStates, NEW d \in HTTPStates, NEW o, o = i - 1,
           HTTPSoFar(t, peer, M, o, h), HTTPTurn(t, peer, h, M[i], d)
    PROVE  HTTPSoFar(t, peer, M, i, d)
<1> DEFINE m == M[i]
           n == Len(h.exercised)
           A == Append(h.exercised, m)
           AllGood(j) == \A k \in 1 .. j : Good(t, peer, M[k])
           AllStatus(j) == \A k \in 1 .. j : peer.answers[M[k]] = "status"
           Began(q) == \E k \in 1 .. Len(q) : q[k] = "initialize"
<1>1. m \in Methods /\ Len(M) \in Nat BY LenProperties, ElementOfSeq
<1>2. o \in Nat /\ i = o + 1 /\ i \in Nat BY <1>1
<1>3. h.exercised \in Seq(Methods) /\ n \in Nat
    <2>1. h.exercised \in Seq(Methods) BY DEF HTTPStates
    <2> QED BY <2>1, LenProperties
<1>4. Len(A) = n + 1 /\ A[n + 1] = m /\ \A k \in 1 .. n : A[k] = h.exercised[k]
    <2> HIDE DEF m
    <2> QED BY <1>1, <1>3, AppendProperties
<1>5. \A k \in 1 .. i : k \in 1 .. o \/ k = i BY <1>2
<1>6. (\A k \in 1 .. o : k \in 1 .. i) /\ i \in 1 .. i BY <1>2
<1>7. AllGood(i) <=> AllGood(o) /\ Good(t, peer, m) BY <1>5, <1>6
<1>8. AllStatus(i) <=> AllStatus(o) /\ peer.answers[m] = "status" BY <1>5, <1>6
<1>9. Began(A) => Began(h.exercised) \/ m = "initialize"
    <2> SUFFICES ASSUME NEW k \in 1 .. n + 1, A[k] = "initialize" PROVE Began(h.exercised) \/ m = "initialize"
        BY <1>4
    <2>1. k \in 1 .. n \/ k = n + 1 BY <1>3
    <2> QED BY <1>4, <2>1
<1>10. m # "initialize" \/ m = "initialize" OBVIOUS
<1>11. /\ h.over = "no" /\ h.failed = <<>> =>
             n = o /\ \A k \in 1 .. o : h.exercised[k] = M[k] /\ Good(t, peer, M[k])
       /\ h.over = "break" => h.failed # <<>>
       /\ h.failed # <<>> => ~AllGood(o)
       /\ Began(h.exercised) => h.initialized = TRUE
       /\ AllGood(o) => h.over = "no" /\ h.failed = <<>>
       /\ AllStatus(o) => h.over = "no" /\ h.exercised = <<>>
    BY DEF HTTPSoFar
<1>12. CASE h.over # "no"
    <2>1. d = h BY <1>12 DEF HTTPTurn
    <2>2. h.failed # <<>> => ~AllGood(i) BY <1>7, <1>11
    <2>3. ~AllGood(i) /\ ~AllStatus(i) BY <1>7, <1>8, <1>11, <1>12
    <2> HIDE DEF n
    <2> QED BY <1>11, <1>12, <2>1, <2>2, <2>3 DEF HTTPSoFar
<1>13. CASE h.over = "no" /\ Good(t, peer, m)
    <2>1. d.exercised = A /\ d.failed = h.failed /\ d.over = "no" BY <1>13 DEF HTTPTurn
    <2>2. h.initialized = TRUE \/ m = "initialize" => d.initialized = TRUE
        BY <1>13 DEF HTTPTurn, HTTPStates
    <2>3. ~AllStatus(i) BY <1>8, <1>13 DEF Good
    <2>4. Began(d.exercised) => d.initialized = TRUE BY <1>9, <1>11, <2>1, <2>2
    <2>5. d.failed = <<>> =>
              Len(d.exercised) = i /\ \A k \in 1 .. i : d.exercised[k] = M[k] /\ Good(t, peer, M[k])
        <3> SUFFICES ASSUME d.failed = <<>>
                     PROVE  Len(A) = i /\ \A k \in 1 .. i : A[k] = M[k] /\ Good(t, peer, M[k])
            BY <2>1
        <3>1. n = o /\ \A k \in 1 .. o : h.exercised[k] = M[k] /\ Good(t, peer, M[k])
            BY <1>11, <1>13, <2>1
        <3> HIDE DEF A, n
        <3> QED BY <1>2, <1>4, <1>5, <1>13, <3>1
    <2>6. d.failed # <<>> => ~AllGood(i) BY <1>7, <1>11, <2>1
    <2>7. AllGood(i) => d.failed = <<>> BY <2>6
    <2> HIDE DEF A, n
    <2> QED BY <2>1, <2>3, <2>4, <2>5, <2>6, <2>7 DEF HTTPSoFar
<1>14. CASE h.over = "no" /\ ~Good(t, peer, m)
    <2>1. /\ d.failed # <<>> \/ (d.over = "outage" /\ d.failed = h.failed)
          /\ d.over = "break" => d.failed # <<>>
          /\ \/ d.exercised = h.exercised /\ (d.initialized <=> h.initialized)
             \/ /\ peer.answers[m] = "ok" /\ m = "initialize"
                /\ d.exercised = A /\ d.initialized
          /\ peer.answers[m] = "status" => d.over = "no"
        BY <1>14 DEF HTTPTurn
    <2>2. ~AllGood(i) BY <1>7, <1>14
    <2>3. d.over = "no" => d.failed # <<>> BY <2>1
    <2>4. Began(d.exercised) => d.initialized = TRUE
        <3>1. d.initialized \in BOOLEAN /\ h.initialized \in BOOLEAN BY DEF HTTPStates
        <3> HIDE DEF Began
        <3> QED BY <1>9, <1>11, <2>1, <3>1
    <2>5. AllStatus(i) => d.over = "no" /\ d.exercised = <<>> BY <1>8, <1>11, <2>1
    <2> HIDE DEF A, n
    <2> QED BY <2>1, <2>2, <2>3, <2>4, <2>5 DEF HTTPSoFar
<1> QED BY <1>12, <1>13, <1>14

(* So it is at the end of the handshake.                                   *)
LEMMA HTTPOutcome ==
    ASSUME NEW t, NEW peer \in Peer, NEW M \in Seq(Methods), NEW H, H = HTTPRun(t, peer, M)
    PROVE  /\ H \in HTTPStates
           /\ HTTPSoFar(t, peer, M, Len(M), H)
           /\ H.over = "no" /\ H.failed = <<>> => H.exercised = M
<1> DEFINE n == Len(M)
<1>1. n \in Nat /\ \A i \in 1 .. n : M[i] \in Methods BY LenProperties, ElementOfSeq
<1>0. PICK f : HTTPPath(t, peer, M, f) BY HTTPLoop
<1>2. /\ f \in [0 .. n -> HTTPStates]
      /\ f[0] = HTTPStart /\ HTTPRun(t, peer, M) = f[n]
      /\ \A i \in 1 .. n : f[i] = HTTPStep(t, peer, f[i - 1], M[i])
    BY <1>0 DEF HTTPPath
<1> DEFINE G == {i \in 0 .. n : HTTPSoFar(t, peer, M, i, f[i])}
<1>3. 0 \in G
    <2>1. /\ f[0].exercised = <<>> /\ f[0].failed = <<>> /\ f[0].over = "no" BY <1>2 DEF HTTPStart
    <2>2. 0 \in 0 .. n BY <1>1
    <2> HIDE DEF n
    <2> QED BY <2>1, <2>2 DEF HTTPSoFar
<1>4. ASSUME NEW i \in 1 .. n, i - 1 \in G PROVE i \in G
    <2> DEFINE o == i - 1
    <2>1. i \in 0 .. n /\ o \in 0 .. n /\ o = i - 1 BY <1>1
    <2>2. HTTPSoFar(t, peer, M, o, f[o]) BY <1>4
    <2>3. f[i] = HTTPStep(t, peer, f[o], M[i]) /\ M[i] \in Methods BY <1>1, <1>2
    <2> HIDE DEF o
    <2>4. f[o] \in HTTPStates /\ f[i] \in HTTPStates BY <1>2, <2>1
    <2>5. HTTPTurn(t, peer, f[o], M[i], f[i]) BY <2>3, <2>4, HTTPStepIs
    <2>6. HTTPSoFar(t, peer, M, i, f[i]) BY <2>1, <2>2, <2>4, <2>5, HTTPGoesOn
    <2> QED BY <2>1, <2>6
<1>5. n \in G
    <2> HIDE DEF G, n
    <2>1. \A i \in 0 .. n : i \in G BY <1>1, <1>3, <1>4, UpTo, Zenon
    <2>2. n \in 0 .. n BY <1>1
    <2> QED BY <2>1, <2>2
<1>6. H \in HTTPStates /\ HTTPSoFar(t, peer, M, n, H)
    <2>1. n \in 0 .. n BY <1>1
    <2> QED BY <1>2, <1>5, <2>1
<1>7. ASSUME H.over = "no", H.failed = <<>> PROVE H.exercised = M
    <2> DEFINE E == H.exercised
    <2>1. E \in Seq(Methods) BY <1>6 DEF HTTPStates
    <2>2. Len(E) = n /\ \A k \in 1 .. n : E[k] = M[k] BY <1>6, <1>7 DEF HTTPSoFar
    <2> HIDE DEF E, n
    <2>3. E = M BY <2>1, <2>2, SeqEqual DEF n
    <2> QED BY <2>3 DEF E
<1> QED BY <1>6, <1>7

(* The states of the loop of a handshake over stdio, its start, and what a *)
(* method has to come back with.                                           *)
StdioStates == [exercised : Seq(Methods), failed : {"none", "protocol", "timeout"}]

(* Where the loop of a stdio handshake begins.                             *)
StdioStart == [exercised |-> <<>>, failed |-> "none"]

(* That loop over the methods M.                                           *)
StdioRun(t, peer, M) == Loop(LAMBDA done, m : StdioStep(t, peer, done, m), StdioStart, M)

(* The peer does all that a method asks of it over stdio.                  *)
StdioGood(t, peer, m) ==
    /\ peer.answers[m] = "ok"
    /\ m = "initialize" /\ t.protocol = "mcp" => ValidInitialize(peer.init)

(* A turn asks the next method only of a handshake that has not failed.    *)
LEMMA StdioStepIs ==
    ASSUME NEW t, NEW peer \in Peer, NEW h \in StdioStates, NEW m \in Methods,
           NEW d, d = StdioStep(t, peer, h, m)
    PROVE  /\ d \in StdioStates
           /\ d.failed = "none" =>
                 h.failed = "none" /\ StdioGood(t, peer, m) /\ d.exercised = Append(h.exercised, m)
<1> DEFINE a == peer.answers[m]
           bad == m = "initialize" /\ t.protocol = "mcp" /\ ~ValidInitialize(peer.init)
<1>1. a \in {"ok", "down", "status", "garbage", "rejected"} BY DEF Peer
<1>2. h.exercised \in Seq(Methods) /\ h.failed \in {"none", "protocol", "timeout"} BY DEF StdioStates
<1>3. Append(h.exercised, m) \in Seq(Methods)
    <2> HIDE DEF Methods
    <2> QED BY <1>2, AppendProperties
<1>4. CASE h.failed # "none"
    <2>1. d = h BY <1>4 DEF StdioStep
    <2> QED BY <1>4, <2>1
<1>5. CASE h.failed = "none" /\ (a \in {"down", "status", "rejected"} \/ (a = "ok" /\ bad))
    <2>1. d = [h EXCEPT !.failed = "protocol"] BY <1>5 DEF StdioStep
    <2> QED BY <1>2, <2>1 DEF StdioStates
<1>6. CASE h.failed = "none" /\ a = "garbage"
    <2>1. d = [h EXCEPT !.failed = "timeout"] BY <1>6 DEF StdioStep
    <2> QED BY <1>2, <2>1 DEF StdioStates
<1>7. CASE h.failed = "none" /\ a = "ok" /\ ~bad
    <2>1. d = [h EXCEPT !.exercised = Append(@, m)] BY <1>7 DEF StdioStep
    <2>2. StdioGood(t, peer, m) BY <1>7 DEF StdioGood
    <2> QED BY <1>2, <1>3, <1>7, <2>1, <2>2 DEF StdioStates
<1> QED BY <1>1, <1>4, <1>5, <1>6, <1>7

(* The states f that the loop of a handshake over stdio goes through.      *)
StdioPath(t, peer, s, f) ==
    /\ f \in [0 .. Len(s) -> StdioStates]
    /\ f[0] = StdioStart /\ StdioRun(t, peer, s) = f[Len(s)]
    /\ \A i \in 1 .. Len(s) : f[i] = StdioStep(t, peer, f[i - 1], s[i])

(* There are such states.                                                  *)
LEMMA StdioLoop ==
    ASSUME NEW t, NEW peer \in Peer, NEW s \in Seq(Methods)
    PROVE  \E f : StdioPath(t, peer, s, f)
<1> DEFINE n == Len(s)
           next == [p \in (1 .. n) \X StdioStates |-> StdioStep(t, peer, p[2], s[p[1]])]
           Eq(f) == f = [i \in 0 .. n |-> IF i = 0 THEN StdioStart ELSE StdioStep(t, peer, f[i - 1], s[i])]
           g == CHOOSE f : Eq(f)
<1>1. n \in Nat /\ \A i \in 1 .. n : s[i] \in Methods BY LenProperties, ElementOfSeq
<1>2. \A h \in StdioStates : \A m \in Methods : StdioStep(t, peer, h, m) \in StdioStates
    <2> HIDE DEF StdioStates, StdioStep
    <2> QED BY StdioStepIs
<1>3. StdioStart \in StdioStates
    <2> DEFINE A == Seq(Methods)
    <2>1. <<>> \in A OBVIOUS
    <2> HIDE DEF A
    <2>2. StdioStart \in [exercised : A, failed : {"none", "protocol", "timeout"}] BY <2>1 DEF StdioStart
    <2> QED BY <2>2 DEF StdioStates, A
<1> HIDE DEF n
<1>4. next \in [(1 .. n) \X StdioStates -> StdioStates] BY <1>1, <1>2
<1>5. \A i \in 1 .. n : \A q \in StdioStates : next[<<i, q>>] = StdioStep(t, peer, q, s[i]) OBVIOUS
<1> HIDE DEF next
<1>6. PICK f \in [0 .. n -> StdioStates] : Solves(f, StdioStart, n, next)
    BY <1>1, <1>3, <1>4, LoopExists
<1>7. 0 \in 0 .. n /\ \A i \in 1 .. n : i \in 0 .. n /\ i # 0 /\ i - 1 \in 0 .. n BY <1>1
<1>8. \A i \in 0 .. n : i # 0 => i \in 1 .. n BY <1>1
<1>9. Eq(f)
    <2>1. f[0] = StdioStart /\ \A i \in 1 .. n : f[i] = StdioStep(t, peer, f[i - 1], s[i])
        BY <1>5, <1>6, <1>7 DEF Solves
    <2> QED BY <1>8, <2>1
<1>10. Eq(g) BY <1>9, Zenon
<1>11. StdioRun(t, peer, s) = g[n] BY Zenon DEF StdioRun, Loop, n
<1> HIDE DEF g
<1>12. /\ g = [i \in 0 .. n |-> g[i]] /\ g[0] = StdioStart
       /\ \A i \in 1 .. n : g[i] = StdioStep(t, peer, g[i - 1], s[i])
    BY <1>7, <1>10
<1> HIDE DEF Eq
<1>13. \A i \in 0 .. n : g[i] \in StdioStates
    <2> DEFINE G == {i \in 0 .. n : g[i] \in StdioStates}
    <2>1. 0 \in G BY <1>3, <1>7, <1>12
    <2>2. ASSUME NEW i \in 1 .. n, i - 1 \in G PROVE i \in G
        <3>1. g[i - 1] \in StdioStates /\ s[i] \in Methods BY <1>1, <2>2
        <3> QED BY <1>2, <1>7, <1>12, <3>1
    <2> HIDE DEF G
    <2>3. \A i \in 0 .. n : i \in G BY <1>1, <2>1, <2>2, UpTo, Zenon
    <2> QED BY <2>3 DEF G
<1>14. g \in [0 .. n -> StdioStates] BY <1>12, <1>13
<1> QED BY <1>11, <1>12, <1>14 DEF n, StdioPath

(* A handshake over stdio that did not fail had every method answered.     *)
LEMMA StdioOutcome ==
    ASSUME NEW t, NEW peer \in Peer, NEW M \in Seq(Methods), NEW H, H = StdioRun(t, peer, M),
           H.failed = "none"
    PROVE  H.exercised = M /\ \A i \in 1 .. Len(M) : StdioGood(t, peer, M[i])
<1> DEFINE n == Len(M)
<1>1. n \in Nat /\ \A i \in 1 .. n : M[i] \in Methods BY LenProperties, ElementOfSeq
<1>2. PICK f : StdioPath(t, peer, M, f) BY StdioLoop
<1>3. /\ f \in [0 .. n -> StdioStates]
      /\ f[0] = StdioStart /\ StdioRun(t, peer, M) = f[n]
      /\ \A i \in 1 .. n : f[i] = StdioStep(t, peer, f[i - 1], M[i])
    BY <1>2 DEF StdioPath
<1> HIDE DEF n
<1> DEFINE Fine(i) == f[i].failed = "none" =>
                          /\ Len(f[i].exercised) = i
                          /\ \A k \in 1 .. i : f[i].exercised[k] = M[k] /\ StdioGood(t, peer, M[k])
           G == {i \in 0 .. n : Fine(i)}
<1>4. 0 \in G
    <2>1. f[0].exercised = <<>> BY <1>3 DEF StdioStart
    <2>2. 0 \in 0 .. n BY <1>1
    <2> QED BY <2>1, <2>2
<1>5. ASSUME NEW i \in 1 .. n, i - 1 \in G PROVE i \in G
    <2> DEFINE o == i - 1
               h == f[o]
               m == M[i]
               A == Append(h.exercised, m)
    <2>1. i \in 0 .. n /\ o \in 0 .. n /\ o \in Nat /\ o + 1 = i /\ i \in Nat BY <1>1
    <2>2. f[i] = StdioStep(t, peer, h, m) /\ m \in Methods /\ Fine(o) BY <1>1, <1>3, <1>5
    <2> HIDE DEF o
    <2>3. h \in StdioStates BY <1>3, <2>1
    <2>4. f[i].failed = "none" => h.failed = "none" /\ StdioGood(t, peer, m) /\ f[i].exercised = A
        <3> HIDE DEF h, m
        <3> QED BY <2>2, <2>3, StdioStepIs
    <2>5. ASSUME f[i].failed = "none"
          PROVE  Len(A) = i /\ \A k \in 1 .. i : A[k] = M[k] /\ StdioGood(t, peer, M[k])
        <3>1. Len(h.exercised) = o /\ \A k \in 1 .. o : h.exercised[k] = M[k] /\ StdioGood(t, peer, M[k])
            BY <2>2, <2>4, <2>5
        <3>2. h.exercised \in Seq(Methods) BY <2>3 DEF StdioStates
        <3>3. Len(A) = o + 1 /\ A[o + 1] = m /\ \A k \in 1 .. o : A[k] = h.exercised[k]
            <4> DEFINE E == h.exercised
            <4>1. E \in Seq(Methods) /\ Len(E) = o BY <3>1, <3>2
            <4> HIDE DEF E, m
            <4>2. /\ Len(Append(E, m)) = Len(E) + 1 /\ Append(E, m)[Len(E) + 1] = m
                  /\ \A k \in 1 .. Len(E) : Append(E, m)[k] = E[k]
                BY <2>2, <4>1, AppendProperties
            <4> QED BY <4>1, <4>2 DEF E
        <3>4. \A k \in 1 .. i : k \in 1 .. o \/ k = i BY <2>1
        <3>5. StdioGood(t, peer, m) BY <2>4, <2>5
        <3> HIDE DEF A, h
        <3> QED BY <2>1, <3>1, <3>3, <3>4, <3>5
    <2>6. Fine(i)
        <3> HIDE DEF A, h
        <3> QED BY <2>4, <2>5
    <2> HIDE DEF Fine
    <2> QED BY <2>1, <2>6
<1>6. n \in G
    <2> HIDE DEF G
    <2>1. \A i \in 0 .. n : i \in G BY <1>1, <1>4, <1>5, UpTo, Zenon
    <2>2. n \in 0 .. n BY <1>1
    <2> QED BY <2>1, <2>2
<1> DEFINE E == H.exercised
<1>7. E \in Seq(Methods) /\ H = f[n]
    <2>1. n \in 0 .. n BY <1>1
    <2>2. f[n] \in StdioStates BY <1>3, <2>1
    <2> QED BY <1>3, <2>2 DEF StdioStates
<1>8. Len(E) = n /\ \A k \in 1 .. n : E[k] = M[k] /\ StdioGood(t, peer, M[k]) BY <1>6, <1>7
<1> HIDE DEF E
<1>9. E = M BY <1>7, <1>8, SeqEqual DEF n
<1> QED BY <1>8, <1>9 DEF E, n

(* What is missing of what a target declares, and the verdict, from the    *)
(* state h an HTTP handshake ended in.                                     *)
Missing(t, peer, h) ==
    IF h.initialized /\ peer.init.caps = "map" THEN CapabilityGap(t.declared, peer.advertised)
    ELSE t.declared

(* What follows the loop of an HTTP handshake.                             *)
HTTPVerdict(t, peer, h) ==
    CASE h.over = "outage" -> Outage
      [] h.over # "outage" /\ h.exercised = <<>> -> Result("unhealthy", "protocol", <<>>)
      [] h.over # "outage" /\ h.exercised # <<>> /\ (h.failed # <<>> \/ Missing(t, peer, h) # {}) ->
            Result("degraded", "protocol", h.exercised)
      [] OTHER -> Result("healthy", "none", h.exercised)

(* That is what probeJSONRPCHandshakeHTTP returns.                         *)
LEMMA HTTPHandshakeIs ==
    ASSUME NEW t, NEW peer
    PROVE  HTTPHandshake(t, peer) = HTTPVerdict(t, peer, HTTPRun(t, peer, HandshakeMethods(t)))
BY Zenon DEF HTTPHandshake, HTTPVerdict, Missing, HTTPRun, HTTPStart

(* How a verdict hangs on where the loop ended.                            *)
VerdictTells(r, h, gap) ==
    /\ r.state = "healthy" =>
          h.over # "outage" /\ h.exercised # <<>> /\ h.failed = <<>> /\ gap = {}
    /\ h.over # "outage" /\ h.exercised # <<>> /\ h.failed = <<>> /\ gap = {} =>
          r.state = "healthy"
    /\ r.state = "degraded" =>
          h.over # "outage" /\ h.exercised # <<>> /\ (h.failed # <<>> \/ gap # {})
    /\ r.state \in {"healthy", "degraded"} => r.exercised = h.exercised

(* What probeJSONRPCHandshakeHTTP answers hangs on the loop that way.      *)
LEMMA HTTPVerdictIs ==
    ASSUME NEW t, NEW peer, NEW h \in HTTPStates, NEW r, r = HTTPVerdict(t, peer, h)
    PROVE  VerdictTells(r, h, Missing(t, peer, h))
<1> DEFINE gap == Missing(t, peer, h)
<1>1. CASE h.over = "outage"
    <2>1. r = Outage BY <1>1 DEF HTTPVerdict
    <2> QED BY <1>1, <2>1 DEF Outage, VerdictTells
<1>2. CASE h.over # "outage" /\ h.exercised = <<>>
    <2>1. r = Result("unhealthy", "protocol", <<>>) BY <1>2 DEF HTTPVerdict
    <2> QED BY <1>2, <2>1 DEF Result, VerdictTells
<1>3. CASE h.over # "outage" /\ h.exercised # <<>> /\ (h.failed # <<>> \/ gap # {})
    <2>1. r = Result("degraded", "protocol", h.exercised) BY <1>3 DEF HTTPVerdict
    <2> QED BY <1>3, <2>1 DEF Result, VerdictTells
<1>4. CASE h.over # "outage" /\ h.exercised # <<>> /\ h.failed = <<>> /\ gap = {}
    <2>1. r = Result("healthy", "none", h.exercised) BY <1>4 DEF HTTPVerdict
    <2> QED BY <1>4, <2>1 DEF Result, VerdictTells
<1> HIDE DEF gap
<1>5. \/ h.over = "outage"
      \/ h.over # "outage" /\ h.exercised = <<>>
      \/ h.over # "outage" /\ h.exercised # <<>> /\ (h.failed # <<>> \/ gap # {})
      \/ h.over # "outage" /\ h.exercised # <<>> /\ h.failed = <<>> /\ gap = {}
    OBVIOUS
<1> QED BY <1>1, <1>2, <1>3, <1>4, <1>5

(* What a healthy answer of the handshake says of its run h.               *)
StdioTells(t, peer, r, h) ==
    r.state = "healthy" => /\ peer.starts = TRUE /\ HandshakeMethods(t) # <<>>
                           /\ h.failed = "none" /\ r.exercised = h.exercised

(* The verdict over stdio.                                                 *)
LEMMA StdioHandshakeIs ==
    ASSUME NEW t, NEW peer \in Peer, NEW r, r = StdioHandshake(t, peer),
           NEW h, h = StdioRun(t, peer, HandshakeMethods(t))
    PROVE  r.state \in {"healthy", "unhealthy"} /\ StdioTells(t, peer, r, h)
<1>1. r = IF ~peer.starts THEN Result("unhealthy", "config", <<>>)
          ELSE IF HandshakeMethods(t) = <<>> THEN Result("unhealthy", "protocol", <<>>)
          ELSE Result(IF h.failed = "none" THEN "healthy" ELSE "unhealthy", h.failed, h.exercised)
    BY Zenon DEF StdioHandshake, StdioRun, StdioStart
<1>5. peer.starts \in BOOLEAN BY DEF Peer
<1>6. CASE peer.starts = FALSE
    <2>1. r = Result("unhealthy", "config", <<>>) BY <1>1, <1>6
    <2> QED BY <2>1 DEF Result, StdioTells
<1>2. CASE peer.starts = TRUE /\ HandshakeMethods(t) = <<>>
    <2>1. r = Result("unhealthy", "protocol", <<>>) BY <1>1, <1>2
    <2> QED BY <2>1 DEF Result, StdioTells
<1>3. CASE peer.starts = TRUE /\ HandshakeMethods(t) # <<>> /\ h.failed = "none"
    <2>1. r = Result("healthy", h.failed, h.exercised) BY <1>1, <1>3
    <2> QED BY <1>3, <2>1 DEF Result, StdioTells
<1>4. CASE peer.starts = TRUE /\ HandshakeMethods(t) # <<>> /\ h.failed # "none"
    <2>1. r = Result("unhealthy", h.failed, h.exercised) BY <1>1, <1>4
    <2> QED BY <2>1 DEF Result, StdioTells
<1> QED BY <1>2, <1>3, <1>4, <1>5, <1>6

(* A target as ApplyDefaults leaves it: the profile is set, and the rest   *)
(* is what the file says or initialize.                                    *)
Defaulted(c, t) ==
    /\ t.protocol = c.protocol /\ t.transport = c.transport /\ t.scheme = c.scheme
    /\ t.declared = c.declared /\ t.codes = c.codes
    /\ t.profile \in {"none", "base", "strict"} /\ t.required \in Seq(Methods \cup {Blank})
    /\ c.profile # Blank => t.profile = c.profile
    /\ c.protocol \in {"mcp", "acp"} =>
          /\ c.profile = Blank => t.profile = "base"
          /\ c.required = <<>> => t.required = <<"initialize">>
    /\ c.required # <<>> => t.required = c.required

(* ApplyDefaults leaves every target like that.                            *)
LEMMA DefaultsChecked ==
    ASSUME NEW c, c.required \in Seq(Methods \cup {Blank}), c.profile \in HandshakeProfiles,
           NEW P, NEW T, NEW S, NEW D, NEW C, NEW R,
           c \in [protocol : P, transport : T, scheme : S, profile : HandshakeProfiles, required : R,
                  declared : D, codes : C],
           NEW t, t = CheckDefaults(c)
    PROVE  Defaulted(c, t)
<1> DEFINE p == IF c.profile = Blank THEN IF c.protocol \in {"mcp", "acp"} THEN "base" ELSE "none"
                ELSE c.profile
           q == IF c.required = <<>> /\ c.protocol \in {"mcp", "acp"} THEN <<"initialize">> ELSE c.required
           one == <<"initialize">>
<1>1. t = [c EXCEPT !.profile = p, !.required = q] BY Zenon DEF CheckDefaults
<1>2. /\ p \in {"none", "base", "strict"} /\ (c.profile # Blank => p = c.profile)
      /\ c.protocol \in {"mcp", "acp"} /\ c.profile = Blank => p = "base"
    BY DEF HandshakeProfiles
<1>5. /\ c.protocol \in {"mcp", "acp"} /\ c.required = <<>> => q = one
      /\ c.required # <<>> => q = c.required
    OBVIOUS
<1>3. q \in Seq(Methods \cup {Blank})
    <2>1. one \in Seq(Methods \cup {Blank})
        <3>1. "initialize" \in Methods \cup {Blank} BY DEF Methods
        <3> HIDE DEF Methods
        <3> QED BY <3>1
    <2> HIDE DEF Methods, one
    <2>2. q \in {one, c.required} BY DEF one
    <2> QED BY <2>1, <2>2
<1> HIDE DEF p, q
<1>4. /\ t.protocol = c.protocol /\ t.transport = c.transport /\ t.scheme = c.scheme
      /\ t.declared = c.declared /\ t.codes = c.codes
      /\ t.profile = p /\ t.required = q
    BY <1>1
<1> QED BY <1>2, <1>3, <1>4, <1>5 DEF Defaulted

(* Every handshake asks methods, and never a blank one.                    *)
LEMMA MethodsAsked ==
    ASSUME NEW t, t.required \in Seq(Methods \cup {Blank})
    PROVE  HandshakeMethods(t) \in Seq(Methods)
<1> DEFINE a == <<"initialize">>
           b == StrictMethods(t.protocol, t.transport)
<1>1. a \in Seq(Methods) /\ b \in Seq(Methods)
    <2>1. /\ "initialize" \in Methods /\ "session/setup" \in Methods /\ "prompt/turn" \in Methods
          /\ "ping" \in Methods /\ "tools/list" \in Methods /\ "resources/list" \in Methods
        BY DEF Methods
    <2>2. b \in {<<"initialize", "session/setup", "prompt/turn">>, <<"initialize", "ping">>,
                 <<"initialize", "tools/list", "resources/list">>}
        BY DEF StrictMethods
    <2> DEFINE x == <<"initialize", "session/setup", "prompt/turn">>
               y == <<"initialize", "ping">>
               z == <<"initialize", "tools/list", "resources/list">>
    <2> HIDE DEF Methods
    <2>3. a \in Seq(Methods) /\ x \in Seq(Methods) /\ y \in Seq(Methods) /\ z \in Seq(Methods) BY <2>1
    <2> HIDE DEF a, b, x, y, z
    <2> QED BY <2>2, <2>3 DEF x, y, z
<1>2. NormalizeMethods(t.required) \in Seq(Methods) BY MethodsNormal
<1> HIDE DEF a, b, Methods
<1>3. HandshakeMethods(t) \in {NormalizeMethods(t.required), a, b} BY DEF HandshakeMethods, a, b
<1> QED BY <1>1, <1>2, <1>3

(* What a handshake over HTTP says of the peer.                            *)
HTTPTells(t, peer, r) ==
    /\ r.state = "healthy" =>
          /\ r.exercised = HandshakeMethods(t) /\ r.exercised # <<>>
          /\ \A i \in 1 .. Len(HandshakeMethods(t)) : Good(t, peer, HandshakeMethods(t)[i])
          /\ \A f \in t.declared : peer.advertised[f] = "present"
    /\ r.state = "degraded" =>
          /\ r.exercised # <<>>
          /\ \/ \E i \in 1 .. Len(HandshakeMethods(t)) : ~Good(t, peer, HandshakeMethods(t)[i])
             \/ ~ValidInitialize(peer.init)
             \/ \E f \in t.declared : peer.advertised[f] # "present"
             \/ t.declared # {} /\ ~\E i \in 1 .. Len(r.exercised) : r.exercised[i] = "initialize"

(* That is so for any peer and any methods.                                *)
LEMMA HTTPAlwaysTells ==
    ASSUME NEW t, NEW peer \in Peer, HandshakeMethods(t) \in Seq(Methods),
           NEW r, r = HTTPHandshake(t, peer)
    PROVE  HTTPTells(t, peer, r)
<1> DEFINE M == HandshakeMethods(t)
           h == HTTPRun(t, peer, M)
           gap == Missing(t, peer, h)
<1>1. r = HTTPVerdict(t, peer, h) BY HTTPHandshakeIs
<1>2. M \in Seq(Methods) OBVIOUS
<1>3. h = HTTPRun(t, peer, M) OBVIOUS
<1> HIDE DEF h, M
<1>4. /\ h \in HTTPStates /\ HTTPSoFar(t, peer, M, Len(M), h)
      /\ h.over = "no" /\ h.failed = <<>> => h.exercised = M
    BY <1>2, <1>3, HTTPOutcome
<1>5. VerdictTells(r, h, gap) BY <1>1, <1>4, HTTPVerdictIs
<1>6. gap = IF h.initialized /\ peer.init.caps = "map" THEN {f \in t.declared : peer.advertised[f] # "present"}
            ELSE t.declared
    BY DEF Missing, CapabilityGap
<1> HIDE DEF gap
<1>7. h.over \in {"no", "break", "outage"} /\ h.initialized \in BOOLEAN BY <1>4 DEF HTTPStates
<1>8. ASSUME r.state = "healthy"
      PROVE  /\ r.exercised = M /\ r.exercised # <<>>
             /\ \A i \in 1 .. Len(M) : Good(t, peer, M[i])
             /\ \A f \in t.declared : peer.advertised[f] = "present"
    <2>1. h.over # "outage" /\ h.exercised # <<>> /\ h.failed = <<>> /\ gap = {} /\ r.exercised = h.exercised
        BY <1>5, <1>8 DEF VerdictTells
    <2>2. h.over = "no" BY <1>4, <1>7, <2>1 DEF HTTPSoFar
    <2>3. \A i \in 1 .. Len(M) : Good(t, peer, M[i]) BY <1>4, <2>1, <2>2 DEF HTTPSoFar
    <2>4. \A f \in t.declared : peer.advertised[f] = "present" BY <1>6, <2>1
    <2> QED BY <1>4, <2>1, <2>2, <2>3, <2>4
<1>9. ASSUME r.state = "degraded"
      PROVE  /\ r.exercised # <<>>
             /\ \/ \E i \in 1 .. Len(M) : ~Good(t, peer, M[i])
                \/ ~ValidInitialize(peer.init)
                \/ \E f \in t.declared : peer.advertised[f] # "present"
                \/ t.declared # {} /\ ~\E i \in 1 .. Len(r.exercised) : r.exercised[i] = "initialize"
    <2>1. h.exercised # <<>> /\ (h.failed # <<>> \/ gap # {}) /\ r.exercised = h.exercised
        BY <1>5, <1>9 DEF VerdictTells
    <2>2. CASE h.failed # <<>>
        <3>1. \E i \in 1 .. Len(M) : ~Good(t, peer, M[i]) BY <1>4, <2>2 DEF HTTPSoFar
        <3> QED BY <2>1, <3>1
    <2>3. CASE gap # {} /\ h.initialized = TRUE /\ peer.init.caps = "map"
        <3>1. \E f \in t.declared : peer.advertised[f] # "present" BY <1>6, <2>3
        <3> QED BY <2>1, <3>1
    <2>4. CASE gap # {} /\ h.initialized = TRUE /\ peer.init.caps # "map"
        <3>1. ~ValidInitialize(peer.init) BY <2>4 DEF ValidInitialize
        <3> QED BY <2>1, <3>1
    <2>5. CASE gap # {} /\ h.initialized = FALSE
        <3>1. t.declared # {} BY <1>6, <2>5
        <3>2. ~\E i \in 1 .. Len(h.exercised) : h.exercised[i] = "initialize" BY <1>4, <2>5 DEF HTTPSoFar
        <3> QED BY <2>1, <3>1, <3>2
    <2> QED BY <1>7, <2>1, <2>2, <2>3, <2>4, <2>5
<1> QED BY <1>8, <1>9 DEF HTTPTells, M

(* Every method of a list is in its range, and the other way round.        *)
LEMMA RangeIs ==
    ASSUME NEW s \in Seq(Methods)
    PROVE  /\ \A m \in Range(s) : \E i \in 1 .. Len(s) : s[i] = m
           /\ \A i \in 1 .. Len(s) : s[i] \in Range(s)
<1>1. DOMAIN s = 1 .. Len(s) BY LenProperties
<1> QED BY <1>1 DEF Range

(* What a probe makes of a handshake.                                      *)
LEMMA ProbeIs ==
    ASSUME NEW t, NEW peer, NEW page, NEW r, r = StdioProbe(t, peer, page)
    PROVE  /\ t.transport # "stdio" /\ t.scheme = "http" /\ ShouldRunHTTPHandshake(t) =>
                  r = HTTPHandshake(t, peer)
           /\ t.transport # "stdio" /\ t.scheme = "http" /\ ~ShouldRunHTTPHandshake(t) =>
                  r = SimpleProbe(t, page)
           /\ t.transport # "stdio" /\ t.scheme # "http" => r.state \in {"healthy", "error"}
           /\ t.transport = "stdio" /\ t.profile # "none" => r = StdioHandshake(t, peer)
           /\ t.transport = "stdio" /\ t.profile = "none" => r = Result("healthy", "none", <<>>)
<1>1. CASE t.transport # "stdio"
    <2>1. r = HTTPProbe(t, peer, page) BY <1>1 DEF StdioProbe
    <2>2. CASE t.scheme = "http"
        BY <1>1, <2>1, <2>2 DEF HTTPProbe
    <2>3. CASE t.scheme # "http"
        <3>1. r \in {Outage, Result("healthy", "none", <<>>), Result("error", "unknown", <<>>)}
            BY <2>1, <2>3 DEF HTTPProbe
        <3>2. r.state \in {"healthy", "error"} BY <3>1 DEF Outage, Result
        <3> QED BY <1>1, <2>3, <3>2
    <2> QED BY <2>2, <2>3
<1>2. CASE t.transport = "stdio" BY <1>2 DEF StdioProbe
<1> QED BY <1>1, <1>2

(* The page of a target without a handshake is never half good.            *)
LEMMA PageNeverDegraded ==
    ASSUME NEW t, NEW page PROVE SimpleProbe(t, page).state \in {"healthy", "unhealthy", "error"}
BY DEF SimpleProbe, Outage, Result

(* Healthy and degraded mean what they say, of any target and any peer.    *)
LEMMA HandshakeTells ==
    ASSUME RulesTold, topic = "handshake", out # <<>>
    PROVE  HealthyMeansAnswered /\ DegradedIsPartial
<1> DEFINE c == in.check
           peer == in.peer
           t == CheckDefaults(c)
           M == HandshakeMethods(t)
           r == Answer
<1>1. c \in Checks /\ peer \in Peers /\ r = StdioProbe(t, peer, GoodPage)
    <2>1. in \in [check : Checks, peer : Peers] /\ out = <<StdioProbe(t, peer, GoodPage)>>
        BY DEF RulesTold, ProbeTold, Told
    <2> QED BY <2>1 DEF Answer
<1>2. peer \in Peer BY <1>1, PeersAssumption
<1>3. Defaulted(c, t)
    <2>1. c.required \in Seq(Methods \cup {Blank}) /\ c.profile \in HandshakeProfiles
        BY <1>1, MethodsAssumption DEF Checks
    <2> DEFINE P == {"mcp", "acp", "http"}
               T == {"http", "websocket", "stdio"}
               S == {"http", "ws", "other"}
               D == {{}, {"tools"}}
               C == {{200}}
    <2>2. c \in [protocol : P, transport : T, scheme : S, profile : HandshakeProfiles, required : MethodLists,
                 declared : D, codes : C]
        BY <1>1 DEF Checks
    <2>3. t = CheckDefaults(c) OBVIOUS
    <2> HIDE DEF c, t, P, T, S, D, C
    <2> QED BY <2>1, <2>2, <2>3, DefaultsChecked
<1>4. t.declared = c.declared BY <1>3 DEF Defaulted
<1>5. M \in Seq(Methods)
    <2> HIDE DEF t
    <2>1. t.required \in Seq(Methods \cup {Blank}) BY <1>3 DEF Defaulted
    <2> QED BY <2>1, MethodsAsked
<1>6. /\ \A m \in Range(M) : \E i \in 1 .. Len(M) : M[i] = m
      /\ \A i \in 1 .. Len(M) : M[i] \in Range(M)
    <2> HIDE DEF M
    <2> QED BY <1>5, RangeIs
<1>7. /\ t.transport # "stdio" /\ t.scheme = "http" /\ ShouldRunHTTPHandshake(t) =>
             r = HTTPHandshake(t, peer)
      /\ t.transport # "stdio" /\ t.scheme = "http" /\ ~ShouldRunHTTPHandshake(t) =>
             r = SimpleProbe(t, GoodPage)
      /\ t.transport # "stdio" /\ t.scheme # "http" => r.state \in {"healthy", "error"}
      /\ t.transport = "stdio" /\ t.profile # "none" => r = StdioHandshake(t, peer)
      /\ t.transport = "stdio" /\ t.profile = "none" => r = Result("healthy", "none", <<>>)
    <2> HIDE DEF t, r, peer
    <2> QED BY <1>1, ProbeIs
<1>8. r = HTTPHandshake(t, peer) => HTTPTells(t, peer, r)
    <2> HIDE DEF t, r, peer
    <2> QED BY <1>2, <1>5, HTTPAlwaysTells DEF M
<1>9. ASSUME r.state = "healthy", t.transport # "stdio", t.scheme = "http", ShouldRunHTTPHandshake(t)
      PROVE  /\ r.exercised = M /\ M # <<>>
             /\ \A i \in 1 .. Len(M) : Good(t, peer, M[i])
             /\ \A f \in t.declared : peer.advertised[f] = "present"
    <2> HIDE DEF t, r, peer
    <2> QED BY <1>7, <1>8, <1>9 DEF HTTPTells, M
<1>10. r = StdioHandshake(t, peer) => r.state \in {"healthy", "unhealthy"}
    <2> HIDE DEF t, r, peer
    <2> QED BY <1>2, StdioHandshakeIs
<1>11. ASSUME r.state = "healthy", t.transport = "stdio", t.profile # "none"
       PROVE  /\ r.exercised = M /\ M # <<>> /\ peer.starts = TRUE
              /\ \A i \in 1 .. Len(M) : StdioGood(t, peer, M[i])
    <2> DEFINE h == StdioRun(t, peer, M)
    <2>1. r = StdioHandshake(t, peer) BY <1>7, <1>11
    <2>2. peer.starts = TRUE /\ M # <<>> /\ h.failed = "none" /\ r.exercised = h.exercised
        <3>1. h = StdioRun(t, peer, HandshakeMethods(t)) OBVIOUS
        <3> HIDE DEF t, r, peer, h
        <3>2. StdioTells(t, peer, r, h) BY <1>2, <2>1, <3>1, StdioHandshakeIs
        <3> QED BY <1>11, <3>2 DEF M, StdioTells
    <2>3. h = StdioRun(t, peer, M) OBVIOUS
    <2> HIDE DEF t, r, peer, h, M
    <2>4. h.exercised = M /\ \A i \in 1 .. Len(M) : StdioGood(t, peer, M[i])
        BY <1>2, <1>5, <2>2, <2>3, StdioOutcome
    <2> QED BY <2>2, <2>4
<1>12. HealthyMeansAnswered
    <2> SUFFICES ASSUME r.state = "healthy", HandshakeRuns(t)
                 PROVE  /\ r.exercised = M /\ r.exercised # <<>>
                        /\ \A m \in Range(r.exercised) : peer.answers[m] = "ok"
                        /\ t.protocol = "mcp" /\ Contains(r.exercised, "initialize") =>
                              /\ ValidInitialize(peer.init)
                              /\ t.transport # "stdio" => peer.notified = "ok"
                        /\ IF t.transport = "stdio" THEN peer.starts
                           ELSE \A f \in t.declared : peer.advertised[f] = "present"
        BY Zenon DEF HealthyMeansAnswered
    <2> HIDE DEF t, r, peer, M
    <2>1. CASE t.transport # "stdio"
        <3>1. t.scheme = "http" /\ ShouldRunHTTPHandshake(t) BY <2>1 DEF HandshakeRuns
        <3>2. /\ r.exercised = M /\ M # <<>>
              /\ \A i \in 1 .. Len(M) : Good(t, peer, M[i])
              /\ \A f \in t.declared : peer.advertised[f] = "present"
            BY <1>9, <2>1, <3>1
        <3>3. \A m \in Range(M) : peer.answers[m] = "ok" BY <1>6, <3>2 DEF Good
        <3>4. t.protocol = "mcp" /\ Contains(M, "initialize") =>
                  ValidInitialize(peer.init) /\ peer.notified = "ok"
            BY <3>2 DEF Good, Contains
        <3> QED BY <2>1, <3>2, <3>3, <3>4
    <2>2. CASE t.transport = "stdio"
        <3>1. t.profile # "none"
            BY <2>2 DEF HandshakeRuns
        <3>2. r.exercised = M /\ M # <<>> /\ peer.starts = TRUE /\ \A i \in 1 .. Len(M) : StdioGood(t, peer, M[i])
            BY <1>11, <2>2, <3>1
        <3>3. \A m \in Range(M) : peer.answers[m] = "ok" BY <1>6, <3>2 DEF StdioGood
        <3>4. t.protocol = "mcp" /\ Contains(M, "initialize") => ValidInitialize(peer.init)
            BY <3>2 DEF StdioGood, Contains
        <3> QED BY <2>2, <3>2, <3>3, <3>4
    <2> QED BY <2>1, <2>2
<1>13. DegradedIsPartial
    <2> SUFFICES ASSUME r.state = "degraded"
                 PROVE  /\ r.exercised # <<>>
                        /\ \/ \E m \in Range(M) : peer.answers[m] # "ok"
                           \/ peer.notified # "ok" \/ ~ValidInitialize(peer.init)
                           \/ \E f \in c.declared : peer.advertised[f] # "present"
                           \/ c.declared # {} /\ ~Contains(r.exercised, "initialize")
        BY Zenon DEF DegradedIsPartial
    <2>1. SimpleProbe(t, GoodPage).state \in {"healthy", "unhealthy", "error"} BY PageNeverDegraded
    <2>2. Result("healthy", "none", <<>>).state = "healthy" BY DEF Result
    <2>3. t.declared = c.declared BY <1>4
    <2> HIDE DEF t, r, peer, M, c
    <2>4. t.transport # "stdio" /\ t.scheme = "http" /\ ShouldRunHTTPHandshake(t)
        BY <1>7, <1>10, <2>1, <2>2
    <2>5. HTTPTells(t, peer, r) BY <1>7, <1>8, <2>4
    <2>6. /\ r.exercised # <<>>
          /\ \/ \E i \in 1 .. Len(M) : ~Good(t, peer, M[i])
             \/ ~ValidInitialize(peer.init)
             \/ \E f \in t.declared : peer.advertised[f] # "present"
             \/ t.declared # {} /\ ~\E i \in 1 .. Len(r.exercised) : r.exercised[i] = "initialize"
        BY <2>5 DEF HTTPTells, M
    <2>7. ASSUME NEW i \in 1 .. Len(M), ~Good(t, peer, M[i])
          PROVE  (\E m \in Range(M) : peer.answers[m] # "ok") \/ peer.notified # "ok" \/ ~ValidInitialize(peer.init)
        BY <1>6, <2>7 DEF Good
    <2> QED BY <2>3, <2>6, <2>7 DEF Contains
<1> QED BY <1>12, <1>13

(* Without a handshake the page decides.                                   *)
LEMMA PageTells ==
    ASSUME RulesTold, topic = "page", out # <<>> PROVE PageDecides
<1> DEFINE c == in.check
           t == CheckDefaults(c)
           r == Answer
           peer == Hosted("mcp", TRUE)
<1> SUFFICES ASSUME c.scheme = "http", in.page.code # 0,
                    c.protocol = "http" \/ c.profile = "none" \/ c.transport = "sse"
             PROVE  (r.state = "healthy") <=>
                        /\ StatusMatches(in.page.code, c.codes)
                        /\ ~(c.transport = "sse" /\ in.page.type = "other")
    BY Zenon DEF PageDecides
<1>1. in \in PageInputs /\ r = StdioProbe(t, peer, in.page)
    <2>1. in \in PageInputs /\ out = <<StdioProbe(t, peer, in.page)>>
        BY DEF RulesTold, ProbeTold, Told
    <2> QED BY <2>1 DEF Answer
<1>2. c.transport \in {"http", "sse", "websocket"} /\ c.profile \in {"none", "base"} /\ c.required = <<>>
    BY <1>1 DEF PageInputs
<1>3. Defaulted(c, t)
    <2>1. c.required \in Seq(Methods \cup {Blank}) BY <1>2
    <2>2. c.profile \in HandshakeProfiles BY <1>2 DEF HandshakeProfiles
    <2> DEFINE P == {"mcp", "http"}
               T == {"http", "sse", "websocket"}
               S == {"http", "ws", "other"}
               R == {<<>>}
               D == {{}}
               C == {{}, {101}, {200}, {401, 503}}
    <2>3. c \in [protocol : P, transport : T, scheme : S, profile : HandshakeProfiles, required : R,
                 declared : D, codes : C]
        BY <1>1 DEF PageInputs, HandshakeProfiles
    <2>4. t = CheckDefaults(c) OBVIOUS
    <2> HIDE DEF c, t, P, T, S, D, C, R
    <2> QED BY <2>1, <2>2, <2>3, <2>4, DefaultsChecked
<1>4. c.profile # Blank BY <1>2, BlankIsNoMethod
<1> HIDE DEF t, r, peer
<1>5. t.scheme = c.scheme /\ t.transport = c.transport /\ t.protocol = c.protocol /\ t.profile = c.profile /\ t.codes = c.codes
    BY <1>3, <1>4 DEF Defaulted
<1>6. ~ShouldRunHTTPHandshake(t) BY <1>5 DEF ShouldRunHTTPHandshake
<1>7. r = SimpleProbe(t, in.page)
    <2>1. t.transport # "stdio" /\ t.scheme = "http" BY <1>2, <1>5
    <2> QED BY <1>1, <1>6, <2>1, ProbeIs
<1> DEFINE other == t.transport = "sse" /\ in.page.type = "other"
           match == StatusMatches(in.page.code, t.codes)
<1>8. CASE other
    <2>1. r = Result("unhealthy", "protocol", <<>>) BY <1>7, <1>8 DEF SimpleProbe
    <2> QED BY <1>5, <1>8, <2>1 DEF Result
<1>9. CASE ~other /\ ~match
    <2>1. r = Result("unhealthy", "protocol", <<>>) BY <1>7, <1>9 DEF SimpleProbe
    <2> QED BY <1>5, <1>9, <2>1 DEF Result
<1>10. CASE ~other /\ match
    <2>1. r = Result("healthy", "none", <<>>) BY <1>7, <1>10 DEF SimpleProbe
    <2> QED BY <1>5, <1>10, <2>1 DEF Result
<1> QED BY <1>8, <1>9, <1>10

(* The server the alarm hosts, as a peer.                                  *)
HostedPeer(peer, p, http) ==
    /\ peer \in Peer /\ peer.init = GoodInit
    /\ \A f \in Families : peer.advertised[f] = "present"
    /\ http = FALSE => \A m \in Methods : peer.answers[m] = "status"
    /\ http = TRUE => peer.notified = "ok"
    /\ http = TRUE => \A m \in Methods : peer.answers[m] = DispatchRPC(p, m)

(* The hosted server is such a peer, on either transport.                  *)
LEMMA HostedIs ==
    ASSUME NEW p \in {"mcp", "acp"}, NEW http \in BOOLEAN, NEW peer, peer = Hosted(p, http)
    PROVE  HostedPeer(peer, p, http)
<1> DEFINE A == [m \in Methods |-> IF ~http THEN "status" ELSE DispatchRPC(p, m)]
           V == [f \in Families |-> "present"]
           N == IF http THEN "ok" ELSE "status"
<1>1. peer = [starts |-> TRUE, answers |-> A, notified |-> N, init |-> GoodInit, advertised |-> V] BY DEF Hosted
<1>2. \A m \in Methods : DispatchRPC(p, m) \in {"ok", "rejected"}
    <2> SUFFICES ASSUME NEW m \in Methods PROVE DispatchRPC(p, m) \in {"ok", "rejected"} OBVIOUS
    <2> DEFINE served == CASE m \in {"initialize", "ping"} -> Protocols
                           [] m = "session/setup" -> {"acp"}
                           [] m \in {"tools/list", "resources/list"} -> {"mcp"}
                           [] m = "prompt/turn" -> {"acp", "a2a"}
    <2>1. DispatchRPC(p, m) = IF p \in served THEN "ok" ELSE "rejected" BY Zenon DEF DispatchRPC
    <2> HIDE DEF served
    <2> QED BY <2>1
<1>3. A \in [Methods -> {"ok", "down", "status", "garbage", "rejected"}]
    <2> HIDE DEF Methods, DispatchRPC
    <2> QED BY <1>2
<1>4. V \in Advertisements BY DEF Advertisements
<1>5. GoodInit \in InitResults BY DEF GoodInit, InitResults
<1>6. N \in {"ok", "down", "status"} OBVIOUS
<1>7. /\ http = FALSE => \A m \in Methods : A[m] = "status"
      /\ http = TRUE => \A m \in Methods : A[m] = DispatchRPC(p, m)
    <2> HIDE DEF Methods, DispatchRPC
    <2> QED OBVIOUS
<1>8. \A f \in Families : V[f] = "present" OBVIOUS
<1>9. http = TRUE => N = "ok" OBVIOUS
<1> HIDE DEF A, V, N
<1>10. peer \in Peer BY <1>1, <1>3, <1>4, <1>5, <1>6 DEF Peer
<1>11. peer.answers = A /\ peer.notified = N /\ peer.init = GoodInit /\ peer.advertised = V BY <1>1
<1> QED BY <1>7, <1>8, <1>9, <1>10, <1>11 DEF HostedPeer

(* The alarm passes its own test.                                          *)
LEMMA SelfProbeTells ==
    ASSUME RulesTold, topic = "selfprobe", out # <<>> PROVE SelfProbeAnswered
<1> DEFINE c == in.check
           t == CheckDefaults(c)
           r == Answer
           peer == Hosted(c.protocol, in.http)
           page == HostedPage(c, in.sse)
           M == HandshakeMethods(t)
           X == IF c.protocol = "mcp" THEN {"initialize", "tools/list", "resources/list"}
                ELSE {"initialize", "session/setup", "prompt/turn"}
<1> SUFFICES (r.state = "healthy") <=> IF c.transport = "sse" THEN in.sse ELSE c.profile # "none" /\ in.http
    BY Zenon DEF SelfProbeAnswered
<1>1. in \in SelfProbeInputs /\ r = StdioProbe(t, peer, page)
    <2>1. in \in SelfProbeInputs /\ out = <<StdioProbe(t, peer, page)>>
        BY DEF RulesTold, ProbeTold, Told
    <2> QED BY <2>1 DEF Answer
<1>6. /\ c.protocol \in {"mcp", "acp"} /\ c.transport \in {"http", "sse"} /\ c.scheme = "http"
      /\ c.profile \in HandshakeProfiles /\ c.declared \subseteq Families /\ c.codes = {200}
      /\ in.http \in BOOLEAN /\ in.sse \in BOOLEAN
    BY <1>1 DEF SelfProbeInputs, Families
<1>7. c.required \in Seq(X) /\ (c.required # <<>> => Len(c.required) > 0 /\ c.required[1] = "initialize")
    <2>1. c.required \in {<<>>, StrictMethods(c.protocol, "http")} BY <1>1 DEF SelfProbeInputs
    <2>2. CASE c.protocol = "mcp"
        <3> DEFINE z == <<"initialize", "tools/list", "resources/list">>
        <3>1. c.required \in {<<>>, z} BY <2>1, <2>2 DEF StrictMethods
        <3>2. z \in Seq(X) /\ Len(z) > 0 /\ z[1] = "initialize" BY <2>2
        <3>3. <<>> \in Seq(X) OBVIOUS
        <3> HIDE DEF z, X
        <3> QED BY <3>1, <3>2, <3>3
    <2>3. CASE c.protocol = "acp"
        <3> DEFINE z == <<"initialize", "session/setup", "prompt/turn">>
        <3>1. c.required \in {<<>>, z} BY <2>1, <2>3 DEF StrictMethods
        <3>2. z \in Seq(X) /\ Len(z) > 0 /\ z[1] = "initialize" BY <2>3
        <3>3. <<>> \in Seq(X) OBVIOUS
        <3> HIDE DEF z, X
        <3> QED BY <3>1, <3>2, <3>3
    <2> QED BY <1>6, <2>2, <2>3
<1>8. X \subseteq Methods /\ "initialize" \in X BY DEF Methods
<1>9. Defaulted(c, t)
    <2>1. c.required \in Seq(Methods \cup {Blank})
        <3> HIDE DEF X, Methods
        <3> QED BY <1>7, <1>8
    <2> DEFINE P == {"mcp", "acp"}
               T == {"http", "sse"}
               S == {"http"}
               R == {<<>>, StrictMethods("mcp", "http"), StrictMethods("acp", "http")}
               D == {{}, {"tools"}}
               C == {{200}}
    <2>2. c \in [protocol : P, transport : T, scheme : S, profile : HandshakeProfiles, required : R,
                 declared : D, codes : C]
        BY <1>1 DEF SelfProbeInputs
    <2>3. t = CheckDefaults(c) OBVIOUS
    <2> HIDE DEF c, t, P, T, S, D, C, R
    <2> QED BY <1>6, <2>1, <2>2, <2>3, DefaultsChecked
<1>2. /\ t.protocol = c.protocol /\ t.transport = c.transport /\ t.scheme = "http" /\ t.codes = {200}
      /\ t.declared \subseteq Families /\ (t.profile = "none" <=> c.profile = "none")
      /\ t.required \in Seq(X) /\ Len(t.required) > 0 /\ t.required[1] = "initialize"
    <2> DEFINE one == <<"initialize">>
    <2>1. one \in Seq(X) /\ Len(one) > 0 /\ one[1] = "initialize"
        <3> HIDE DEF X
        <3> QED BY <1>8
    <2>2. t.required = one \/ (c.required # <<>> /\ t.required = c.required) BY <1>6, <1>9 DEF Defaulted
    <2>3. c.profile = Blank => c.profile # "none" /\ t.profile = "base" BY <1>6, <1>9, BlankIsNoMethod DEF Defaulted
    <2> HIDE DEF one, X, t, c
    <2> QED BY <1>6, <1>7, <1>9, <2>1, <2>2, <2>3 DEF Defaulted
<1> HIDE DEF t
<1>10. ShouldRunHTTPHandshake(t) <=> c.transport # "sse" /\ c.profile # "none"
    BY <1>2, <1>6 DEF ShouldRunHTTPHandshake
<1>3. /\ ShouldRunHTTPHandshake(t) => r = HTTPHandshake(t, peer)
      /\ ~ShouldRunHTTPHandshake(t) => r = SimpleProbe(t, page)
    <2>1. t.transport # "stdio" /\ t.scheme = "http" BY <1>2, <1>6
    <2> HIDE DEF r, peer, page
    <2> QED BY <1>1, <2>1, ProbeIs
<1>4. CASE ~ShouldRunHTTPHandshake(t)
    <2>1. CASE c.transport = "sse" /\ in.sse = TRUE
        <3>1. page.code = 200 /\ page.type = "stream" BY <2>1 DEF HostedPage
        <3>2. StatusMatches(page.code, t.codes) BY <1>2, <3>1 DEF StatusMatches
        <3>3. r = Result("healthy", "none", <<>>) BY <1>3, <1>4, <3>1, <3>2 DEF SimpleProbe
        <3> QED BY <2>1, <3>3 DEF Result
    <2>2. CASE c.transport = "sse" /\ in.sse = FALSE
        <3>1. page.code = 501 /\ page.type = "other" BY <2>2 DEF HostedPage
        <3>2. r = Result("unhealthy", "protocol", <<>>) BY <1>2, <1>3, <1>4, <2>2, <3>1 DEF SimpleProbe
        <3> QED BY <2>2, <3>2 DEF Result
    <2>3. CASE c.transport # "sse"
        <3>1. page.code = 405 /\ page.type = "other" BY <2>3 DEF HostedPage
        <3>2. ~StatusMatches(page.code, t.codes) BY <1>2, <3>1 DEF StatusMatches
        <3>3. r = Result("unhealthy", "protocol", <<>>) BY <1>2, <1>3, <1>4, <2>3, <3>1, <3>2 DEF SimpleProbe
        <3>4. c.profile = "none" BY <1>4, <1>10, <2>3
        <3> QED BY <2>3, <3>3, <3>4 DEF Result
    <2> QED BY <1>6, <2>1, <2>2, <2>3
<1>5. CASE ShouldRunHTTPHandshake(t)
    <2> DEFINE h == HTTPRun(t, peer, M)
               gap == Missing(t, peer, h)
               p == c.protocol
    <2>1. r = HTTPVerdict(t, peer, h) BY <1>3, <1>5, HTTPHandshakeIs
    <2>2. M \in Seq(X) /\ Len(M) > 0 /\ M[1] = "initialize"
        <3>1. t.required \in Seq(X \cup {Blank})
            <4> HIDE DEF X
            <4> QED BY <1>2
        <3>2. t.required # <<>> BY <1>2
        <3>3. M = NormalizeMethods(t.required) BY <3>2 DEF HandshakeMethods
        <3>4. t.required[1] # Blank BY <1>2, BlankIsNoMethod DEF Methods
        <3> HIDE DEF X, M
        <3> QED BY <1>2, <3>1, <3>3, <3>4, MethodsNormal
    <2>3. M \in Seq(Methods)
        <3> HIDE DEF X, M, Methods
        <3> QED BY <1>8, <2>2
    <2>4. /\ peer \in Peer /\ peer.init = GoodInit
          /\ \A f \in Families : peer.advertised[f] = "present"
          /\ in.http = FALSE => \A m \in Methods : peer.answers[m] = "status"
          /\ in.http = TRUE => peer.notified = "ok"
          /\ in.http = TRUE => \A m \in Methods : peer.answers[m] = DispatchRPC(p, m)
        <3>1. p \in {"mcp", "acp"} /\ in.http \in BOOLEAN /\ peer = Hosted(p, in.http) BY <1>6
        <3> HIDE DEF p, peer
        <3>2. HostedPeer(peer, p, in.http) BY <3>1, HostedIs, Zenon
        <3> QED BY <3>2 DEF HostedPeer
    <2>5. M[1] = "initialize" /\ 1 \in 1 .. Len(M)
        <3>1. Len(M) \in Nat
            <4> HIDE DEF M, X
            <4> QED BY <2>2, LenProperties
        <3> QED BY <2>2, <3>1
    <2>6. \A i \in 1 .. Len(M) : M[i] \in Methods /\ DispatchRPC(p, M[i]) = "ok"
        <3>1. \A i \in 1 .. Len(M) : M[i] \in X
            <4> HIDE DEF M, X
            <4> QED BY <2>2, ElementOfSeq
        <3>2. \A m \in X : DispatchRPC(p, m) = "ok"
            <4>1. \A m \in {"initialize", "tools/list", "resources/list"} : DispatchRPC("mcp", m) = "ok"
                BY DEF DispatchRPC, Protocols
            <4>2. \A m \in {"initialize", "session/setup", "prompt/turn"} : DispatchRPC("acp", m) = "ok"
                BY DEF DispatchRPC, Protocols
            <4> HIDE DEF DispatchRPC
            <4> QED BY <1>6, <4>1, <4>2
        <3> HIDE DEF M, X, p, Methods
        <3> QED BY <1>8, <3>1, <3>2
    <2>7. h = HTTPRun(t, peer, M) OBVIOUS
    <2> HIDE DEF t, r, peer, M, h
    <2>8. /\ h \in HTTPStates /\ HTTPSoFar(t, peer, M, Len(M), h)
          /\ h.over = "no" /\ h.failed = <<>> => h.exercised = M
        BY <2>3, <2>4, <2>7, HTTPOutcome
    <2>9. VerdictTells(r, h, gap) BY <2>1, <2>8, HTTPVerdictIs
    <2>10. gap = IF h.initialized /\ peer.init.caps = "map"
                 THEN {f \in t.declared : peer.advertised[f] # "present"} ELSE t.declared
        BY DEF Missing, CapabilityGap
    <2> HIDE DEF gap
    <2>11. CASE in.http = TRUE
        <3>1. ValidInitialize(peer.init) BY <2>4 DEF ValidInitialize, GoodInit
        <3>2. \A i \in 1 .. Len(M) : Good(t, peer, M[i]) BY <2>4, <2>6, <2>11, <3>1 DEF Good
        <3>3. h.over = "no" /\ h.failed = <<>> BY <2>8, <3>2 DEF HTTPSoFar
        <3>4. h.exercised = M BY <2>8, <3>3
        <3>5. h.initialized = TRUE BY <2>5, <2>8, <3>4 DEF HTTPSoFar
        <3>6. gap = {} BY <1>2, <2>4, <2>10, <3>1, <3>5 DEF ValidInitialize
        <3>7. M # <<>> BY <2>3, <2>5
        <3>8. r.state = "healthy" BY <2>9, <3>3, <3>4, <3>6, <3>7 DEF VerdictTells
        <3> QED BY <1>5, <1>10, <2>11, <3>8
    <2>12. CASE in.http = FALSE
        <3>1. \A i \in 1 .. Len(M) : peer.answers[M[i]] = "status" BY <2>4, <2>6, <2>12
        <3>2. h.exercised = <<>> BY <2>8, <3>1 DEF HTTPSoFar
        <3>3. r.state # "healthy" BY <2>9, <3>2 DEF VerdictTells
        <3> QED BY <1>5, <1>10, <2>12, <3>3
    <2> QED BY <1>6, <2>11, <2>12
<1> QED BY <1>4, <1>5

(* Whatever methods a target is configured with and whatever a peer        *)
(* answers, the verdicts of the probers are true: healthy only when all    *)
(* that was asked was done, degraded only with a reason, and the alarm     *)
(* finds the server it hosts as it is (property ProbeVerdictsTrue; the     *)
(* HTTP and stdio handshakes).                                             *)
THEOREM ProbeVerdictsAlwaysTrue == RulesSpec => []ProbeVerdictsTrue
<1>1. RulesTold => ProbeVerdictsTrue
    <2> SUFFICES ASSUME RulesTold PROVE ProbeVerdictsTrue OBVIOUS
    <2>1. HealthyMeansAnswered /\ DegradedIsPartial
        <3>1. CASE topic = "handshake" /\ out # <<>> BY <3>1, HandshakeTells
        <3>2. CASE ~Answered("handshake") BY <3>2 DEF HealthyMeansAnswered, DegradedIsPartial
        <3> QED BY <3>1, <3>2 DEF Answered
    <2>2. PageDecides
        <3>1. CASE topic = "page" /\ out # <<>> BY <3>1, PageTells
        <3>2. CASE ~Answered("page") BY <3>2 DEF PageDecides
        <3> QED BY <3>1, <3>2 DEF Answered
    <2>3. SelfProbeAnswered
        <3>1. CASE topic = "selfprobe" /\ out # <<>> BY <3>1, SelfProbeTells
        <3>2. CASE ~Answered("selfprobe") BY <3>2 DEF SelfProbeAnswered
        <3> QED BY <3>1, <3>2 DEF Answered
    <2> QED BY <2>1, <2>2, <2>3 DEF ProbeVerdictsTrue
<1> QED BY <1>1, RulesAreTold, PTL

-----------------------------------------------------------------------------
(* Discovery.                                                              *)

(* The list q holds the elements of X and nothing else.                    *)
Enumerates(q, X) == q \in Seq(X) /\ \A x \in X : \E i \in 1 .. Len(q) : q[i] = x

(* The records of the configured targets, and those the sources find.      *)
Configured(static) == {StaticRecord(static[i]) : i \in DOMAIN static}

(* What the environment has.                                               *)
EnvFound(c) == {EnvRecord(x) : x \in Usable(LiveCandidates(c))}

(* What the ports have.                                                    *)
PortFound(c) == {ScanRecord(x) : x \in Open(LivePorts(c))}

(* What a document has.                                                    *)
DocFound(doc) == {LinkRecord(doc, i) : i \in Speaking(doc)}

(* What the documents have.                                                *)
DocsFound(c) == UNION {DocFound(doc) : doc \in Range(LiveDocs(c))}

(* What a discovery can find in the network and the environment.           *)
Fetched(c) == EnvFound(c) \cup PortFound(c) \cup DocsFound(c)

(* That is what there is to find.                                          *)
LEMMA FindingsAre ==
    ASSUME NEW c
    PROVE  Findings(c) = Configured(c.static) \cup IF ~c.enabled THEN {} ELSE Fetched(c)
BY Zenon DEF Findings, Configured, Fetched, EnvFound, PortFound, DocsFound, DocFound

(* What transport a source gives what it finds at an endpoint.             *)
TransportOf(source, u) ==
    CASE source = "env" -> IF u.scheme = "ws" THEN "websocket" ELSE "http"
      [] source = "local_proxy_scan" -> "http"
      [] source = "llms_txt" -> DefaultTransport(u)

(* The transport of what was found follows from its source and endpoint.   *)
LEMMA FetchedIs ==
    ASSUME NEW c, NEW r \in Fetched(c)
    PROVE  \E id, p, u : \E source \in {"env", "local_proxy_scan", "llms_txt"} :
               r = DiscoveredTarget(id, p, TransportOf(source, u), u, source)
<1>1. CASE r \in EnvFound(c)
    <2>1. PICK x \in Usable(LiveCandidates(c)) : r = EnvRecord(x) BY <1>1 DEF EnvFound
    <2> DEFINE source == "env"
               u == x.url
               p == IF x.name = "FOO_ACP" \/ x.url.path = "acp" THEN "acp"
                    ELSE IF x.name \in {"FOO_MCP", "FOO.MCP"} \/ x.url.path = "mcp" THEN "mcp" ELSE "http"
               id == <<"env", SafeID(x.name), x.nth>>
    <2>2. TransportOf(source, u) = IF u.scheme = "ws" THEN "websocket" ELSE "http" BY DEF TransportOf
    <2>3. r = DiscoveredTarget(id, p, TransportOf(source, u), u, source) BY <2>1, <2>2, Zenon DEF EnvRecord
    <2> HIDE DEF u, p, id
    <2> QED BY <2>3
<1>2. CASE r \in PortFound(c)
    <2>1. PICK port \in Open(LivePorts(c)) : r = ScanRecord(port) BY <1>2 DEF PortFound
    <2> DEFINE source == "local_proxy_scan"
               path == Head(Answering(port))
               u == Url(port.number, "http", path)
               p == InferProto(path)
               id == <<"discovered", port.number, InferProto(path)>>
    <2>2. TransportOf(source, u) = "http" BY DEF TransportOf
    <2>3. r = DiscoveredTarget(id, p, TransportOf(source, u), u, source) BY <2>1, <2>2, Zenon DEF ScanRecord
    <2> HIDE DEF u, p, id
    <2> QED BY <2>3
<1>3. CASE r \in DocsFound(c)
    <2>1. PICK doc, i : r = LinkRecord(doc, i) BY <1>3 DEF DocsFound, DocFound
    <2> DEFINE source == "llms_txt"
               link == doc.links[i]
               u == link.url
               p == IF "acp" \in link.says THEN "acp" ELSE "mcp"
               id == <<"llms", doc.host, i, p>>
    <2>2. TransportOf(source, u) = DefaultTransport(u) BY DEF TransportOf
    <2>3. r = DiscoveredTarget(id, p, TransportOf(source, u), u, source) BY <2>1, <2>2, Zenon DEF LinkRecord
    <2> HIDE DEF u, p, id
    <2> QED BY <2>3
<1> QED BY <1>1, <1>2, <1>3 DEF Fetched

(* A record tells where it comes from.                                     *)
LEMMA SourceTells ==
    ASSUME NEW c
    PROVE  /\ \A x \in Configured(c.static) : x.source = "static_config"
           /\ \A x \in Fetched(c) : x.source # "static_config"
<1>1. \A x \in Configured(c.static) : x.source = "static_config"
    BY DEF Configured, StaticRecord, DiscoveredTarget
<1>2. ASSUME NEW x \in Fetched(c) PROVE x.source # "static_config"
    <2>1. PICK id, p, u : \E source \in {"env", "local_proxy_scan", "llms_txt"} :
               x = DiscoveredTarget(id, p, TransportOf(source, u), u, source)
        BY FetchedIs
    <2> QED BY <2>1 DEF DiscoveredTarget
<1> QED BY <1>1, <1>2

(* What of a list a context lasts for.                                     *)
LEMMA LastingIs ==
    ASSUME NEW T, NEW s \in Seq(T), NEW n \in Nat, NEW W, W = Lasting(s, n)
    PROVE  /\ W \in Seq(T) /\ DOMAIN W = 1 .. Len(W)
           /\ \A i \in 1 .. Len(W) : W[i] = s[i]
           /\ n >= Len(s) => Len(W) = Len(s)
<1> DEFINE m == IF n < Len(s) THEN n ELSE Len(s)
<1>1. Len(s) \in Nat /\ \A i \in 1 .. Len(s) : s[i] \in T BY LenProperties, ElementOfSeq
<1>2. m \in Nat /\ (n >= Len(s) => m = Len(s)) /\ \A i \in 1 .. m : i \in 1 .. Len(s) BY <1>1
<1>3. W = [i \in 1 .. m |-> s[i]] BY DEF Lasting
<1> HIDE DEF m
<1>4. W \in [1 .. m -> T] /\ \A i \in 1 .. m : W[i] = s[i] BY <1>1, <1>2, <1>3
<1>5. W \in Seq(T) BY <1>2, <1>4, SeqDef
<1>6. Len(W) = m /\ DOMAIN W = 1 .. m BY <1>2, <1>3, <1>5, LenProperties
<1> QED BY <1>2, <1>4, <1>5, <1>6

(* The inputs of a run, and what its context lasts for.                    *)
LEMMA InputsAre ==
    ASSUME NEW c \in DiscoverInputs
    PROVE  /\ c.static \in Seq(StaticTarget) /\ c.candidates \in Seq(EnvCandidate)
           /\ c.ports \in Seq(Port) /\ c.docs \in Seq(Doc)
           /\ c.lives \in Nat /\ c.lives <= Items(c) /\ c.enabled \in BOOLEAN
           /\ Len(c.candidates) \in Nat /\ Len(c.ports) \in Nat /\ Len(c.docs) \in Nat
           /\ Left(c.lives, Len(c.candidates)) \in Nat
           /\ Left(c.lives, Len(c.candidates) + Len(c.ports)) \in Nat
<1>1. /\ c.static \in StaticLists /\ c.candidates \in CandidateLists /\ c.ports \in PortLists
      /\ c.docs \in DocLists /\ c.lives \in LifeSpans /\ c.lives <= Items(c) /\ c.enabled \in BOOLEAN
    BY DEF DiscoverInputs
<1>2. /\ c.static \in Seq(StaticTarget) /\ c.candidates \in Seq(EnvCandidate)
      /\ c.ports \in Seq(Port) /\ c.docs \in Seq(Doc) /\ c.lives \in Nat
    BY <1>1, DiscoveryAssumption
<1>3. Len(c.candidates) \in Nat /\ Len(c.ports) \in Nat /\ Len(c.docs) \in Nat
    <2> HIDE DEF EnvCandidate, Port, Doc
    <2> QED BY <1>2, LenProperties
<1>4. /\ Left(c.lives, Len(c.candidates)) \in Nat
      /\ Left(c.lives, Len(c.candidates) + Len(c.ports)) \in Nat
    <2> DEFINE x == Len(c.candidates)
               y == Len(c.candidates) + Len(c.ports)
               l == c.lives
    <2>1. l \in Nat BY <1>1, DiscoveryAssumption
    <2>2. \A a, b \in Nat : a + b \in Nat OBVIOUS
    <2>3. x \in Nat /\ y \in Nat BY <1>3, <2>2
    <2> HIDE DEF x, y, l
    <2>4. Left(l, x) \in Nat /\ Left(l, y) \in Nat BY <2>1, <2>3 DEF Left
    <2> QED BY <2>4 DEF x, y, l
<1> QED BY <1>1, <1>2, <1>3, <1>4

(* F holds the entries of s that are in S, and no other.                   *)
Sifted(F, s, S) ==
    /\ \A k \in 1 .. Len(F) : \E i \in 1 .. Len(s) : s[i] \in S /\ F[k] = s[i]
    /\ \A i \in 1 .. Len(s) : s[i] \in S => \E k \in 1 .. Len(F) : F[k] = s[i]

(* So does a filtered list.                                                *)
LEMMA FilterSifts ==
    ASSUME NEW T, NEW s \in Seq(T), NEW S
    PROVE  Filter(s, S) \in Seq(T) /\ Sifted(Filter(s, S), s, S)
<1> DEFINE F == Filter(s, S)
<1>1. F = Filter(s, S) OBVIOUS
<1> HIDE DEF F
<1>2. F \in Seq(T) /\ \E g : Places(g, F, s, S, Len(s)) BY <1>1, FilterPlaces
<1>3. PICK g : Places(g, F, s, S, Len(s)) BY <1>2
<1>4. Sifted(F, s, S)
    <2>1. \A k \in 1 .. Len(F) : g[k] \in 1 .. Len(s) /\ s[g[k]] \in S /\ F[k] = s[g[k]]
        BY <1>3 DEF Places
    <2>2. \A i \in 1 .. Len(s) : s[i] \in S => \E k \in 1 .. Len(F) : g[k] = i BY <1>3 DEF Places
    <2>3. \A i \in 1 .. Len(s) : s[i] \in S => \E k \in 1 .. Len(F) : F[k] = s[i] BY <2>1, <2>2
    <2> QED BY <2>1, <2>3 DEF Sifted
<1> QED BY <1>2, <1>4 DEF F

(* A record for each entry of a list that is in S, in a list.              *)
LEMMA FilteredIs ==
    ASSUME NEW T, NEW s \in Seq(T), NEW S, S \subseteq Range(s), NEW F, F = Filter(s, S), NEW rec,
           NEW q, q = [i \in DOMAIN F |-> rec[F[i]]]
    PROVE  Enumerates(q, {rec[x] : x \in S})
<1> DEFINE X == {rec[x] : x \in S}
<1>1. /\ F \in Seq(T)
      /\ \A k \in 1 .. Len(F) : \E i \in 1 .. Len(s) : s[i] \in S /\ F[k] = s[i]
      /\ \A i \in 1 .. Len(s) : s[i] \in S => \E k \in 1 .. Len(F) : F[k] = s[i]
    <2>1. Filter(s, S) \in Seq(T) /\ Sifted(Filter(s, S), s, S) BY FilterSifts
    <2>2. F \in Seq(T) /\ Sifted(F, s, S) BY <2>1
    <2> QED BY <2>2 DEF Sifted
<1>2. DOMAIN F = 1 .. Len(F) /\ Len(F) \in Nat /\ DOMAIN s = 1 .. Len(s) BY <1>1, LenProperties
<1>3. q \in [1 .. Len(F) -> X] BY <1>1, <1>2
<1>4. q \in Seq(X)
    <2> HIDE DEF X
    <2> QED BY <1>2, <1>3, SeqDef
<1>5. Len(q) = Len(F)
    <2> HIDE DEF X
    <2>1. DOMAIN q = 1 .. Len(F) BY <1>2
    <2> QED BY <1>2, <1>4, <2>1, LenProperties
<1>6. ASSUME NEW x \in S PROVE \E i \in 1 .. Len(q) : q[i] = rec[x]
    <2>1. PICK i \in 1 .. Len(s) : s[i] = x BY <1>2 DEF Range
    <2>2. PICK k \in 1 .. Len(F) : F[k] = x BY <1>1, <2>1
    <2> QED BY <1>2, <1>5, <2>2
<1>7. \A x \in X : \E i \in 1 .. Len(q) : q[i] = x BY <1>6
<1> HIDE DEF X
<1>8. Enumerates(q, X) BY <1>4, <1>7 DEF Enumerates
<1> QED BY <1>8 DEF X

(* The records of the configuration, the environment and the ports.        *)
LEMMA SourcesAre ==
    ASSUME NEW c \in DiscoverInputs
    PROVE  /\ Enumerates(StaticRecords(c.static), Configured(c.static))
           /\ Enumerates(FromEnv(c).records, EnvFound(c))
           /\ Enumerates(FromScan(c).records, PortFound(c))
<1>1. /\ c.static \in Seq(StaticTarget)
      /\ LiveCandidates(c) \in Seq(EnvCandidate) /\ LivePorts(c) \in Seq(Port)
    BY InputsAre, LastingIs DEF LiveCandidates, LivePorts
<1>2. Enumerates(StaticRecords(c.static), Configured(c.static))
    <2> DEFINE static == c.static
               q == StaticRecords(static)
               X == Configured(static)
    <2> HIDE DEF StaticTarget, static
    <2>1. DOMAIN static = 1 .. Len(static) /\ Len(static) \in Nat BY <1>1, LenProperties DEF static
    <2>2. q \in [1 .. Len(static) -> X] /\ \A i \in 1 .. Len(static) : q[i] = StaticRecord(static[i])
        BY <2>1 DEF StaticRecords, Configured
    <2> HIDE DEF q
    <2>3. q \in Seq(X)
        <3> HIDE DEF X
        <3> QED BY <2>1, <2>2, SeqDef
    <2>4. Len(q) = Len(static)
        <3> HIDE DEF X
        <3> QED BY <2>1, <2>2, <2>3, LenProperties
    <2>5. \A x \in X : \E i \in 1 .. Len(q) : q[i] = x BY <2>1, <2>2, <2>4 DEF Configured
    <2> QED BY <2>3, <2>5 DEF Enumerates, q, X, static
<1>3. Enumerates(FromEnv(c).records, EnvFound(c))
    <2> DEFINE s == LiveCandidates(c)
               S == Usable(s)
               F == Filter(s, S)
               rec == [x \in S |-> EnvRecord(x)]
               q == [i \in DOMAIN F |-> rec[F[i]]]
               made == [i \in DOMAIN F |-> EnvRecord(F[i])]
    <2>1. s \in Seq(EnvCandidate) BY <1>1
    <2>2. S \subseteq Range(s) BY DEF Usable
    <2> HIDE DEF EnvCandidate, s, S
    <2>3. F = Filter(s, S) OBVIOUS
    <2> HIDE DEF F
    <2>4. \A i \in DOMAIN F : F[i] \in S
        <3>1. Filter(s, S) \in Seq(EnvCandidate) /\ Sifted(Filter(s, S), s, S) BY <2>1, FilterSifts
        <3>2. F \in Seq(EnvCandidate) /\ Sifted(F, s, S) BY <2>3, <3>1
        <3>3. \A k \in 1 .. Len(F) : F[k] \in S BY <3>2 DEF Sifted
        <3>4. DOMAIN F = 1 .. Len(F) BY <3>2, LenProperties
        <3> QED BY <3>3, <3>4
    <2>5. q = made BY <2>4
    <2>6. Enumerates(q, {rec[x] : x \in S})
        <3>1. q = [i \in DOMAIN F |-> rec[F[i]]] OBVIOUS
        <3> HIDE DEF q, rec
        <3> QED BY <2>1, <2>2, <2>3, <3>1, FilteredIs
    <2>7. {rec[x] : x \in S} = EnvFound(c) BY DEF EnvFound, S, s
    <2>8. FromEnv(c).records = made BY DEF FromEnv, F, S, s
    <2> HIDE DEF q, rec, made
    <2> QED BY <2>5, <2>6, <2>7, <2>8
<1>4. Enumerates(FromScan(c).records, PortFound(c))
    <2> DEFINE s == LivePorts(c)
               S == Open(s)
               F == Filter(s, S)
               rec == [x \in S |-> ScanRecord(x)]
               q == [i \in DOMAIN F |-> rec[F[i]]]
               made == [i \in DOMAIN F |-> ScanRecord(F[i])]
    <2>1. s \in Seq(Port) BY <1>1
    <2>2. S \subseteq Range(s) BY DEF Open
    <2> HIDE DEF Port, s, S
    <2>3. F = Filter(s, S) OBVIOUS
    <2> HIDE DEF F
    <2>4. \A i \in DOMAIN F : F[i] \in S
        <3>1. Filter(s, S) \in Seq(Port) /\ Sifted(Filter(s, S), s, S) BY <2>1, FilterSifts
        <3>2. F \in Seq(Port) /\ Sifted(F, s, S) BY <2>3, <3>1
        <3>3. \A k \in 1 .. Len(F) : F[k] \in S BY <3>2 DEF Sifted
        <3>4. DOMAIN F = 1 .. Len(F) BY <3>2, LenProperties
        <3> QED BY <3>3, <3>4
    <2>5. q = made BY <2>4
    <2>6. Enumerates(q, {rec[x] : x \in S})
        <3>1. q = [i \in DOMAIN F |-> rec[F[i]]] OBVIOUS
        <3> HIDE DEF q, rec
        <3> QED BY <2>1, <2>2, <2>3, <3>1, FilteredIs
    <2>7. {rec[x] : x \in S} = PortFound(c) BY DEF PortFound, S, s
    <2>8. FromScan(c).records = made BY DEF FromScan, F, S, s
    <2> HIDE DEF q, rec, made
    <2> QED BY <2>5, <2>6, <2>7, <2>8
<1> QED BY <1>2, <1>3, <1>4

(* The records of a document.                                              *)
LEMMA DocIs ==
    ASSUME NEW doc \in Doc
    PROVE  Enumerates(FromDoc(doc), DocFound(doc))
<1> DEFINE links == doc.links
           s == [i \in DOMAIN links |-> i]
           S == Speaking(doc)
           F == Filter(s, S)
           rec == [i \in S |-> LinkRecord(doc, i)]
           q == [k \in DOMAIN F |-> rec[F[k]]]
           made == [k \in DOMAIN F |-> LinkRecord(doc, F[k])]
<1>1. s \in Seq(Nat) /\ S \subseteq Range(s)
    <2>1. links \in Seq(Link) BY DEF Doc
    <2>0. S \subseteq DOMAIN links BY DEF Speaking
    <2> HIDE DEF links, Link, S
    <2>2. DOMAIN links = 1 .. Len(links) /\ Len(links) \in Nat BY <2>1, LenProperties
    <2>3. s \in [1 .. Len(links) -> Nat] BY <2>2
    <2>4. S \subseteq Range(s) BY <2>0, <2>2 DEF Range
    <2> HIDE DEF s
    <2>5. s \in Seq(Nat) BY <2>2, <2>3, SeqDef
    <2> QED BY <2>4, <2>5
<1> HIDE DEF s, S
<1>3. F = Filter(s, S) OBVIOUS
<1> HIDE DEF F
<1>4. \A k \in DOMAIN F : F[k] \in S
    <2>1. Filter(s, S) \in Seq(Nat) /\ Sifted(Filter(s, S), s, S) BY <1>1, FilterSifts
    <2>2. F \in Seq(Nat) /\ Sifted(F, s, S) BY <1>3, <2>1
    <2>3. \A k \in 1 .. Len(F) : F[k] \in S BY <2>2 DEF Sifted
    <2>4. DOMAIN F = 1 .. Len(F) BY <2>2, LenProperties
    <2> QED BY <2>3, <2>4
<1>5. q = made BY <1>4
<1>6. Enumerates(q, {rec[x] : x \in S})
    <2>1. q = [i \in DOMAIN F |-> rec[F[i]]] OBVIOUS
    <2> HIDE DEF q, rec
    <2> QED BY <1>1, <1>3, <2>1, FilteredIs
<1>7. {rec[x] : x \in S} = DocFound(doc) BY DEF DocFound, S
<1>8. FromDoc(doc) = made BY Zenon DEF FromDoc, F, S, s
<1> HIDE DEF q, rec, made
<1> QED BY <1>5, <1>6, <1>7, <1>8

(* One list after another.                                                 *)
LEMMA ListsTogether ==
    ASSUME NEW A, NEW B, NEW a, NEW b, Enumerates(a, A), Enumerates(b, B)
    PROVE  Enumerates(a \o b, A \cup B)
<1> DEFINE U == A \cup B
           z == a \o b
           k == Len(a)
           l == Len(b)
<1>1. a \in Seq(A) /\ b \in Seq(B) BY DEF Enumerates
<1>2. /\ k \in Nat /\ l \in Nat /\ a \in [1 .. k -> A] /\ b \in [1 .. l -> B]
    BY <1>1, LenProperties
<1>3. a \in Seq(U) /\ b \in Seq(U)
    <2>1. A \subseteq U /\ B \subseteq U OBVIOUS
    <2> HIDE DEF U
    <2>2. a \in [1 .. k -> U] /\ b \in [1 .. l -> U] BY <1>2, <2>1
    <2> QED BY <1>2, <2>2, SeqDef
<1> HIDE DEF U
<1>4. z \in Seq(U) /\ Len(z) = k + l /\ \A i \in 1 .. k + l : z[i] = IF i <= k THEN a[i] ELSE b[i - k]
    BY <1>3, ConcatProperties
<1>5. ASSUME NEW x \in A PROVE \E i \in 1 .. Len(z) : z[i] = x
    <2>1. PICK i \in 1 .. k : a[i] = x BY DEF Enumerates
    <2>2. i \in 1 .. k + l /\ i <= k BY <1>2
    <2> HIDE DEF z, k, l
    <2> QED BY <1>4, <2>1, <2>2
<1>6. ASSUME NEW x \in B PROVE \E i \in 1 .. Len(z) : z[i] = x
    <2>1. PICK i \in 1 .. l : b[i] = x BY DEF Enumerates
    <2> DEFINE j == k + i
    <2>2. j \in 1 .. k + l /\ ~(j <= k) /\ j - k = i BY <1>2
    <2> HIDE DEF z, k, l, j
    <2> QED BY <1>4, <2>1, <2>2
<1> HIDE DEF z
<1> QED BY <1>4, <1>5, <1>6 DEF Enumerates, U, z

(* The records of all documents.                                           *)
LEMMA DocsAre ==
    ASSUME NEW c \in DiscoverInputs
    PROVE  Enumerates(FromLLMSTxt(c).records, DocsFound(c))
<1> DEFINE s == LiveDocs(c)
           n == Len(s)
           Before(i) == UNION {DocFound(s[k]) : k \in 1 .. i}
           U == Seq(DocsFound(c))
           e == <<>>
           next == [p \in (1 .. n) \X U |-> p[2] \o FromDoc(s[p[1]])]
           Eq(f) == f = [i \in 0 .. n |-> IF i = 0 THEN <<>> ELSE f[i - 1] \o FromDoc(s[i])]
           g == CHOOSE f : Eq(f)
<1>0. s \in Seq(Doc) BY InputsAre, LastingIs DEF LiveDocs
<1> HIDE DEF Doc
<1>1. n \in Nat /\ \A i \in 1 .. n : s[i] \in Doc BY <1>0, LenProperties, ElementOfSeq
<1>1a. DocsFound(c) = Before(n)
    <2>1. DOMAIN s = 1 .. n BY <1>0, LenProperties
    <2> HIDE DEF s, n
    <2>2. Range(s) = {s[k] : k \in 1 .. n} BY <2>1 DEF Range
    <2> QED BY <2>2 DEF DocsFound, s
<1> HIDE DEF s
<1>2. \A q \in U : \A i \in 1 .. n : q \o FromDoc(s[i]) \in U
    <2> SUFFICES ASSUME NEW q \in U, NEW i \in 1 .. n PROVE q \o FromDoc(s[i]) \in U OBVIOUS
    <2> DEFINE d == FromDoc(s[i])
               X == DocFound(s[i])
               V == DocsFound(c)
    <2>1. d \in Seq(X) BY <1>1, DocIs DEF Enumerates
    <2>2. X \subseteq V BY <1>1a
    <2> HIDE DEF d, X, V
    <2>3. d \in [1 .. Len(d) -> V] /\ Len(d) \in Nat BY <2>1, <2>2, LenProperties
    <2>4. d \in Seq(V) BY <2>3, SeqDef
    <2> QED BY <2>4, ConcatProperties DEF V, d
<1>3. e \in U OBVIOUS
<1> HIDE DEF n, U, Before
<1>4. next \in [(1 .. n) \X U -> U] BY <1>1, <1>2
<1>5. \A i \in 1 .. n : \A q \in U : next[<<i, q>>] = q \o FromDoc(s[i]) OBVIOUS
<1> HIDE DEF next
<1>6. PICK f \in [0 .. n -> U] : Solves(f, e, n, next)
    <2> HIDE DEF e
    <2> QED BY <1>1, <1>3, <1>4, LoopExists
<1>7. 0 \in 0 .. n /\ \A i \in 1 .. n : i \in 0 .. n /\ i # 0 /\ i - 1 \in 0 .. n BY <1>1
<1>8. \A i \in 0 .. n : i # 0 => i \in 1 .. n BY <1>1
<1>9. Eq(f)
    <2>1. f[0] = <<>> /\ \A i \in 1 .. n : f[i] = f[i - 1] \o FromDoc(s[i]) BY <1>5, <1>6, <1>7 DEF Solves
    <2> QED BY <1>8, <2>1
<1>10. Eq(g) BY <1>9, Zenon
<1>11. FromLLMSTxt(c).records = g[n]
    <2> DEFINE l == Loop(LAMBDA records, doc : records \o FromDoc(doc), <<>>, s)
    <2>1. l = g[n] BY Zenon DEF Loop, n
    <2>2. FromLLMSTxt(c).records = l
        <3> HIDE DEF g
        <3> DEFINE err == \/ c.lives < Len(c.candidates) + Len(c.ports) + Len(c.docs) /\ c.docs # <<>>
                          \/ \E i \in DOMAIN LiveDocs(c) : LiveDocs(c)[i].state = "down"
        <3>1. FromLLMSTxt(c) = [records |-> l, errors |-> err] BY Zenon DEF FromLLMSTxt, s
        <3> HIDE DEF l, err
        <3> QED BY <3>1
    <2> QED BY <2>1, <2>2
<1> HIDE DEF g
<1>12. g[0] = <<>> /\ \A i \in 1 .. n : g[i] = g[i - 1] \o FromDoc(s[i]) BY <1>7, <1>10
<1> HIDE DEF Eq
<1> DEFINE G == {i \in 0 .. n : Enumerates(g[i], Before(i))}
<1>13. 0 \in G
    <2>1. Before(0) = {} BY DEF Before
    <2>2. Enumerates(<<>>, {}) BY DEF Enumerates
    <2> QED BY <1>7, <1>12, <2>1, <2>2
<1>14. ASSUME NEW i \in 1 .. n, i - 1 \in G PROVE i \in G
    <2> DEFINE o == i - 1
    <2>1. Enumerates(g[o], Before(o)) BY <1>14
    <2>2. Enumerates(FromDoc(s[i]), DocFound(s[i])) BY <1>1, DocIs
    <2>3. g[i] = g[o] \o FromDoc(s[i]) BY <1>12
    <2>4. Before(i) = Before(o) \cup DocFound(s[i])
        <3>1. o \in Nat /\ i \in Nat /\ i = o + 1 BY <1>1
        <3>2. 1 .. i = (1 .. o) \cup {i} BY <3>1
        <3> HIDE DEF o
        <3> QED BY <3>2 DEF Before
    <2> HIDE DEF o
    <2>5. Enumerates(g[i], Before(i)) BY <2>1, <2>2, <2>3, <2>4, ListsTogether
    <2> QED BY <1>7, <2>5
<1>15. n \in G
    <2> HIDE DEF G
    <2>1. \A i \in 0 .. n : i \in G BY <1>1, <1>13, <1>14, UpTo, Zenon
    <2>2. n \in 0 .. n BY <1>1
    <2> QED BY <2>1, <2>2
<1> QED BY <1>1a, <1>11, <1>15

(* A list that has what was configured before what was found.              *)
StaticFirst(Z) ==
    \A i, j \in 1 .. Len(Z) : i <= j /\ Z[j].source = "static_config" => Z[i].source = "static_config"

(* The candidates of a run are what there is to find.                      *)
LEMMA CandidatesAre ==
    ASSUME NEW c \in DiscoverInputs, NEW Z, Z = AllCandidates(c)
    PROVE  Enumerates(Z, Findings(c)) /\ StaticFirst(Z)
<1> DEFINE C == Configured(c.static)
           A == StaticRecords(c.static)
           E == FromEnv(c).records
           P == FromScan(c).records
           D == FromLLMSTxt(c).records
           EP == E \o P
           none == <<>>
           B == IF ~c.enabled THEN none ELSE EP \o D
           X == IF ~c.enabled THEN {} ELSE Fetched(c)
           a == Len(A)
           b == Len(B)
<1>1. Enumerates(A, C) /\ Enumerates(E, EnvFound(c)) /\ Enumerates(P, PortFound(c)) /\ Enumerates(D, DocsFound(c))
    BY SourcesAre, DocsAre
<1>2. Z = A \o B BY Zenon DEF AllCandidates
<1>3. c.enabled \in BOOLEAN BY InputsAre
<1> HIDE DEF A, E, P, D
<1>4. Enumerates(B, X)
    <2>1. CASE c.enabled = FALSE
        <3>1. Enumerates(none, {}) BY DEF Enumerates
        <3> QED BY <2>1, <3>1
    <2>2. CASE c.enabled = TRUE
        <3>1. Enumerates(EP, EnvFound(c) \cup PortFound(c)) BY <1>1, ListsTogether
        <3> HIDE DEF EP
        <3>2. Enumerates(EP \o D, (EnvFound(c) \cup PortFound(c)) \cup DocsFound(c)) BY <1>1, <3>1, ListsTogether
        <3> QED BY <2>2, <3>2 DEF Fetched
    <2> QED BY <1>3, <2>1, <2>2
<1>5. Enumerates(Z, Findings(c))
    <2>1. Findings(c) = C \cup X BY FindingsAre
    <2> HIDE DEF B, C, X
    <2>2. Enumerates(A \o B, C \cup X) BY <1>1, <1>4, ListsTogether
    <2> QED BY <1>2, <2>1, <2>2
<1>6. (\A x \in C : x.source = "static_config") /\ \A x \in X : x.source # "static_config"
    BY SourceTells
<1> HIDE DEF B, C, X
<1>8. A \in Seq(C) /\ B \in Seq(X) BY <1>1, <1>4 DEF Enumerates
<1>9. \A i \in 1 .. a : A[i].source = "static_config" BY <1>6, <1>8, ElementOfSeq
<1>10. \A i \in 1 .. b : B[i].source # "static_config" BY <1>6, <1>8, ElementOfSeq
<1>11. a \in Nat /\ b \in Nat BY <1>8, LenProperties
<1>12. /\ Len(Z) = a + b
       /\ \A i \in 1 .. a + b : Z[i] = IF i <= a THEN A[i] ELSE B[i - a]
    <2> DEFINE T == C \cup X
    <2>1. A \in [1 .. a -> C] /\ B \in [1 .. b -> X] BY <1>8, LenProperties
    <2>2. C \subseteq T /\ X \subseteq T OBVIOUS
    <2> HIDE DEF T
    <2>3. A \in [1 .. a -> T] /\ B \in [1 .. b -> T] BY <2>1, <2>2
    <2>4. A \in Seq(T) /\ B \in Seq(T) BY <1>11, <2>3, SeqDef
    <2> QED BY <1>2, <2>4, ConcatProperties
<1> HIDE DEF a, b
<1>13. \A i \in 1 .. a + b : i <= a => Z[i].source = "static_config"
    <2> SUFFICES ASSUME NEW i \in 1 .. a + b, i <= a PROVE Z[i].source = "static_config" OBVIOUS
    <2>1. i \in 1 .. a BY <1>11
    <2> QED BY <1>9, <1>12, <2>1
<1>14. \A i \in 1 .. a + b : ~(i <= a) => Z[i].source # "static_config"
    <2> SUFFICES ASSUME NEW i \in 1 .. a + b, ~(i <= a) PROVE Z[i].source # "static_config" OBVIOUS
    <2> DEFINE k == i - a
    <2>1. k \in 1 .. b BY <1>11
    <2>2. Z[i] = B[k] BY <1>12
    <2> HIDE DEF k
    <2> QED BY <1>10, <2>1, <2>2
<1>15. StaticFirst(Z)
    <2> SUFFICES ASSUME NEW i \in 1 .. a + b, NEW j \in 1 .. a + b, i <= j, Z[j].source = "static_config"
                 PROVE  Z[i].source = "static_config"
        BY <1>12 DEF StaticFirst
    <2>1. j <= a BY <1>14
    <2>2. i <= a BY <1>11, <2>1
    <2> QED BY <1>13, <2>2
<1> QED BY <1>5, <1>15

(* One turn of the loop that keeps the first record of a key.              *)
Kept(q, r) == IF \E i \in DOMAIN q : DedupeKey(q[i]) = DedupeKey(r) THEN q ELSE Append(q, r)

(* What q has kept of the first m records of s: each key once, nothing     *)
(* else, and what was configured for what was configured.                  *)
KeptOf(q, s, m) ==
    /\ \A i, j \in 1 .. Len(q) : DedupeKey(q[i]) = DedupeKey(q[j]) => i = j
    /\ \A i \in 1 .. Len(q) : \E k \in 1 .. m : q[i] = s[k]
    /\ \A k \in 1 .. m : \E i \in 1 .. Len(q) :
          DedupeKey(q[i]) = DedupeKey(s[k]) /\ (s[k].source = "static_config" => q[i].source = "static_config")

(* One more record.                                                        *)
LEMMA KeepsOn ==
    ASSUME NEW T, NEW s \in Seq(T), StaticFirst(s), NEW m \in 1 .. Len(s), NEW o, o = m - 1,
           NEW q \in Seq(T), KeptOf(q, s, o), NEW d, d = Kept(q, s[m])
    PROVE  d \in Seq(T) /\ KeptOf(d, s, m)
<1> DEFINE r == s[m]
           n == Len(q)
           A == Append(q, r)
<1>1. r \in T /\ Len(s) \in Nat /\ n \in Nat /\ DOMAIN q = 1 .. n BY LenProperties, ElementOfSeq
<1>2. o \in Nat /\ m \in Nat /\ m = o + 1 /\ m \in 1 .. m BY <1>1
<1>3. \A k \in 1 .. m : k \in 1 .. o \/ k = m BY <1>2
<1>4. \A k \in 1 .. o : k \in 1 .. m /\ k \in 1 .. Len(s) /\ k <= m BY <1>1, <1>2
<1>5. /\ \A i, j \in 1 .. n : DedupeKey(q[i]) = DedupeKey(q[j]) => i = j
      /\ \A i \in 1 .. n : \E k \in 1 .. o : q[i] = s[k]
      /\ \A k \in 1 .. o : \E i \in 1 .. n :
            DedupeKey(q[i]) = DedupeKey(s[k]) /\ (s[k].source = "static_config" => q[i].source = "static_config")
    BY DEF KeptOf
<1>6. CASE \E i \in 1 .. n : DedupeKey(q[i]) = DedupeKey(r)
    <2>1. d = q BY <1>1, <1>6 DEF Kept
    <2>2. PICK i \in 1 .. n : DedupeKey(q[i]) = DedupeKey(r) BY <1>6
    <2>3. PICK k \in 1 .. o : q[i] = s[k] BY <1>5
    <2>4. r.source = "static_config" => q[i].source = "static_config" BY <1>4, <2>3 DEF StaticFirst
    <2>5. \A l \in 1 .. m : \E j \in 1 .. n :
              DedupeKey(q[j]) = DedupeKey(s[l]) /\ (s[l].source = "static_config" => q[j].source = "static_config")
        BY <1>3, <1>5, <2>2, <2>4
    <2>6. \A j \in 1 .. n : \E l \in 1 .. m : q[j] = s[l] BY <1>4, <1>5
    <2>7. KeptOf(q, s, m)
        <3>1. \A i1, j \in 1 .. n : DedupeKey(q[i1]) = DedupeKey(q[j]) => i1 = j BY <1>5
        <3> QED BY <2>5, <2>6, <3>1, Zenon DEF KeptOf
    <2> QED BY <2>1, <2>7
<1>7. CASE \A i \in 1 .. n : DedupeKey(q[i]) # DedupeKey(r)
    <2>1. d = A BY <1>1, <1>7 DEF Kept
    <2>2. A \in Seq(T) /\ Len(A) = n + 1 /\ A[n + 1] = r /\ \A i \in 1 .. n : A[i] = q[i]
        <3> HIDE DEF r
        <3> QED BY <1>1, AppendProperties
    <2>3. n + 1 \in 1 .. n + 1 /\ (\A i \in 1 .. n : i \in 1 .. n + 1)
          /\ \A i \in 1 .. n + 1 : i \in 1 .. n \/ i = n + 1
        BY <1>1
    <2> DEFINE w == n + 1
    <2> HIDE DEF A, w, r
    <2>4. Len(A) = w /\ A[w] = r /\ w \in 1 .. w /\ (\A i \in 1 .. n : i \in 1 .. w)
          /\ \A i \in 1 .. w : i \in 1 .. n \/ i = w
        BY <2>2, <2>3 DEF w
    <2> HIDE DEF n
    <2>5. \A i, j \in 1 .. w : DedupeKey(A[i]) = DedupeKey(A[j]) => i = j
        <3> SUFFICES ASSUME NEW i \in 1 .. w, NEW j \in 1 .. w, DedupeKey(A[i]) = DedupeKey(A[j]) PROVE i = j
            OBVIOUS
        <3>1. CASE i \in 1 .. n /\ j \in 1 .. n BY <1>5, <2>2, <3>1
        <3>2. CASE i \in 1 .. n /\ j = w BY <1>7, <2>2, <2>4, <3>2
        <3>3. CASE i = w /\ j \in 1 .. n BY <1>7, <2>2, <2>4, <3>3
        <3> QED BY <2>4, <3>1, <3>2, <3>3
    <2>6. \A i \in 1 .. w : \E k \in 1 .. m : A[i] = s[k]
        <3> SUFFICES ASSUME NEW i \in 1 .. w PROVE \E k \in 1 .. m : A[i] = s[k] OBVIOUS
        <3>1. CASE i \in 1 .. n BY <1>4, <1>5, <2>2, <3>1
        <3>2. CASE i = w BY <1>2, <2>4, <3>2 DEF r
        <3> QED BY <2>4, <3>1, <3>2
    <2>7. \A k \in 1 .. m : \E i \in 1 .. w :
              DedupeKey(A[i]) = DedupeKey(s[k]) /\ (s[k].source = "static_config" => A[i].source = "static_config")
        <3> SUFFICES ASSUME NEW k \in 1 .. m
                     PROVE  \E i \in 1 .. w : DedupeKey(A[i]) = DedupeKey(s[k])
                                 /\ (s[k].source = "static_config" => A[i].source = "static_config")
            OBVIOUS
        <3>1. CASE k \in 1 .. o
            <4>1. PICK i \in 1 .. n : DedupeKey(q[i]) = DedupeKey(s[k])
                                 /\ (s[k].source = "static_config" => q[i].source = "static_config")
                BY <1>5, <3>1
            <4> QED BY <2>2, <2>4, <4>1
        <3>2. CASE k = m BY <2>4, <3>2 DEF r
        <3> QED BY <1>3, <3>1, <3>2
    <2>8. Len(A) = w BY <2>4
    <2>9. KeptOf(A, s, m) BY <2>5, <2>6, <2>7, <2>8, Zenon DEF KeptOf
    <2> QED BY <2>1, <2>2, <2>9
<1> QED BY <1>6, <1>7

(* What the loop keeps in the end.                                         *)
LEMMA DedupedIs ==
    ASSUME NEW T, NEW s \in Seq(T), StaticFirst(s), NEW Z, Z = Deduped(s)
    PROVE  Z \in Seq(T) /\ KeptOf(Z, s, Len(s))
<1> DEFINE n == Len(s)
           U == Seq(T)
           e == <<>>
           next == [p \in (1 .. n) \X U |-> Kept(p[2], s[p[1]])]
           Eq(f) == f = [i \in 0 .. n |-> IF i = 0 THEN <<>> ELSE Kept(f[i - 1], s[i])]
           g == CHOOSE f : Eq(f)
<1>1. n \in Nat /\ \A i \in 1 .. n : s[i] \in T BY LenProperties, ElementOfSeq
<1>2. \A q \in U : \A r \in T : Kept(q, r) \in U
    <2>1. \A q \in U : \A r \in T : Append(q, r) \in U BY AppendProperties
    <2> QED BY <2>1 DEF Kept
<1>3. e \in U OBVIOUS
<1> HIDE DEF n, U
<1>4. next \in [(1 .. n) \X U -> U] BY <1>1, <1>2
<1>5. \A i \in 1 .. n : \A q \in U : next[<<i, q>>] = Kept(q, s[i]) OBVIOUS
<1> HIDE DEF next
<1>6. PICK f \in [0 .. n -> U] : Solves(f, e, n, next)
    <2> HIDE DEF e
    <2> QED BY <1>1, <1>3, <1>4, LoopExists
<1>7. 0 \in 0 .. n /\ \A i \in 1 .. n : i \in 0 .. n /\ i # 0 /\ i - 1 \in 0 .. n BY <1>1
<1>8. \A i \in 0 .. n : i # 0 => i \in 1 .. n BY <1>1
<1>9. Eq(f)
    <2>1. f[0] = <<>> /\ \A i \in 1 .. n : f[i] = Kept(f[i - 1], s[i]) BY <1>5, <1>6, <1>7 DEF Solves
    <2> QED BY <1>8, <2>1
<1>10. Eq(g) BY <1>9, Zenon
<1>11. Z = g[n] BY Zenon DEF Deduped, Loop, n, Kept
<1> HIDE DEF g
<1>12. g[0] = <<>> /\ \A i \in 1 .. n : g[i] = Kept(g[i - 1], s[i]) BY <1>7, <1>10
<1> HIDE DEF Eq
<1> DEFINE G == {i \in 0 .. n : g[i] \in U /\ KeptOf(g[i], s, i)}
<1>13. 0 \in G
    <2>1. KeptOf(<<>>, s, 0) BY DEF KeptOf
    <2> QED BY <1>3, <1>7, <1>12, <2>1
<1>14. ASSUME NEW i \in 1 .. n, i - 1 \in G PROVE i \in G
    <2> DEFINE o == i - 1
               q == g[o]
    <2>1. q \in Seq(T) /\ KeptOf(q, s, o) BY <1>14 DEF U
    <2>2. g[i] = Kept(q, s[i]) BY <1>12
    <2>3. o = i - 1 /\ i \in 1 .. Len(s) BY DEF n
    <2> HIDE DEF o, q
    <2>4. g[i] \in Seq(T) /\ KeptOf(g[i], s, i) BY <2>1, <2>2, <2>3, KeepsOn
    <2> QED BY <1>7, <2>4 DEF U
<1>15. n \in G
    <2> HIDE DEF G
    <2>1. \A i \in 0 .. n : i \in G BY <1>1, <1>13, <1>14, UpTo, Zenon
    <2>2. n \in 0 .. n BY <1>1
    <2> QED BY <2>1, <2>2
<1> QED BY <1>11, <1>15 DEF U, n

(* A run of Discover finds every candidate's endpoint once.                *)
LEMMA DiscoverIs ==
    ASSUME NEW c \in DiscoverInputs, NEW Z, Z = Discover(c).records
    PROVE  /\ Z \in Seq(Findings(c)) /\ Enumerates(AllCandidates(c), Findings(c))
           /\ KeptOf(Z, AllCandidates(c), Len(AllCandidates(c)))
<1> DEFINE T == Findings(c)
           s == AllCandidates(c)
<1>1. Enumerates(s, T) /\ StaticFirst(s) BY CandidatesAre
<1>2. Z = Deduped(s) BY DEF Discover
<1> HIDE DEF T, s
<1>3. Z \in Seq(T) /\ KeptOf(Z, s, Len(s)) BY <1>1, <1>2, DedupedIs DEF Enumerates
<1> QED BY <1>1, <1>3 DEF T, s

(* A record of a run is found again by what makeID puts into its name,     *)
(* unless it has a twin.                                                   *)
LEMMA NameTells ==
    ASSUME NEW c \in DiscoverInputs, NEW Z, Z = Discover(c).records,
           NEW r \in Range(Z), NEW q \in Range(Z), MakeID(r, TRUE) = MakeID(q, TRUE)
    PROVE  r = q \/ Twins(r, q)
<1>1. /\ SanitizeID(r) = SanitizeID(q) /\ r.source = q.source /\ r.endpoint = q.endpoint
      /\ r.protocol = q.protocol
    BY DEF MakeID
<1>2. /\ Z \in Seq(Findings(c))
      /\ \A i, j \in 1 .. Len(Z) : DedupeKey(Z[i]) = DedupeKey(Z[j]) => i = j
    BY DiscoverIs DEF KeptOf
<1>3. DOMAIN Z = 1 .. Len(Z) /\ \A i \in 1 .. Len(Z) : Z[i] \in Findings(c)
    BY <1>2, LenProperties, ElementOfSeq
<1>4. PICK i \in 1 .. Len(Z) : r = Z[i] BY <1>3 DEF Range
<1>5. PICK j \in 1 .. Len(Z) : q = Z[j] BY <1>3 DEF Range
<1>6. CASE r.source = "static_config" BY <1>1, <1>6 DEF Twins
<1>7. CASE r.source # "static_config"
    <2>1. r \in Fetched(c) /\ q \in Fetched(c)
        <3>1. r \in Findings(c) /\ q \in Findings(c) BY <1>3, <1>4, <1>5
        <3>2. q.source # "static_config" BY <1>1, <1>7
        <3>3. r \in Configured(c.static) \cup Fetched(c) /\ q \in Configured(c.static) \cup Fetched(c)
            BY <3>1, FindingsAre
        <3> QED BY <1>7, <3>2, <3>3, SourceTells
    <2>2. PICK id1, p1, u1 : \E source \in {"env", "local_proxy_scan", "llms_txt"} :
               r = DiscoveredTarget(id1, p1, TransportOf(source, u1), u1, source)
        BY <2>1, FetchedIs
    <2>3. PICK s1 \in {"env", "local_proxy_scan", "llms_txt"} :
               r = DiscoveredTarget(id1, p1, TransportOf(s1, u1), u1, s1)
        BY <2>2
    <2>4. PICK id2, p2, u2 : \E source \in {"env", "local_proxy_scan", "llms_txt"} :
               q = DiscoveredTarget(id2, p2, TransportOf(source, u2), u2, source)
        BY <2>1, FetchedIs
    <2>5. PICK s2 \in {"env", "local_proxy_scan", "llms_txt"} :
               q = DiscoveredTarget(id2, p2, TransportOf(s2, u2), u2, s2)
        BY <2>4
    <2>6. r.endpoint = u1 /\ r.source = s1 /\ r.transport = TransportOf(s1, u1) BY <2>3 DEF DiscoveredTarget
    <2>7. q.endpoint = u2 /\ q.source = s2 /\ q.transport = TransportOf(s2, u2) BY <2>5 DEF DiscoveredTarget
    <2>8. u1 = u2 /\ s1 = s2 BY <1>1, <2>6, <2>7
    <2>9. r.transport = q.transport BY <2>6, <2>7, <2>8
    <2>10. DedupeKey(r) = DedupeKey(q) BY <1>1, <2>9 DEF DedupeKey
    <2> QED BY <1>2, <1>4, <1>5, <2>10
<1> QED BY <1>6, <1>7

(* The first two rules about findings.                                     *)
LEMMA FindingsTell ==
    ASSUME RulesTold, topic = "discover", out # <<>>
    PROVE  FoundOnce /\ NoErrorMeansAll
<1> DEFINE s == AllCandidates(in)
           Z == Answer.records
           T == Findings(in)
<1>1. in \in DiscoverInputs /\ Answer = Discover(in)
    <2>1. in \in DiscoverInputs /\ out = <<Discover(in)>> BY DEF RulesTold, DiscoveryTold, Told
    <2> QED BY <2>1 DEF Answer
<1>2. Z \in Seq(T) /\ Enumerates(s, T) /\ KeptOf(Z, s, Len(s)) BY <1>1, DiscoverIs
<1>3. FoundOnce
    <2> SUFFICES /\ \A i, j \in DOMAIN Z : DedupeKey(Z[i]) = DedupeKey(Z[j]) => i = j
                 /\ Range(Z) \subseteq T
                 /\ \A r \in T : \E x \in Range(Z) :
                       DedupeKey(x) = DedupeKey(r) /\ (r.source = "static_config" => x.source = "static_config")
        BY Zenon DEF FoundOnce
    <2> HIDE DEF Z, s, T
    <2>1. DOMAIN Z = 1 .. Len(Z) /\ \A i \in 1 .. Len(Z) : Z[i] \in T BY <1>2, LenProperties, ElementOfSeq
    <2>2. \A i, j \in DOMAIN Z : DedupeKey(Z[i]) = DedupeKey(Z[j]) => i = j BY <1>2, <2>1 DEF KeptOf
    <2>3. ASSUME NEW r \in T
          PROVE  \E x \in Range(Z) :
                     DedupeKey(x) = DedupeKey(r) /\ (r.source = "static_config" => x.source = "static_config")
        <3>1. PICK k \in 1 .. Len(s) : r = s[k] BY <1>2 DEF Enumerates
        <3>2. PICK i \in 1 .. Len(Z) : DedupeKey(Z[i]) = DedupeKey(s[k])
                    /\ (s[k].source = "static_config" => Z[i].source = "static_config")
            BY <1>2 DEF KeptOf
        <3>3. Z[i] \in Range(Z) BY <2>1 DEF Range
        <3> QED BY <3>1, <3>2, <3>3
    <2>4. Range(Z) \subseteq T BY <2>1 DEF Range
    <2> QED BY <2>2, <2>3, <2>4
<1>4. NoErrorMeansAll
    <2> SUFFICES ASSUME in.enabled, ~Answer.errors, ~LastPortCut(in)
                 PROVE  /\ in.lives = Items(in)
                        /\ \A i \in DOMAIN in.candidates : in.candidates[i].url.scheme \in {"http", "ws"}
                        /\ \A i \in DOMAIN in.ports : in.ports[i].state # "invalid"
                        /\ \A i \in DOMAIN in.docs : in.docs[i].state = "ok"
        BY Zenon DEF NoErrorMeansAll
    <2> DEFINE x == Len(in.candidates)
               y == Len(in.ports)
               z == Len(in.docs)
               lc == LiveCandidates(in)
               lp == LivePorts(in)
               ld == LiveDocs(in)
    <2>1. ~FromEnv(in).errors /\ ~FromScan(in).errors /\ ~FromLLMSTxt(in).errors
        <3>1. Answer.errors = (in.enabled /\ (FromEnv(in).errors \/ FromScan(in).errors \/ FromLLMSTxt(in).errors))
            BY <1>1 DEF Discover
        <3> QED BY <3>1
    <2>2. /\ in.candidates \in Seq(EnvCandidate) /\ in.ports \in Seq(Port) /\ in.docs \in Seq(Doc)
          /\ in.lives \in Nat /\ in.lives <= Items(in) /\ x \in Nat /\ y \in Nat /\ z \in Nat
          /\ Left(in.lives, x) \in Nat /\ Left(in.lives, x + y) \in Nat
        BY <1>1, InputsAre
    <2>3. ~(in.lives < x) /\ \A i \in DOMAIN lc : lc[i] \in Usable(lc) BY <2>1 DEF FromEnv
    <2>4. ~(in.lives < x + y /\ in.ports # <<>>) /\ \A i \in DOMAIN lp : lp[i].state # "invalid"
        BY <2>1 DEF FromScan
    <2>5. ~(in.lives < x + y + z /\ in.docs # <<>>) /\ \A i \in DOMAIN ld : ld[i].state # "down"
        BY <2>1 DEF FromLLMSTxt
    <2>6. (in.ports = <<>> => y = 0) /\ (in.docs = <<>> => z = 0) OBVIOUS
    <2>7. Items(in) = x + y + z BY DEF Items
    <2> HIDE DEF lc, lp, ld, EnvCandidate, Port, Doc
    <2>8. /\ DOMAIN in.candidates = 1 .. x /\ DOMAIN in.ports = 1 .. y /\ DOMAIN in.docs = 1 .. z
        BY <2>2, LenProperties
    <2> HIDE DEF x, y, z
    <2>9. in.lives >= x /\ in.lives >= x + y /\ in.lives = x + y + z
        <3>1. in.lives >= x BY <2>2, <2>3
        <3>2. in.lives >= x + y BY <2>2, <2>4, <2>6, <3>1
        <3>3. in.lives >= x + y + z BY <2>2, <2>5, <2>6, <3>2
        <3> QED BY <2>2, <2>7, <3>1, <3>2, <3>3
    <2>10. Left(in.lives, x) >= y /\ Left(in.lives, x + y) >= z
        BY <2>2, <2>9 DEF Left
    <2>11. DOMAIN lc = 1 .. x /\ \A i \in 1 .. x : lc[i] = in.candidates[i]
        BY <2>2, <2>9, LastingIs DEF lc, LiveCandidates, x
    <2>12. DOMAIN lp = 1 .. y /\ \A i \in 1 .. y : lp[i] = in.ports[i]
        BY <2>2, <2>10, LastingIs DEF lp, LivePorts, x, y
    <2>13. DOMAIN ld = 1 .. z /\ \A i \in 1 .. z : ld[i] = in.docs[i]
        <3> DEFINE l == Left(in.lives, x + y)
                   d == in.docs
        <3>1. ld = Lasting(d, l) BY DEF ld, LiveDocs, x, y
        <3>2. d \in Seq(Doc) /\ l \in Nat /\ l >= Len(d) /\ z = Len(d) BY <2>2, <2>10 DEF z
        <3> HIDE DEF l, d
        <3>3. DOMAIN ld = 1 .. z /\ \A i \in 1 .. z : ld[i] = d[i] BY <3>1, <3>2, LastingIs
        <3> QED BY <3>3 DEF d
    <2>14. \A i \in 1 .. x : in.candidates[i].url.scheme \in {"http", "ws"} BY <2>3, <2>11 DEF Usable
    <2>15. \A i \in 1 .. z : in.docs[i].state = "ok"
        <3>1. \A i \in 1 .. z : in.docs[i] \in Doc BY <2>2, ElementOfSeq DEF z
        <3>2. \A d \in Doc : d.state \in {"ok", "down"} BY DEF Doc
        <3> QED BY <2>5, <2>13, <3>1, <3>2
    <2>16. \A i \in 1 .. y : in.ports[i].state # "invalid" BY <2>4, <2>12
    <2> QED BY <2>7, <2>8, <2>9, <2>14, <2>15, <2>16
<1> QED BY <1>3, <1>4

(* Files with names of N and contents of R, and the states of a save.      *)
FileSets(R, N) == UNION {[S -> R] : S \in SUBSET N}

(* The states of the loop of a save.                                       *)
SaveStates(R, N) == [files : FileSets(R, N), failed : BOOLEAN]

(* What sets of files are.                                                 *)
LEMMA FilesAre ==
    ASSUME NEW R, NEW N, NEW F \in FileSets(R, N)
    PROVE  DOMAIN F \subseteq N /\ F \in [DOMAIN F -> R]
<1>1. PICK S \in SUBSET N : F \in [S -> R] BY DEF FileSets
<1>2. DOMAIN F = S BY <1>1
<1> QED BY <1>1, <1>2

(* What a write does: it adds or replaces one file, or fails.              *)
Written(d, name, r, overwrite, e) ==
    /\ DOMAIN d.files \subseteq DOMAIN e.files
    /\ \A n \in DOMAIN e.files : (n \in DOMAIN d.files /\ e.files[n] = d.files[n]) \/ (n = name /\ e.files[n] = r)
    /\ e.failed = FALSE => d.failed = FALSE /\ name \in DOMAIN e.files
    /\ overwrite = FALSE => \A n \in DOMAIN d.files : e.files[n] = d.files[n]
    /\ overwrite = FALSE /\ name \in DOMAIN d.files => e.failed = TRUE
    /\ d.failed = FALSE /\ name \notin DOMAIN d.files => name \in DOMAIN e.files

(* Every write is one of those.                                            *)
LEMMA WriteIs ==
    ASSUME NEW R, NEW N, NEW d \in SaveStates(R, N), NEW name \in N, NEW r \in R,
           NEW overwrite \in BOOLEAN, NEW e, e = WriteFile(d, name, r, overwrite)
    PROVE  e \in SaveStates(R, N) /\ Written(d, name, r, overwrite, e)
<1> DEFINE F == d.files
           W == [n \in DOMAIN F \cup {name} |-> IF n = name THEN r ELSE F[n]]
<1>1. F \in FileSets(R, N) /\ d.failed \in BOOLEAN BY DEF SaveStates
<1>2. DOMAIN F \subseteq N /\ F \in [DOMAIN F -> R]
    <2> HIDE DEF F
    <2> QED BY <1>1, FilesAre
<1>3. CASE d.failed = TRUE
    <2>1. e = d BY <1>3 DEF WriteFile
    <2> QED BY <1>3, <2>1 DEF Written
<1>4. CASE d.failed = FALSE /\ name \in DOMAIN F /\ overwrite = FALSE
    <2>1. e = [d EXCEPT !.failed = TRUE] BY <1>4 DEF WriteFile
    <2>2. e \in SaveStates(R, N) /\ e.files = F /\ e.failed = TRUE BY <1>1, <2>1 DEF SaveStates
    <2> QED BY <1>4, <2>2 DEF Written
<1>5. CASE d.failed = FALSE /\ ~(name \in DOMAIN F /\ overwrite = FALSE)
    <2>1. e = [d EXCEPT !.files = W] BY <1>5 DEF WriteFile
    <2>2. DOMAIN W = DOMAIN F \cup {name} /\ W \in [DOMAIN F \cup {name} -> R] BY <1>2
    <2>3. DOMAIN F \cup {name} \in SUBSET N BY <1>2
    <2>4. W \in FileSets(R, N)
        <3> DEFINE S == DOMAIN F \cup {name}
        <3>1. S \in SUBSET N /\ W \in [S -> R] BY <2>2, <2>3
        <3> HIDE DEF W, S
        <3> QED BY <3>1 DEF FileSets
    <2>5. (\A n \in DOMAIN F : n # name => W[n] = F[n]) /\ W[name] = r BY <2>2
    <2> HIDE DEF W
    <2>6. e \in SaveStates(R, N) /\ e.files = W /\ e.failed = FALSE BY <1>1, <1>5, <2>1, <2>4 DEF SaveStates
    <2>7. overwrite = FALSE => name \notin DOMAIN F BY <1>5
    <2>8. \A n \in DOMAIN W : (n \in DOMAIN F /\ W[n] = F[n]) \/ (n = name /\ W[n] = r) BY <2>2, <2>5
    <2>9. overwrite = FALSE => \A n \in DOMAIN F : W[n] = F[n] BY <2>5, <2>7
    <2> HIDE DEF F
    <2>10. Written(d, name, r, overwrite, e) BY <1>5, <2>2, <2>6, <2>7, <2>8, <2>9 DEF Written, F
    <2> QED BY <2>6, <2>10
<1> QED BY <1>1, <1>3, <1>4, <1>5

(* Every file is named for what is in it.                                  *)
Faithful(files, unique) == \A n \in DOMAIN files : \E f : n = <<MakeID(files[n], unique), f>>

(* The names a record is saved under, and the turn of the loop that does.  *)
Name(r, unique, k) == <<MakeID(r, unique), Formats[k]>>

(* The names of the files of a save.                                       *)
Names(R, unique) == {Name(r, unique, k) : r \in R, k \in 1 .. 2}

(* A turn of the loop of a save: one record, in both formats.              *)
SaveStep(d, r, unique, overwrite) ==
    WriteFile(WriteFile(d, Name(r, unique, 1), r, overwrite), Name(r, unique, 2), r, overwrite)

(* What a turn of the loop of a save does.                                 *)
SaveTurn(d, r, unique, overwrite, e) ==
    /\ DOMAIN d.files \subseteq DOMAIN e.files
    /\ Faithful(d.files, unique) => Faithful(e.files, unique)
    /\ e.failed = FALSE =>
          d.failed = FALSE /\ Name(r, unique, 1) \in DOMAIN e.files /\ Name(r, unique, 2) \in DOMAIN e.files
    /\ overwrite = FALSE => \A n \in DOMAIN d.files : e.files[n] = d.files[n]
    /\ overwrite = FALSE /\ Name(r, unique, 1) \in DOMAIN d.files => e.failed = TRUE
    /\ d.failed = FALSE /\ Name(r, unique, 1) \notin DOMAIN d.files => Name(r, unique, 1) \in DOMAIN e.files

(* A write keeps files faithful.                                           *)
LEMMA WriteFaithful ==
    ASSUME NEW d, NEW r, NEW unique, NEW k, NEW overwrite, NEW e,
           Written(d, Name(r, unique, k), r, overwrite, e), Faithful(d.files, unique)
    PROVE  Faithful(e.files, unique)
<1> SUFFICES ASSUME NEW n \in DOMAIN e.files PROVE \E f : n = <<MakeID(e.files[n], unique), f>>
    BY DEF Faithful
<1>1. CASE n \in DOMAIN d.files /\ e.files[n] = d.files[n]
    <2>1. PICK f : n = <<MakeID(d.files[n], unique), f>> BY <1>1 DEF Faithful
    <2> QED BY <1>1, <2>1
<1>2. CASE n = Name(r, unique, k) /\ e.files[n] = r BY <1>2 DEF Name
<1> QED BY <1>1, <1>2 DEF Written

(* What saving one record does.                                            *)
LEMMA SaveStepIs ==
    ASSUME NEW R, NEW unique, NEW d \in SaveStates(R, Names(R, unique)), NEW r \in R,
           NEW overwrite \in BOOLEAN, NEW e, e = SaveStep(d, r, unique, overwrite)
    PROVE  e \in SaveStates(R, Names(R, unique)) /\ SaveTurn(d, r, unique, overwrite, e)
<1> DEFINE N == Names(R, unique)
           n1 == Name(r, unique, 1)
           n2 == Name(r, unique, 2)
           m == WriteFile(d, n1, r, overwrite)
<1>1. n1 \in N /\ n2 \in N BY DEF Names
<1>2. e = WriteFile(m, n2, r, overwrite) BY DEF SaveStep
<1>3. m = WriteFile(d, n1, r, overwrite) OBVIOUS
<1> HIDE DEF N, n1, n2, m
<1>4. d \in SaveStates(R, N) BY DEF N
<1>5. m \in SaveStates(R, N) /\ Written(d, n1, r, overwrite, m) BY <1>1, <1>3, <1>4, WriteIs
<1>6. e \in SaveStates(R, N) /\ Written(m, n2, r, overwrite, e) BY <1>1, <1>2, <1>5, WriteIs
<1>7. Faithful(d.files, unique) => Faithful(e.files, unique)
    <2> SUFFICES ASSUME Faithful(d.files, unique) PROVE Faithful(e.files, unique) OBVIOUS
    <2>1. Faithful(m.files, unique) BY <1>5, WriteFaithful DEF n1
    <2> QED BY <1>6, <2>1, WriteFaithful DEF n2
<1>8. m.failed \in BOOLEAN /\ e.failed \in BOOLEAN BY <1>5, <1>6 DEF SaveStates
<1>9. m.failed = TRUE => e.failed = TRUE BY <1>6, <1>8 DEF Written
<1>10. SaveTurn(d, r, unique, overwrite, e)
    <2>1. DOMAIN d.files \subseteq DOMAIN m.files /\ DOMAIN m.files \subseteq DOMAIN e.files
        BY <1>5, <1>6 DEF Written
    <2>2. e.failed = FALSE => d.failed = FALSE /\ n1 \in DOMAIN e.files /\ n2 \in DOMAIN e.files
        BY <1>5, <1>6, <2>1 DEF Written
    <2>3. overwrite = FALSE => \A n \in DOMAIN d.files : e.files[n] = d.files[n]
        BY <1>5, <1>6, <2>1 DEF Written
    <2>4. overwrite = FALSE /\ n1 \in DOMAIN d.files => e.failed = TRUE BY <1>5, <1>9 DEF Written
    <2>5. d.failed = FALSE /\ n1 \notin DOMAIN d.files => n1 \in DOMAIN e.files BY <1>5, <2>1 DEF Written
    <2>6. DOMAIN d.files \subseteq DOMAIN e.files BY <2>1
    <2> QED BY <1>7, <2>2, <2>3, <2>4, <2>5, <2>6 DEF SaveTurn, n1, n2
<1> QED BY <1>6, <1>10 DEF N

(* The states g that the loop of a save goes through.                      *)
SavePath(R, files, s, unique, overwrite, g) ==
    /\ g[0] = [files |-> files, failed |-> FALSE]
    /\ SaveDiscoveryRecords(files, s, unique, overwrite) = g[Len(s)]
    /\ \A i \in 0 .. Len(s) : g[i] \in SaveStates(R, Names(R, unique))
    /\ \A i \in 1 .. Len(s) : g[i] = SaveStep(g[i - 1], s[i], unique, overwrite)

(* There are such states.                                                  *)
LEMMA SaveLoop ==
    ASSUME NEW R, NEW unique, NEW files \in FileSets(R, Names(R, unique)), NEW s \in Seq(R),
           NEW overwrite \in BOOLEAN
    PROVE  \E g : SavePath(R, files, s, unique, overwrite, g)
<1> DEFINE n == Len(s)
           U == SaveStates(R, Names(R, unique))
           e == [files |-> files, failed |-> FALSE]
           Step(q, r) == SaveStep(q, r, unique, overwrite)
           next == [p \in (1 .. n) \X U |-> Step(p[2], s[p[1]])]
           Eq(f) == f = [i \in 0 .. n |-> IF i = 0 THEN [files |-> files, failed |-> FALSE]
                                          ELSE SaveStep(f[i - 1], s[i], unique, overwrite)]
           g == CHOOSE f : Eq(f)
<1>1. n \in Nat /\ \A i \in 1 .. n : s[i] \in R BY LenProperties, ElementOfSeq
<1>2. \A q \in U : \A r \in R : Step(q, r) \in U BY SaveStepIs
<1>3. e \in U BY DEF SaveStates
<1> HIDE DEF n, U
<1>4. next \in [(1 .. n) \X U -> U]
    <2> HIDE DEF Step
    <2> QED BY <1>1, <1>2
<1>5. \A i \in 1 .. n : \A q \in U : next[<<i, q>>] = Step(q, s[i]) OBVIOUS
<1> HIDE DEF next
<1>6. PICK f \in [0 .. n -> U] : Solves(f, e, n, next)
    <2> HIDE DEF e
    <2> QED BY <1>1, <1>3, <1>4, LoopExists
<1>7. 0 \in 0 .. n /\ \A i \in 1 .. n : i \in 0 .. n /\ i # 0 /\ i - 1 \in 0 .. n BY <1>1
<1>8. \A i \in 0 .. n : i # 0 => i \in 1 .. n BY <1>1
<1>9. Eq(f)
    <2>1. f[0] = e /\ \A i \in 1 .. n : f[i] = Step(f[i - 1], s[i])
        <3> HIDE DEF Step, e
        <3> QED BY <1>5, <1>6, <1>7 DEF Solves
    <2> QED BY <1>8, <2>1
<1>10. Eq(g) BY <1>9, Zenon
<1>11. SaveDiscoveryRecords(files, s, unique, overwrite) = g[n]
    BY Zenon DEF SaveDiscoveryRecords, Loop, n, SaveStep, Name
<1> HIDE DEF g
<1>12. g[0] = e /\ \A i \in 1 .. n : g[i] = Step(g[i - 1], s[i]) BY <1>7, <1>10
<1> HIDE DEF Eq, Step, e
<1> DEFINE G == {i \in 0 .. n : g[i] \in U}
<1>13. 0 \in G BY <1>3, <1>7, <1>12
<1>14. ASSUME NEW i \in 1 .. n, i - 1 \in G PROVE i \in G
    <2>1. g[i - 1] \in U /\ s[i] \in R BY <1>1, <1>14
    <2> QED BY <1>2, <1>7, <1>12, <2>1
<1>15. \A i \in 0 .. n : i \in G
    <2> HIDE DEF G
    <2> QED BY <1>1, <1>13, <1>14, UpTo, Zenon
<1>16. \A i \in 0 .. n : g[i] \in U BY <1>15
<1>17. SavePath(R, files, s, unique, overwrite, g)
    BY <1>11, <1>12, <1>16, Zenon DEF SavePath, U, n, Step, e
<1> QED BY <1>17

(* What a save that got as far as the i-th record has done, from files.    *)
SavedSoFar(files, s, unique, overwrite, i, h) ==
    /\ Faithful(h.files, unique) /\ DOMAIN files \subseteq DOMAIN h.files
    /\ h.failed = FALSE => \A k \in 1 .. i :
          Name(s[k], unique, 1) \in DOMAIN h.files /\ Name(s[k], unique, 2) \in DOMAIN h.files
    /\ overwrite = FALSE => \A n \in DOMAIN files : h.files[n] = files[n]
    /\ i = 0 => h.files = files /\ h.failed = FALSE
    /\ i # 0 /\ overwrite = FALSE /\ Name(s[1], unique, 1) \in DOMAIN files => h.failed = TRUE
    /\ i # 0 /\ Name(s[1], unique, 1) \notin DOMAIN files => Name(s[1], unique, 1) \in DOMAIN h.files

(* One more record.                                                        *)
LEMMA SavesOn ==
    ASSUME NEW R, NEW unique, NEW files, NEW s \in Seq(R), NEW overwrite \in BOOLEAN,
           NEW i \in 1 .. Len(s), NEW o, o = i - 1,
           NEW d \in SaveStates(R, Names(R, unique)), NEW e \in SaveStates(R, Names(R, unique)),
           SavedSoFar(files, s, unique, overwrite, o, d), SaveTurn(d, s[i], unique, overwrite, e)
    PROVE  SavedSoFar(files, s, unique, overwrite, i, e)
<1>1. Len(s) \in Nat BY LenProperties
<1>2. o \in Nat /\ i \in Nat /\ i # 0 /\ (o = 0 => i = 1) /\ \A k \in 1 .. i : k \in 1 .. o \/ k = i BY <1>1
<1>3. d.failed \in BOOLEAN /\ e.failed \in BOOLEAN BY DEF SaveStates
<1>4. Faithful(e.files, unique) /\ DOMAIN files \subseteq DOMAIN e.files BY DEF SavedSoFar, SaveTurn
<1>5. e.failed = FALSE => \A k \in 1 .. i :
          Name(s[k], unique, 1) \in DOMAIN e.files /\ Name(s[k], unique, 2) \in DOMAIN e.files
    BY <1>2 DEF SavedSoFar, SaveTurn
<1>6. overwrite = FALSE => \A n \in DOMAIN files : e.files[n] = files[n] BY DEF SavedSoFar, SaveTurn
<1>7. overwrite = FALSE /\ Name(s[1], unique, 1) \in DOMAIN files => e.failed = TRUE
    <2> SUFFICES ASSUME overwrite = FALSE, Name(s[1], unique, 1) \in DOMAIN files PROVE e.failed = TRUE OBVIOUS
    <2>1. CASE o = 0
        <3>1. d.files = files /\ i = 1 BY <1>2, <2>1 DEF SavedSoFar
        <3> QED BY <3>1 DEF SaveTurn
    <2>2. CASE o # 0
        <3>1. d.failed = TRUE BY <2>2 DEF SavedSoFar
        <3> QED BY <1>3, <3>1 DEF SaveTurn
    <2> QED BY <2>1, <2>2
<1>8. Name(s[1], unique, 1) \notin DOMAIN files => Name(s[1], unique, 1) \in DOMAIN e.files
    <2> SUFFICES ASSUME Name(s[1], unique, 1) \notin DOMAIN files PROVE Name(s[1], unique, 1) \in DOMAIN e.files
        OBVIOUS
    <2>1. CASE o = 0
        <3>1. d.files = files /\ d.failed = FALSE /\ i = 1 BY <1>2, <2>1 DEF SavedSoFar
        <3> QED BY <3>1 DEF SaveTurn
    <2>2. CASE o # 0
        <3>1. Name(s[1], unique, 1) \in DOMAIN d.files BY <2>2 DEF SavedSoFar
        <3> QED BY <3>1 DEF SaveTurn
    <2> QED BY <2>1, <2>2
<1> QED BY <1>2, <1>4, <1>5, <1>6, <1>7, <1>8 DEF SavedSoFar

(* A whole save.                                                           *)
LEMMA SaveSound ==
    ASSUME NEW R, NEW unique, NEW files \in FileSets(R, Names(R, unique)), Faithful(files, unique),
           NEW s \in Seq(R), NEW overwrite \in BOOLEAN,
           NEW Z, Z = SaveDiscoveryRecords(files, s, unique, overwrite)
    PROVE  Z \in SaveStates(R, Names(R, unique)) /\ SavedSoFar(files, s, unique, overwrite, Len(s), Z)
<1> DEFINE n == Len(s)
           U == SaveStates(R, Names(R, unique))
<1>1. n \in Nat /\ \A i \in 1 .. n : s[i] \in R BY LenProperties, ElementOfSeq
<1>2. PICK g : SavePath(R, files, s, unique, overwrite, g) BY SaveLoop
<1>3. /\ g[0] = [files |-> files, failed |-> FALSE] /\ Z = g[n]
      /\ \A i \in 0 .. n : g[i] \in U
      /\ \A i \in 1 .. n : g[i] = SaveStep(g[i - 1], s[i], unique, overwrite)
    BY <1>2, Zenon DEF SavePath
<1> DEFINE G == {i \in 0 .. n : SavedSoFar(files, s, unique, overwrite, i, g[i])}
<1>4. 0 \in G
    <2>1. g[0].files = files /\ g[0].failed = FALSE BY <1>3
    <2>2. 0 \in 0 .. n BY <1>1
    <2>3. SavedSoFar(files, s, unique, overwrite, 0, g[0]) BY <2>1 DEF SavedSoFar
    <2> QED BY <2>2, <2>3
<1>5. ASSUME NEW i \in 1 .. n, i - 1 \in G PROVE i \in G
    <2> DEFINE o == i - 1
    <2>1. i \in 0 .. n /\ o \in 0 .. n /\ o = i - 1 BY <1>1
    <2>2. SavedSoFar(files, s, unique, overwrite, o, g[o]) BY <1>5
    <2>3. g[i] = SaveStep(g[o], s[i], unique, overwrite) /\ s[i] \in R BY <1>1, <1>3
    <2> HIDE DEF o
    <2>4. g[o] \in U /\ g[i] \in U BY <1>3, <2>1
    <2>5. SaveTurn(g[o], s[i], unique, overwrite, g[i]) BY <2>3, <2>4, SaveStepIs
    <2>6. SavedSoFar(files, s, unique, overwrite, i, g[i]) BY <2>1, <2>2, <2>4, <2>5, SavesOn
    <2> QED BY <2>1, <2>6
<1>6. n \in G
    <2> HIDE DEF G, n
    <2>1. \A i \in 0 .. n : i \in G BY <1>1, <1>4, <1>5, UpTo, Zenon
    <2>2. n \in 0 .. n BY <1>1
    <2> QED BY <2>1, <2>2
<1>7. n \in 0 .. n BY <1>1
<1> QED BY <1>3, <1>6, <1>7

(* What one discovery saves of a list is its first finding.                *)
LEMMA FirstIs ==
    ASSUME NEW R, NEW s \in Seq(R), s # <<>>, NEW F, F = First(s)
    PROVE  F \in Seq(R) /\ Len(F) # 0 /\ F[1] = s[1] /\ Len(s) # 0
<1> DEFINE h == Head(s)
<1>1. F = <<h>> BY DEF First
<1>2. Len(s) \in Nat /\ Len(s) # 0 BY EmptySeq, LenProperties
<1>3. s[1] \in R BY <1>2, ElementOfSeq
<1>4. h = s[1] OBVIOUS
<1> HIDE DEF h
<1>5. h \in R BY <1>3, <1>4
<1>6. <<h>> \in Seq(R) BY <1>5
<1>7. Len(<<h>>) = 1 /\ <<h>>[1] = h OBVIOUS
<1> QED BY <1>1, <1>2, <1>4, <1>6, <1>7

(* The last two rules about findings.                                      *)
LEMMA SavesTell ==
    ASSUME RulesTold, topic = "save", out # <<>>
    PROVE  UniqueFiles /\ SavedStays
<1> DEFINE c == in.first
           u == in.unique
           w == in.overwrite
           R == Range(Discover(c).records)
           N == Names(R, u)
           none == [n \in {} |-> 0]
           records == Discover(c).records
           first == First(records)
           once == SaveDiscoveryRecords(none, first, u, w)
           done == SaveDiscoveryRecords(once.files, records, u, w)
<1>1. in \in SaveInputs /\ out = <<[records |-> records, once |-> once.files, done |-> done]>>
    BY DEF RulesTold, DiscoveryTold, Told
<1>2. c \in DiscoverInputs /\ u \in BOOLEAN /\ w \in BOOLEAN BY <1>1 DEF SaveInputs
<1>4. Answer.records = records /\ Answer.once = once.files /\ Answer.done = done
    <2> HIDE DEF records, once, done
    <2> QED BY <1>1 DEF Answer
<1>5. records \in Seq(R)
    <2>1. records = Discover(c).records /\ R = Range(records) OBVIOUS
    <2> HIDE DEF records, R
    <2>2. records \in Seq(Findings(c)) BY <1>2, <2>1, DiscoverIs
    <2>3. DOMAIN records = 1 .. Len(records) /\ Len(records) \in Nat BY <2>2, LenProperties
    <2>4. records \in [1 .. Len(records) -> R]
        <3>1. records \in [1 .. Len(records) -> Findings(c)] BY <2>2, LenProperties
        <3> QED BY <2>1, <2>3, <3>1 DEF Range
    <2> QED BY <2>3, <2>4, SeqDef
<1>6. none \in FileSets(R, N) /\ DOMAIN none = {} /\ Faithful(none, u)
    <2>1. none \in [{} -> R] /\ DOMAIN none = {} OBVIOUS
    <2>2. {} \in SUBSET N OBVIOUS
    <2> HIDE DEF none, N, R
    <2>3. none \in FileSets(R, N) BY <2>1, <2>2 DEF FileSets
    <2> QED BY <2>1, <2>3 DEF Faithful
<1>7. first \in Seq(R)
    <2> HIDE DEF records, R
    <2>1. CASE records = <<>>
        <3>1. first = <<>> BY <2>1 DEF First
        <3> QED BY <3>1
    <2>2. CASE records # <<>>
        <3>1. first = First(records) OBVIOUS
        <3> HIDE DEF first
        <3> QED BY <1>5, <2>2, <3>1, FirstIs
    <2> QED BY <2>1, <2>2
<1>7a. records # <<>> => Len(first) # 0 /\ first[1] = records[1] /\ Len(records) # 0
    <2>1. first = First(records) OBVIOUS
    <2> HIDE DEF records, R, first
    <2> QED BY <1>5, <2>1, FirstIs
<1>8. once = SaveDiscoveryRecords(none, first, u, w) OBVIOUS
<1>9. done = SaveDiscoveryRecords(once.files, records, u, w) OBVIOUS
<1>10. records = <<>> => first = <<>> BY DEF First
<1> HIDE DEF none, records, first, once, done, R, c, w
<1>11. once \in SaveStates(R, N) /\ SavedSoFar(none, first, u, w, Len(first), once)
    <2> HIDE DEF u
    <2> QED BY <1>2, <1>6, <1>7, <1>8, SaveSound DEF N
<1>12. once.files \in FileSets(R, N) /\ Faithful(once.files, u) BY <1>11 DEF SaveStates, SavedSoFar
<1>13. done \in SaveStates(R, N) /\ SavedSoFar(once.files, records, u, w, Len(records), done)
    <2> HIDE DEF u
    <2> QED BY <1>2, <1>5, <1>9, <1>12, SaveSound DEF N
<1> HIDE DEF u, N
<1>14. done.files \in FileSets(R, N) /\ done.failed \in BOOLEAN BY <1>13 DEF SaveStates
<1>15. DOMAIN done.files \subseteq N /\ done.files \in [DOMAIN done.files -> R] BY <1>14, FilesAre
<1>16. UniqueFiles
    <2> SUFFICES ASSUME u, ~done.failed, NEW r \in Range(records), NEW f \in Range(Formats)
                 PROVE  /\ <<MakeID(r, TRUE), f>> \in DOMAIN done.files
                        /\ \/ done.files[<<MakeID(r, TRUE), f>>] = r
                           \/ \E q \in Range(records) : Twins(r, q)
        BY <1>4, Zenon DEF UniqueFiles, u
    <2>1. u = TRUE /\ done.failed = FALSE BY <1>2, <1>14
    <2> DEFINE name == <<MakeID(r, TRUE), f>>
    <2>2. PICK k \in 1 .. Len(records) : r = records[k]
        <3>1. DOMAIN records = 1 .. Len(records) BY <1>5, LenProperties
        <3> QED BY <3>1 DEF Range
    <2>3. r \in R BY <1>5, <2>2, ElementOfSeq
    <2>4. Name(r, TRUE, 1) \in DOMAIN done.files /\ Name(r, TRUE, 2) \in DOMAIN done.files
        BY <1>13, <2>1, <2>2 DEF SavedSoFar
    <2>5. name = Name(r, TRUE, 1) \/ name = Name(r, TRUE, 2)
        <3>1. f = Formats[1] \/ f = Formats[2] BY DEF Formats, Range
        <3> QED BY <3>1 DEF Name
    <2>6. name \in DOMAIN done.files BY <2>4, <2>5
    <2>7. PICK x : name = <<MakeID(done.files[name], TRUE), x>>
        BY <1>13, <2>1, <2>6 DEF SavedSoFar, Faithful
    <2>8. MakeID(done.files[name], TRUE) = MakeID(r, TRUE) BY <2>7
    <2>9. done.files[name] \in R BY <1>15, <2>6
    <2> HIDE DEF name
    <2> DEFINE q == done.files[name]
    <2>10. r \in Range(records) /\ q \in Range(records) BY <2>3, <2>9 DEF R, records
    <2>11. MakeID(r, TRUE) = MakeID(q, TRUE) BY <2>8
    <2> HIDE DEF q
    <2>12. r = q \/ Twins(r, q) BY <1>2, <2>10, <2>11, NameTells DEF records
    <2> QED BY <2>6, <2>10, <2>12 DEF name, q
<1>17. SavedStays
    <2> SUFFICES ASSUME ~w
                 PROVE  /\ \A n \in DOMAIN once.files : done.files[n] = once.files[n]
                        /\ once.files # none => done.failed
        BY <1>4, Zenon DEF SavedStays, w, none
    <2>1. w = FALSE BY <1>2
    <2>2. \A n \in DOMAIN once.files : done.files[n] = once.files[n] BY <1>13, <2>1 DEF SavedSoFar
    <2>3. CASE records = <<>>
        <3>1. Len(first) = 0 BY <1>10, <2>3
        <3>2. once.files = none BY <1>11, <3>1 DEF SavedSoFar
        <3> QED BY <2>2, <3>2
    <2>4. CASE records # <<>>
        <3>1. Len(first) # 0 /\ first[1] = records[1] /\ Len(records) # 0 BY <1>7a, <2>4
        <3>2. Name(records[1], u, 1) \in DOMAIN once.files BY <1>6, <1>11, <3>1 DEF SavedSoFar
        <3>3. done.failed = TRUE BY <1>13, <2>1, <3>1, <3>2 DEF SavedSoFar
        <3> QED BY <2>2, <3>3
    <2> QED BY <2>3, <2>4
<1> QED BY <1>16, <1>17

(* Nothing found is lost, twice there, or harmed by another finding, and   *)
(* a run that was cut short says so, whatever is configured, in the        *)
(* environment, on the ports and in the documents, and whenever the        *)
(* context ends (property FindingsKept; Discover, SaveDiscoveryRecords).   *)
THEOREM FindingsAlwaysKept == RulesSpec => []FindingsKept
<1>1. RulesTold => FindingsKept
    <2> SUFFICES ASSUME RulesTold PROVE FindingsKept OBVIOUS
    <2>1. FoundOnce /\ NoErrorMeansAll
        <3>1. CASE topic = "discover" /\ out # <<>> BY <3>1, FindingsTell
        <3>2. CASE ~Answered("discover") BY <3>2 DEF FoundOnce, NoErrorMeansAll
        <3> QED BY <3>1, <3>2 DEF Answered
    <2>2. UniqueFiles /\ SavedStays
        <3>1. CASE topic = "save" /\ out # <<>> BY <3>1, SavesTell
        <3>2. CASE ~Answered("save") BY <3>2 DEF UniqueFiles, SavedStays
        <3> QED BY <3>1, <3>2 DEF Answered
    <2> QED BY <2>1, <2>2 DEF FindingsKept
<1> QED BY <1>1, RulesAreTold, PTL

=============================================================================
