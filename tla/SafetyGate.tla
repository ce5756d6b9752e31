----------------------------- MODULE SafetyGate -----------------------------
(***************************************************************************)
(* The HURL stop-gap tests that run before a target is probed: the runner  *)
(* (pkg/hurl), the scanner of a target's tests (internal/safety) and the   *)
(* stage of a check that asks it (runSafetyStage, internal/engine).        *)
(*                                                                         *)
(* A test has a file, an endpoint, or neither; the answer is what running  *)
(* it would meet.  over is the number of tests that start before the       *)
(* context of the check is done.                                           *)
(***************************************************************************)
EXTENDS Decision, FiniteSets

CONSTANT MaxTests       \* the tests of one target

ASSUME SafetyAssumption == MaxTests \in Nat

FileAnswers == {"ok", "not-found", "timeout", "tls", "unauthorized", "refused", "other"}
EndpointAnswers == {"ok", "status", "bad-request", "timeout", "tls", "refused", "other"}

FileTests == [form : {"file"}, answer : FileAnswers]
EndpointTests == [form : {"endpoint"}, answer : EndpointAnswers]
(* validateHURLTests refuses a test without either, or with both.          *)
ValidTests == FileTests \cup EndpointTests
BareTests == [form : {"neither"}, answer : {"ok"}]

ValidateHURLTests(tests) == \A i \in 1 .. Len(tests) : tests[i] \in ValidTests

(* ------------------------------ pkg/hurl ------------------------------- *)
TestResult(outcome, class) == [outcome |-> outcome, class |-> class]
Skip == TestResult("skip", "unknown")
Pass == TestResult("pass", "none")
Fail(class) == TestResult("fail", class)

ClassifyCmdFailure(answer) ==
    CASE answer = "not-found" -> "config"
      [] answer = "timeout" -> "timeout"
      [] answer = "tls" -> "tls"
      [] answer = "unauthorized" -> "auth"
      [] answer = "refused" -> "network"
      [] OTHER -> "unknown"

(* runOne: a test that cannot be attempted fails, one that is too late is  *)
(* skipped.                                                                *)
RunOne(t, done) ==
    CASE done -> Skip
      [] ~done /\ t.form # "file" -> Fail("config")
      [] ~done /\ t.form = "file" ->
             IF t.answer = "ok" THEN Pass ELSE Fail(ClassifyCmdFailure(t.answer))

(* Executor.Run; the context stays done once it is.                        *)
ExecutorRun(tests, over) == [i \in 1 .. Len(tests) |-> RunOne(tests[i], i > over)]

Count(results, outcome) == Cardinality({i \in 1 .. Len(results) : results[i].outcome = outcome})
HasBlocking(results) == Count(results, "fail") > 0

(* Run, the entry point of a blocking consumer: nothing ran is an error.   *)
Run(tests, over) ==
    LET results == ExecutorRun(tests, over)
    IN  [err |-> Count(results, "pass") + Count(results, "fail") = 0,
         blocking |-> HasBlocking(results), results |-> results]

(* --------------------------- internal/safety --------------------------- *)
ClassifyHTTPError(answer) ==
    CASE answer = "timeout" -> "timeout"
      [] answer = "tls" -> "tls"
      [] answer = "refused" -> "network"
      [] OTHER -> "unknown"

RunEndpointHTTP(t) ==
    CASE t.answer = "ok" -> Pass
      [] t.answer = "status" -> Fail("protocol")
      [] t.answer = "bad-request" -> Fail("config")
      [] OTHER -> Fail(ClassifyHTTPError(t.answer))

(* runHURLFile hands a file to the runner, as the only test of a report.   *)
RunSingle(t) == IF t.form = "file" THEN ExecutorRun(<<t>>, 1)[1] ELSE RunEndpointHTTP(t)

(* Mutant of RegisterTarget: a target is registered once.                  *)
RegisterTargetOnce(registered, tests) ==
    IF registered # <<>> \/ ~ValidateHURLTests(tests) THEN registered ELSE tests

(* RegisterTarget: what is registered is replaced, unless it is refused.   *)
RegisterTarget(registered, tests) ==
    IF ValidateHURLTests(tests) THEN tests ELSE registered

(* RunTarget: one result for each registered test, in order.               *)
RunTarget(tests, over) ==
    [i \in 1 .. Len(tests) |-> IF i > over THEN Skip ELSE RunSingle(tests[i])]

(* --------------------------- internal/engine --------------------------- *)
FirstFailure(results) ==
    CHOOSE i \in 1 .. Len(results) :
        /\ results[i].outcome = "fail"
        /\ \A j \in 1 .. i - 1 : results[j].outcome # "fail"

BlamedClass(results) == results[FirstFailure(results)].class

(* runSafetyStage: no tests, no gate; the registration's error is dropped. *)
RunSafetyStage(registered, tests, over) ==
    LET report == RunTarget(RegisterTarget(registered, tests), over)
    IN  IF tests = <<>> \/ ~HasBlocking(report)
        THEN [blocked |-> FALSE, class |-> "none"]
        ELSE [blocked |-> TRUE, class |-> BlamedClass(report)]
-----------------------------------------------------------------------------
Lists(S) == UNION {[1 .. n -> S] : n \in 0 .. MaxTests}

(* A compiled target's tests are valid: Target.Validate has the same rules.*)
(* An earlier configuration registered other ones.                         *)
StageInputs ==
    [registered : {<<>>, <<[form |-> "file", answer |-> "ok"]>>,
                   <<[form |-> "endpoint", answer |-> "status"]>>},
     tests : Lists(ValidTests), over : 0 .. MaxTests]
PreflightInputs == [tests : Lists(FileTests \cup BareTests), over : 0 .. MaxTests]

SafetyAsk == Ask("stage", StageInputs) \/ Ask("preflight", PreflightInputs)
SafetyReply ==
    \/ Reply("stage", RunSafetyStage(in.registered, in.tests, in.over))
    \/ Reply("preflight", Run(in.tests, in.over))
-----------------------------------------------------------------------------
(* The gate judges the tests the target has now, whatever an earlier       *)
(* configuration registered: it opens exactly when none of the tests that  *)
(* were started in time would fail.                                        *)
GateJudgesCurrent ==
    Answered("stage") =>
        (Answer.blocked <=> \E i \in 1 .. Len(in.tests) : i <= in.over /\ in.tests[i].answer # "ok")

(* A blocked check names a cause, the first test's that failed: a later    *)
(* failure, or a test skipped because time ran out, never hides it.        *)
BlockedHasCause ==
    Answered("stage") /\ Answer.blocked =>
        /\ Answer.class # "none"
        /\ LET first == CHOOSE i \in 1 .. Len(in.tests) :
                            /\ in.tests[i].answer # "ok"
                            /\ \A j \in 1 .. i - 1 : in.tests[j].answer = "ok"
           IN  Answer.class = RunSingle(in.tests[first]).class

(* A preflight that never ran admits nothing: without an error and without *)
(* a blocking failure, some test really ran and passed (ErrNothingRan).    *)
NothingRanAdmitsNothing ==
    Answered("preflight") /\ ~Answer.err /\ ~Answer.blocking
        => \E i \in 1 .. Len(in.tests) :
               i <= in.over /\ in.tests[i].form = "file" /\ in.tests[i].answer = "ok"

(* The gate's verdict, whatever was registered before and wherever time    *)
(* ran out.                                                                *)
GateSound ==
    /\ GateJudgesCurrent
    /\ BlockedHasCause
    /\ NothingRanAdmitsNothing
=============================================================================
