---------------------------- MODULE EngineProofs ----------------------------
(***************************************************************************)
(* Theorems about module Engine, for every set of targets, every number of *)
(* reloads, workers and retries, and every order of the goroutines.        *)
(***************************************************************************)
EXTENDS Engine, FiniteSetTheorems, TLAPS

(* A loop that exists belongs to the last generation launched, and checks  *)
(* a target of the configuration in force.                                 *)
LoopsCurrent ==
    \A l \in Loops : loop[l].pc # "none" => l[2] = gen /\ l[1] \in cfg.targets

(* What runMu protects: the last generation runs exactly if it has not     *)
(* been cancelled, Start has launched the first one, whoever holds runMu   *)
(* has cancelled it, and each later one is some reload's.                  *)
GenerationsBooked ==
    /\ running <=> gen > 0 /\ gen \notin cancelled
    /\ runCtx <=> gen > 0
    /\ phase \in {"new", "loaded", "failed"} <=> gen = 0
    /\ runMu = "reload" => ~running /\ gen <= reloads
    /\ phase = "stopping" <=> runMu = "start"
    /\ phase \in {"stopping", "saving", "stopped"} => ctxDone
    /\ gen <= reloads + 1
    /\ cancelled \subseteq 1..gen

(* The units of the semaphore are held by the checks under way.            *)
SemaphoreCounts ==
    /\ sem = Checking
    /\ IsFiniteSet(sem)
    /\ Cardinality(sem) <= cfg.workers

(* Before Start there are no rows, and after the stop no checks.           *)
EdgesQuiet ==
    /\ gen = 0 => \A t \in Ids : statuses[t].state = "none"
    /\ phase \in {"saving", "stopped"} => Checking = {}

EngineInv ==
    /\ TypeOK
    /\ LoopsCurrent
    /\ GenerationsBooked
    /\ SemaphoreCounts
    /\ RowsCurrent
    /\ EdgesQuiet
    /\ BaselineSavedOnStop

(* What the built-in probers and the safety scanner return: they know      *)
(* three states and leave "critical" to the classification.                *)
PlainResults ==
    \A r \in ProbeResults \cup SafetyResults :
        r.state \in {"healthy", "degraded", "unhealthy"} /\ r.severity \in {"info", "warn"}

(* A result as probed, before it is classified.                            *)
Plain(r) ==
    /\ r.state \in {"healthy", "degraded", "unhealthy"}
    /\ r.severity \in {"info", "warn"}
    /\ ~r.regression

(* What AlertsMatchBaseline asks of a result and the record it is for.     *)
Describes(r, k) ==
    /\ k.status = "failed"
    /\ r.regression <=> k.ever
    /\ r.state = IF k.ever THEN "regression" ELSE "outage"
    /\ ~k.ever => /\ k.fails >= OutageThreshold
                  /\ r.class \notin {"auth", "config"}

(* From its update to its alert a check has the record to itself, and what *)
(* it reports was decided by that record.                                  *)
Judged(l) ==
    /\ loop[l].pc = "update" => Plain(loop[l].res)
    /\ loop[l].pc = "persist" =>
         /\ Plain(loop[l].res)
         /\ loop[l].cur = mem[l[1]]
         /\ loop[l].cur.status = toKnownStateStatus(loop[l].res.state)
         /\ loop[l].prevOK => loop[l].cur.ever
    /\ loop[l].pc \in {"store", "alert"} /\ Alerts(loop[l].res)
         => Describes(loop[l].res, mem[l[1]])

ChecksJudged == \A l \in Loops : Judged(l)
-----------------------------------------------------------------------------
(* What the operators of the model return. *)

LEMMA NoStateType == NoState \in TargetState
  BY BaselineAssumption DEF NoState, TargetState

(* Store.Update of a record of the snapshot gives such a record.           *)
LEMMA ObserveType ==
  ASSUME NEW prev \in TargetState, NEW s \in Status
  PROVE  Observe(prev, s) \in TargetState
  BY BaselineAssumption
  DEF Observe, TargetState, Bump, IsHealthy, IsFailure, Status

LEMMA StatusType ==
  ASSUME NEW s \in HealthState
  PROVE  toKnownStateStatus(s) \in Status
  BY DEF toKnownStateStatus, HealthState, Status

LEMMA CompletedType ==
  ASSUME NEW r \in ProbeResult
  PROVE  /\ Unclassified(Completed(r)) \in CheckResult
         /\ Unclassified(Completed(r)).state = r.state
         /\ ~Unclassified(Completed(r)).regression
         /\ r.severity # "" => Unclassified(Completed(r)).severity = r.severity
  BY DEF ProbeResult, CheckResult, Completed, Unclassified, severityFromState,
         HealthState, Severity

LEMMA BaselinedType ==
  ASSUME NEW r \in CheckResult, NEW cur \in TargetState
  PROVE  Baselined(r, cur) \in CheckResult
<1> DEFINE failing == r.state # "degraded" /\ IsFailure(toKnownStateStatus(r.state))
           regressed == failing /\ cur.ever
           outage == /\ failing
                     /\ cur.fails >= OutageThreshold
                     /\ ~regressed /\ r.state # "regression"
                     /\ cur.ever \/ r.class \notin {"auth", "config"}
           b == Baselined(r, cur)
<1>1. /\ b.state = CASE regressed -> "regression" [] outage -> "outage" [] OTHER -> r.state
      /\ b.severity = IF regressed \/ outage THEN "critical" ELSE r.severity
      /\ b.class = r.class
      /\ b.regression = regressed
  BY DEF Baselined
<1> HIDE DEF failing
<1>2. regressed \in BOOLEAN
  BY DEF TargetState
<1>3. b.state \in HealthState /\ b.severity \in Severity /\ b.class \in FailureClass
  BY <1>1 DEF CheckResult, HealthState, Severity
<1> QED
  BY <1>1, <1>2, <1>3 DEF Baselined, CheckResult

LEMMA ClassifiedType ==
  ASSUME NEW r \in CheckResult, NEW ok \in BOOLEAN, NEW cur \in TargetState
  PROVE  classifyWithPolicy(r, ok, cur) \in CheckResult
<1>1. Baselined(r, cur) \in CheckResult
  BY BaselinedType
<1> QED
  BY <1>1 DEF classifyWithPolicy, Elevated, CheckResult, HealthState, Severity

LEMMA NoLoopType ==
  /\ NoLoop \in LoopState
  /\ NoLoop.pc = "none"
  /\ \A p \in Pcs : /\ [NoLoop EXCEPT !.pc = p] \in LoopState
                    /\ [NoLoop EXCEPT !.pc = p].pc = p
<1>1. NoResult \in CheckResult
  BY DEF NoResult, CheckResult, HealthState, Severity, FailureClass
<1>2. 0 \in 0..Retries
  BY EngineAssumption
<1> QED
  BY <1>1, <1>2, NoStateType DEF NoLoop, LoopState, Pcs

-----------------------------------------------------------------------------
(* The steps of a monitor loop. *)

(* The places between sem.Acquire and its Release.                         *)
Busy == Pcs \ {"none", "acquire", "select"}

(* A step of one loop that neither takes nor gives back a worker; the      *)
(* store and the rows change only in the course of a check.                *)
LEMMA LoopMoves ==
  ASSUME EngineInv, NEW l \in Loops, NEW rec \in LoopState,
         loop[l].pc # "none",
         loop' = [loop EXCEPT ![l] = rec],
         UNCHANGED <<lifecycle, sem>>,
         rec.pc \in Busy <=> loop[l].pc \in Busy,
         events' \in Seq(Event),
         mem' \in [Ids -> TargetState],
         saved' \in BOOLEAN,
         saved' = saved \/ loop[l].pc \in Busy,
         \/ UNCHANGED statuses
         \/ \E s \in HealthState :
              statuses' = [statuses EXCEPT ![l[1]] = [state |-> s, gen |-> l[2]]]
  PROVE  EngineInv'
<1> USE DEF EngineInv
<1>1. /\ loop'[l] = rec
      /\ \A m \in Loops : m # l => loop'[m] = loop[m]
  BY DEF TypeOK
<1>2. l[1] \in Ids /\ l[2] \in Generations
  BY DEF Loops
<1>3. l[2] = gen /\ l[1] \in cfg.targets
  BY DEF LoopsCurrent
<1>4. TypeOK'
  <2>1. statuses' \in [Ids -> [state : HealthState \cup {"none"},
                               gen : 0..(MaxReloads + 1)]]
    <3> DEFINE Row == [state : HealthState \cup {"none"}, gen : 0..(MaxReloads + 1)]
    <3>1. \A s \in HealthState : [state |-> s, gen |-> l[2]] \in Row
      BY <1>2, EngineAssumption DEF Generations
    <3> HIDE DEF Row
    <3>2. statuses \in [Ids -> Row]
      BY DEF TypeOK, Row
    <3>3. statuses' \in [Ids -> Row]
      BY <3>1, <3>2
    <3> QED
      BY <3>3 DEF Row
  <2>2. loop' \in [Loops -> LoopState]
    BY DEF TypeOK
  <2> QED
    BY <2>1, <2>2 DEF TypeOK, lifecycle
<1>5. LoopsCurrent'
  BY <1>1, <1>3 DEF LoopsCurrent, lifecycle
<1>6. GenerationsBooked'
  BY DEF GenerationsBooked, lifecycle
<1>7. Checking' = Checking
  <2>1. \A m \in Loops : loop[m].pc \in Pcs /\ loop'[m].pc \in Pcs
    BY <1>4 DEF TypeOK, LoopState
  <2>2. \A m \in Loops : loop'[m].pc \in Busy <=> loop[m].pc \in Busy
    BY <1>1
  <2> QED
    BY <2>1, <2>2 DEF Checking, Busy
<1>8. SemaphoreCounts'
  BY <1>7 DEF SemaphoreCounts, lifecycle
<1>9. RowsCurrent'
  <2>1. CASE UNCHANGED statuses
    BY <2>1 DEF RowsCurrent, lifecycle
  <2>2. ASSUME NEW s \in HealthState,
               statuses' = [statuses EXCEPT ![l[1]] = [state |-> s, gen |-> l[2]]]
        PROVE  RowsCurrent'
    <3>1. /\ statuses'[l[1]].gen = gen
          /\ \A t \in Ids : t # l[1] => statuses'[t] = statuses[t]
      BY <1>2, <1>3, <2>2 DEF TypeOK
    <3> QED
      BY <1>3, <3>1 DEF RowsCurrent, lifecycle
  <2> QED
    BY <2>1, <2>2
<1>10. EdgesQuiet'
  <2>1. gen # 0
    BY <1>2, <1>3 DEF Generations
  <2> QED
    BY <1>7, <2>1 DEF EdgesQuiet, lifecycle
<1>11. BaselineSavedOnStop'
  <2>1. phase = "stopped" => loop[l].pc \notin Busy
    BY DEF EdgesQuiet, Checking, Busy
  <2> QED
    BY <2>1 DEF BaselineSavedOnStop, lifecycle
<1> QED
  BY <1>4, <1>5, <1>6, <1>8, <1>9, <1>10, <1>11

(* A worker is taken only while the loop's context is live, so not after   *)
(* the stop, and only if one is free.                                      *)
LEMMA AcquireKeeps ==
  ASSUME EngineInv, NEW l \in Loops, Acquire(l)
  PROVE  EngineInv'
<1> USE DEF EngineInv
<1> DEFINE rec == [loop[l] EXCEPT !.pc = "safety", !.attempt = 0]
<1>1. /\ loop' = [loop EXCEPT ![l] = rec]
      /\ sem' = sem \cup {l}
      /\ Cardinality(sem) < cfg.workers
      /\ loop[l].pc = "acquire" /\ Live(l)
      /\ UNCHANGED <<lifecycle, statuses, events, mem, saved>>
  BY DEF Acquire, TypeOK
<1>2. rec \in LoopState /\ rec.pc = "safety"
  <2>1. loop[l] \in LoopState /\ 0 \in 0..Retries
    BY EngineAssumption DEF TypeOK
  <2> QED
    BY <2>1 DEF LoopState, Pcs
<1>3. /\ loop'[l] = rec
      /\ \A m \in Loops : m # l => loop'[m] = loop[m]
  BY <1>1 DEF TypeOK
<1>4. TypeOK'
  BY <1>1, <1>2 DEF TypeOK, lifecycle
<1>5. LoopsCurrent' /\ GenerationsBooked' /\ RowsCurrent' /\ BaselineSavedOnStop'
  BY <1>1, <1>3 DEF LoopsCurrent, GenerationsBooked, RowsCurrent,
                    BaselineSavedOnStop, lifecycle
<1>6. l \notin sem /\ Checking' = Checking \cup {l}
  BY <1>1, <1>2, <1>3 DEF SemaphoreCounts, Checking
<1>7. SemaphoreCounts'
  <2>1. IsFiniteSet(sem') /\ Cardinality(sem') = Cardinality(sem) + 1
    BY <1>1, <1>6, FS_AddElement DEF SemaphoreCounts
  <2>2. Cardinality(sem) \in Nat /\ cfg.workers \in Nat
    BY FS_CardinalityType, EngineAssumption DEF SemaphoreCounts, TypeOK, Config
  <2> QED
    BY <1>1, <1>6, <2>1, <2>2 DEF SemaphoreCounts, lifecycle
<1>8. EdgesQuiet'
  BY <1>1 DEF EdgesQuiet, GenerationsBooked, Live, lifecycle
<1> QED
  BY <1>4, <1>5, <1>7, <1>8

(* The deferred Release gives back the check's own worker.                 *)
LEMMA AlertKeeps ==
  ASSUME EngineInv, NEW l \in Loops, maybeAlert(l)
  PROVE  EngineInv'
<1> USE DEF EngineInv
<1> DEFINE rec == [NoLoop EXCEPT !.pc = "select"]
<1>1. /\ loop' = [loop EXCEPT ![l] = rec]
      /\ sem' = sem \ {l}
      /\ loop[l].pc = "alert"
      /\ UNCHANGED <<lifecycle, statuses, mem, saved>>
  BY DEF maybeAlert
<1>2. rec \in LoopState /\ rec.pc = "select"
  BY NoLoopType DEF Pcs
<1>3. /\ loop'[l] = rec
      /\ \A m \in Loops : m # l => loop'[m] = loop[m]
  BY <1>1 DEF TypeOK
<1>4. events' \in Seq(Event)
  <2> DEFINE r == loop[l].res
             e == [target |-> l[1], state |-> r.state,
                   regression |-> r.regression, class |-> r.class]
  <2>1. e \in Event
    BY DEF Event, Loops, TypeOK, LoopState, CheckResult
  <2>2. events' \in {events, Recorded(e)}
    BY DEF maybeAlert
  <2>3. cfg.cap \in Nat \ {0} /\ Len(events) \in Nat
    BY EngineAssumption DEF TypeOK, Config
  <2>4. ~(Len(events) < cfg.cap) => events # <<>>
    BY <2>3
  <2> HIDE DEF e
  <2>5. events \in Seq(Event)
    BY DEF TypeOK
  <2>6. events # <<>> => Tail(events) \in Seq(Event)
    BY <2>5
  <2>7. Recorded(e) \in Seq(Event)
    BY <2>1, <2>4, <2>5, <2>6 DEF Recorded
  <2> QED
    BY <2>2, <2>5, <2>7
<1>5. TypeOK'
  BY <1>1, <1>2, <1>4 DEF TypeOK, lifecycle
<1>6. LoopsCurrent' /\ GenerationsBooked' /\ RowsCurrent' /\ BaselineSavedOnStop'
  BY <1>1, <1>3 DEF LoopsCurrent, GenerationsBooked, RowsCurrent,
                    BaselineSavedOnStop, lifecycle
<1>7. l \in sem /\ Checking' = Checking \ {l}
  BY <1>1, <1>2, <1>3 DEF SemaphoreCounts, Checking
<1>8. SemaphoreCounts'
  <2>1. IsFiniteSet(sem') /\ Cardinality(sem') <= Cardinality(sem)
    BY <1>1, FS_Subset DEF SemaphoreCounts
  <2>2. Cardinality(sem) \in Nat /\ Cardinality(sem') \in Nat /\ cfg.workers \in Nat
    BY <2>1, FS_CardinalityType, EngineAssumption DEF SemaphoreCounts, TypeOK, Config
  <2> QED
    BY <1>1, <1>7, <2>1, <2>2 DEF SemaphoreCounts, lifecycle
<1>9. EdgesQuiet'
  BY <1>1, <1>7 DEF EdgesQuiet, lifecycle
<1> QED
  BY <1>5, <1>6, <1>8, <1>9

(* The other steps of a loop keep the invariant.                           *)
LEMMA LoopStepKeeps ==
  ASSUME EngineInv, NEW l \in Loops, LoopStep(l)
  PROVE  EngineInv'
<1>t. /\ loop[l] \in LoopState /\ loop \in [Loops -> LoopState]
      /\ events \in Seq(Event) /\ mem \in [Ids -> TargetState]
      /\ saved \in BOOLEAN /\ l[1] \in Ids
  BY DEF EngineInv, TypeOK, Loops
<1>1. CASE Acquire(l)
  BY <1>1, AcquireKeeps
<1>2. CASE maybeAlert(l)
  BY <1>2, AlertKeeps
<1>3. CASE AcquireFails(l) \/ Tick(l)
  <2>1. PICK p \in {"select", "acquire"} : loop' = [loop EXCEPT ![l].pc = p]
    BY <1>3 DEF AcquireFails, Tick
  <2> DEFINE rec == [loop[l] EXCEPT !.pc = p]
  <2>2. rec \in LoopState /\ rec.pc = p
    BY <1>t DEF LoopState, Pcs
  <2>3. loop' = [loop EXCEPT ![l] = rec]
    BY <1>t, <2>1
  <2>4. loop[l].pc \in {"acquire", "select"}
        /\ UNCHANGED <<lifecycle, sem, statuses, events, mem, saved>>
    BY <1>3 DEF AcquireFails, Tick
  <2> HIDE DEF rec
  <2>5. loop[l].pc # "none" /\ (rec.pc \in Busy <=> loop[l].pc \in Busy)
    BY <2>2, <2>4 DEF Busy
  <2> QED
    BY <1>t, <2>2, <2>3, <2>4, <2>5, LoopMoves
<1>4. CASE Exit(l)
  <2>1. /\ loop' = [loop EXCEPT ![l] = NoLoop] /\ loop[l].pc = "select"
        /\ UNCHANGED <<lifecycle, sem, statuses, events, mem, saved>>
    BY <1>4 DEF Exit
  <2>2. loop[l].pc # "none" /\ (NoLoop.pc \in Busy <=> loop[l].pc \in Busy)
    BY <2>1, NoLoopType DEF Busy
  <2> QED
    BY <1>t, <2>1, <2>2, NoLoopType, LoopMoves
<1>5. CASE SafetyPasses(l) \/ UpdateSkipped(l)
  <2>1. PICK p \in {"attempt", "store"} : loop' = [loop EXCEPT ![l].pc = p]
    BY <1>5 DEF SafetyPasses, UpdateSkipped
  <2> DEFINE rec == [loop[l] EXCEPT !.pc = p]
  <2>2. rec \in LoopState /\ rec.pc = p
    BY <1>t DEF LoopState, Pcs
  <2>3. loop' = [loop EXCEPT ![l] = rec]
    BY <1>t, <2>1
  <2>4. loop[l].pc \in {"safety", "update"}
        /\ UNCHANGED <<lifecycle, sem, statuses, events, mem, saved>>
    BY <1>5 DEF SafetyPasses, UpdateSkipped
  <2> HIDE DEF rec
  <2>5. loop[l].pc # "none" /\ (rec.pc \in Busy <=> loop[l].pc \in Busy)
    BY <2>2, <2>4 DEF Busy, Pcs
  <2> QED
    BY <1>t, <2>2, <2>3, <2>4, <2>5, LoopMoves
<1>6. ASSUME NEW r \in ProbeResult, SafetyBlocks(l, r) \/ Attempt(l, r)
      PROVE  EngineInv'
  <2> DEFINE res == Unclassified(Completed(r))
  <2>1. res \in CheckResult
    BY CompletedType
  <2> HIDE DEF res
  <2>2. PICK rec \in LoopState : rec.pc \in Busy /\ loop' = [loop EXCEPT ![l] = rec]
    <3>1. CASE SafetyBlocks(l, r)
      <4> DEFINE rec == [loop[l] EXCEPT !.pc = "update", !.res = res]
      <4>1. rec \in LoopState /\ rec.pc = "update"
        BY <1>t, <2>1 DEF LoopState, Pcs
      <4>2. loop' = [loop EXCEPT ![l] = rec]
        BY <1>t, <3>1 DEF SafetyBlocks, res
      <4> QED
        BY <4>1, <4>2 DEF Busy, Pcs
    <3>2. CASE Attempt(l, r) /\ IsFailureState(r.state) /\ loop[l].attempt < Retries
      <4> DEFINE rec == [loop[l] EXCEPT !.attempt = @ + 1]
      <4>1. rec \in LoopState /\ rec.pc = "attempt"
        BY SMTT(30), <1>t, <3>2, EngineAssumption DEF LoopState, Attempt
      <4>2. loop' = [loop EXCEPT ![l] = rec]
        BY <1>t, <3>2 DEF Attempt
      <4> QED
        BY <4>1, <4>2 DEF Busy, Pcs
    <3>3. CASE Attempt(l, r) /\ ~(IsFailureState(r.state) /\ loop[l].attempt < Retries)
      <4> DEFINE rec == [loop[l] EXCEPT !.pc = "update", !.attempt = 0, !.res = res]
      <4>1. 0 \in 0..Retries
        BY EngineAssumption
      <4>2. rec \in LoopState /\ rec.pc = "update"
        BY <1>t, <2>1, <4>1 DEF LoopState, Pcs
      <4>3. loop' = [loop EXCEPT ![l] = rec]
        BY <1>t, <3>3 DEF Attempt, res
      <4> QED
        BY <4>2, <4>3 DEF Busy, Pcs
    <3> QED
      BY <1>6, <3>1, <3>2, <3>3
  <2>3. loop[l].pc \in {"safety", "attempt"}
        /\ UNCHANGED <<lifecycle, sem, statuses, events, mem, saved>>
    BY <1>6 DEF SafetyBlocks, Attempt
  <2>4. loop[l].pc # "none" /\ (rec.pc \in Busy <=> loop[l].pc \in Busy)
    BY <2>2, <2>3 DEF Busy, Pcs
  <2> QED
    BY <1>t, <2>2, <2>3, <2>4, LoopMoves
<1>7. CASE UpdateMemory(l)
  <2> DEFINE prev == mem[l[1]]
             cur == Observe(prev, toKnownStateStatus(loop[l].res.state))
             rec == [loop[l] EXCEPT !.pc = "persist", !.prevOK = prev.ever, !.cur = cur]
  <2>1. cur \in TargetState
    <3>1. loop[l].res.state \in HealthState /\ prev \in TargetState
      BY <1>t DEF LoopState, CheckResult
    <3> QED
      BY <3>1, StatusType, ObserveType
  <2>2. prev.ever \in BOOLEAN
    BY <1>t DEF TargetState
  <2>3. /\ loop[l].pc = "update"
        /\ mem' = [mem EXCEPT ![l[1]] = cur]
        /\ UNCHANGED <<lifecycle, sem, statuses, events>>
        /\ saved' = FALSE
    BY <1>7 DEF UpdateMemory
  <2>4. loop' = [loop EXCEPT ![l] = rec]
    BY <1>t, <1>7 DEF UpdateMemory
  <2> HIDE DEF cur, prev
  <2>5. rec \in LoopState /\ rec.pc = "persist"
    BY <1>t, <2>1, <2>2 DEF LoopState, Pcs
  <2> HIDE DEF rec
  <2>6. mem' \in [Ids -> TargetState]
    BY <1>t, <2>1, <2>3
  <2>7. loop[l].pc # "none" /\ loop[l].pc \in Busy /\ rec.pc \in Busy
    BY <2>3, <2>5 DEF Busy, Pcs
  <2> QED
    BY <1>t, <2>3, <2>4, <2>5, <2>6, <2>7, LoopMoves
<1>8. CASE PersistOk(l) \/ PersistFails(l)
  <2> DEFINE res == classifyWithPolicy(loop[l].res, loop[l].prevOK, loop[l].cur)
  <2>1. res \in CheckResult /\ loop[l].res \in CheckResult
    BY <1>t, ClassifiedType DEF LoopState
  <2>2. \A x \in CheckResult :
          /\ [loop[l] EXCEPT !.pc = "store", !.res = x, !.prevOK = FALSE,
                             !.cur = NoState] \in LoopState
          /\ [loop[l] EXCEPT !.pc = "store", !.res = x, !.prevOK = FALSE,
                             !.cur = NoState].pc = "store"
    BY <1>t, NoStateType DEF LoopState, Pcs
  <2>3. PICK x \in CheckResult :
          loop' = [loop EXCEPT ![l] = [loop[l] EXCEPT !.pc = "store", !.res = x,
                                                      !.prevOK = FALSE, !.cur = NoState]]
    <3>1. CASE PersistOk(l)
      <4>1. loop' = [loop EXCEPT ![l] = [loop[l] EXCEPT !.pc = "store", !.res = res,
                                                        !.prevOK = FALSE, !.cur = NoState]]
        BY <1>t, <3>1 DEF PersistOk, LoopState
      <4> QED
        BY <2>1, <4>1
    <3>2. CASE PersistFails(l)
      <4>1. loop' = [loop EXCEPT ![l] = [loop[l] EXCEPT !.pc = "store", !.res = loop[l].res,
                                                        !.prevOK = FALSE, !.cur = NoState]]
        BY <1>t, <3>2 DEF PersistFails, LoopState
      <4> QED
        BY <2>1, <4>1
    <3> QED
      BY <1>8, <3>1, <3>2
  <2>4. /\ loop[l].pc = "persist" /\ saved' \in BOOLEAN
        /\ UNCHANGED <<lifecycle, sem, statuses, events, mem>>
    BY <1>t, <1>8 DEF PersistOk, PersistFails
  <2>5. loop[l].pc # "none" /\ loop[l].pc \in Busy /\ "store" \in Busy
    BY <2>4 DEF Busy, Pcs
  <2> QED
    BY <1>t, <2>2, <2>3, <2>4, <2>5, LoopMoves
<1>9. CASE storeStatus(l)
  <2> DEFINE rec == [loop[l] EXCEPT !.pc = "alert"]
  <2>1. rec \in LoopState /\ rec.pc = "alert"
    BY <1>t DEF LoopState, Pcs
  <2>2. loop' = [loop EXCEPT ![l] = rec]
    BY <1>t, <1>9 DEF storeStatus
  <2>3. /\ loop[l].pc = "store" /\ loop[l].res.state \in HealthState
        /\ statuses' = [statuses EXCEPT
                          ![l[1]] = [state |-> loop[l].res.state, gen |-> l[2]]]
        /\ UNCHANGED <<lifecycle, sem, events, mem, saved>>
    BY <1>t, <1>9 DEF storeStatus, LoopState, CheckResult
  <2> HIDE DEF rec
  <2>4. loop[l].pc # "none" /\ loop[l].pc \in Busy /\ rec.pc \in Busy
    BY <2>1, <2>3 DEF Busy, Pcs
  <2> QED
    BY <1>t, <2>1, <2>2, <2>3, <2>4, LoopMoves
<1> QED
  BY <1>1, <1>2, <1>3, <1>4, <1>5, <1>6, <1>7, <1>8, <1>9, EngineAssumption
  DEF LoopStep, CheckStep

-----------------------------------------------------------------------------
(* The steps of Start and ReloadConfig. *)

(* The engine comes up in the invariant.                                   *)
LEMMA EngineInitially == Init => EngineInv
<1> SUFFICES ASSUME Init PROVE EngineInv
  OBVIOUS
<1>0. /\ MaxReloads \in Nat /\ cfg \in Configs
      /\ cfg.workers \in Nat /\ 0 <= cfg.workers
  BY EngineAssumption DEF Init, Config
<1>1. /\ \A l \in Loops : loop[l] = NoLoop
      /\ loop \in [Loops -> LoopState]
  BY NoLoopType DEF Init
<1>2. Checking = {}
  BY <1>1, NoLoopType DEF Checking
<1>3. statuses \in [Ids -> [state : HealthState \cup {"none"}, gen : 0..(MaxReloads + 1)]]
  BY <1>0 DEF Init, NoStatus
<1>4. mem \in [Ids -> TargetState]
  BY NoStateType DEF Init, Blank
<1>5. TypeOK
  <2>1. /\ gen \in 0..(MaxReloads + 1) /\ reloads \in 0..MaxReloads
        /\ cancelled \subseteq 0..(MaxReloads + 1)
        /\ cfg \in Configs /\ request \in Configs
    BY <1>0 DEF Init
  <2>2. sem \subseteq Loops /\ events \in Seq(Event)
    BY DEF Init
  <2> QED
    BY <1>1, <1>3, <1>4, <2>1, <2>2 DEF Init, TypeOK
<1>6. LoopsCurrent
  BY <1>1, NoLoopType DEF LoopsCurrent
<1>7. GenerationsBooked
  BY DEF Init, GenerationsBooked
<1>8. SemaphoreCounts
  BY <1>0, <1>2, FS_EmptySet DEF Init, SemaphoreCounts
<1>9. \A t \in Ids : statuses[t].state = "none"
  BY DEF Init, NoStatus
<1>10. RowsCurrent /\ EdgesQuiet /\ BaselineSavedOnStop
  BY <1>9 DEF Init, RowsCurrent, EdgesQuiet, BaselineSavedOnStop
<1> QED
  BY <1>5, <1>6, <1>7, <1>8, <1>10 DEF EngineInv

(* Without a generation there is no loop, and a reload that may go on has  *)
(* seen every loop end.                                                    *)
LEMMA NobodyAlive ==
  ASSUME EngineInv, gen = 0 \/ (runMu = "reload" /\ ReloadMayProceed)
  PROVE  \A l \in Loops : loop[l].pc = "none"
<1>1. gen = 0 => \A l \in Loops : loop[l].pc = "none"
  BY EngineAssumption DEF EngineInv, LoopsCurrent, Loops, Generations
<1>2. runMu = "reload" => gen = 0 \/ gen \in cancelled
  BY DEF EngineInv, TypeOK, GenerationsBooked
<1> QED
  BY <1>1, <1>2 DEF ReloadMayProceed, Alive

(* The loops that launchTargets makes when no other is left.               *)
LEMMA Launched ==
  ASSUME EngineInv, \A l \in Loops : loop[l].pc = "none", NEW T,
         gen + 1 \in Generations
  PROVE  /\ launchTargets(gen + 1, T) \in [Loops -> LoopState]
         /\ \A l \in Loops :
              /\ launchTargets(gen + 1, T)[l].pc \in {"none", "acquire"}
              /\ launchTargets(gen + 1, T)[l].pc # "none" => l[2] = gen + 1 /\ l[1] \in T
<1>1. /\ [NoLoop EXCEPT !.pc = "acquire"] \in LoopState
      /\ [NoLoop EXCEPT !.pc = "acquire"].pc = "acquire"
  BY NoLoopType DEF Pcs
<1>2. \A l \in Loops : loop[l] \in LoopState
  BY DEF EngineInv, TypeOK
<1> QED
  BY <1>1, <1>2 DEF launchTargets

(* Steps that touch neither a loop nor what a loop uses.                   *)
LEMMA OuterStepKeeps ==
  ASSUME EngineInv,
         CancelContext \/ LoadBaseline \/ LoadFails \/ StopBegin \/ StopWait
           \/ FinalSave \/ (\E c \in Configs : ReloadBegin(c)) \/ UNCHANGED vars
  PROVE  EngineInv'
<1> USE DEF EngineInv
<1>1. UNCHANGED <<gen, cfg, loop, sem, statuses>>
  BY DEF CancelContext, LoadBaseline, LoadFails, StopBegin, StopWait, FinalSave,
         ReloadBegin, vars
<1>2. LoopsCurrent' /\ SemaphoreCounts' /\ RowsCurrent' /\ Checking' = Checking
  BY <1>1 DEF LoopsCurrent, SemaphoreCounts, RowsCurrent, Checking
<1>3. CASE CancelContext \/ LoadFails \/ FinalSave \/ UNCHANGED vars
  <2>1. TypeOK'
    BY ZenonT(60), <1>3 DEF TypeOK, CancelContext, LoadFails, FinalSave, vars
  <2>2. GenerationsBooked'
    <3>1. CASE CancelContext
      BY <3>1 DEF GenerationsBooked, CancelContext
    <3>2. CASE LoadFails
      BY <3>2 DEF GenerationsBooked, LoadFails
    <3>3. CASE FinalSave
      BY <3>3 DEF GenerationsBooked, FinalSave
    <3>4. CASE UNCHANGED vars
      BY <3>4 DEF GenerationsBooked, vars
    <3> QED
      BY <1>3, <3>1, <3>2, <3>3, <3>4
  <2>3. EdgesQuiet' /\ BaselineSavedOnStop'
    BY <1>2, <1>3 DEF EdgesQuiet, BaselineSavedOnStop, TypeOK, CancelContext,
                      LoadFails, FinalSave, vars
  <2> QED
    BY <1>2, <2>1, <2>2, <2>3
<1>4. CASE LoadBaseline
  <2>1. mem' \in [Ids -> TargetState]
    BY <1>4, EngineAssumption DEF LoadBaseline
  <2>2. TypeOK'
    BY <1>4, <2>1 DEF TypeOK, LoadBaseline
  <2>3. GenerationsBooked' /\ EdgesQuiet' /\ BaselineSavedOnStop'
    BY <1>2, <1>4 DEF GenerationsBooked, EdgesQuiet, BaselineSavedOnStop,
                      TypeOK, LoadBaseline
  <2> QED
    BY <1>2, <2>2, <2>3
<1>5. CASE StopBegin
  <2>1. TypeOK'
    BY <1>5, EngineAssumption DEF TypeOK, StopBegin
  <2>2. GenerationsBooked'
    BY <1>5, EngineAssumption DEF GenerationsBooked, TypeOK, StopBegin
  <2>3. EdgesQuiet' /\ BaselineSavedOnStop'
    BY <1>2, <1>5 DEF EdgesQuiet, BaselineSavedOnStop, StopBegin
  <2> QED
    BY <1>2, <2>1, <2>2, <2>3
<1>6. CASE StopWait
  <2>1. TypeOK' /\ GenerationsBooked'
    BY <1>6 DEF TypeOK, GenerationsBooked, StopWait
  <2>2. Checking = {}
    BY <1>6 DEF StopWait, Alive, Checking
  <2>3. EdgesQuiet' /\ BaselineSavedOnStop'
    BY <1>2, <1>6, <2>2 DEF EdgesQuiet, BaselineSavedOnStop, StopWait
  <2> QED
    BY <1>2, <2>1, <2>3
<1>7. ASSUME NEW c \in Configs, ReloadBegin(c)
      PROVE  EngineInv'
  <2>1. TypeOK'
    <3>1. reloads' \in 0..MaxReloads
      BY <1>7, EngineAssumption DEF TypeOK, ReloadBegin
    <3>2. cancelled' \subseteq 0..(MaxReloads + 1)
      BY <1>7 DEF TypeOK, ReloadBegin
    <3> QED
      BY <1>7, <3>1, <3>2 DEF TypeOK, ReloadBegin
  <2>2. GenerationsBooked'
    BY <1>7, EngineAssumption DEF GenerationsBooked, TypeOK, ReloadBegin
  <2>3. EdgesQuiet' /\ BaselineSavedOnStop'
    BY <1>2, <1>7 DEF EdgesQuiet, BaselineSavedOnStop, ReloadBegin
  <2> QED
    BY <1>2, <2>1, <2>2, <2>3
<1> QED
  BY <1>3, <1>4, <1>5, <1>6, <1>7

(* Start launches the first generation.                                    *)
LEMMA StartKeeps ==
  ASSUME EngineInv, startTargets
  PROVE  EngineInv'
<1> USE DEF EngineInv
<1>1. /\ gen = 0 /\ gen' = 1 /\ phase' = "running" /\ runCtx' = TRUE /\ running' = TRUE
      /\ loop' = launchTargets(gen + 1, cfg.targets)
      /\ runMu = "free" /\ cancelled = {}
      /\ UNCHANGED <<ctxDone, runMu, cancelled, cfg, request, reloads, sem,
                     statuses, events, mem, saved, lastSave>>
  BY DEF startTargets, GenerationsBooked, TypeOK
<1>2. \A l \in Loops : loop[l].pc = "none"
  BY <1>1, NobodyAlive
<1>3. gen + 1 \in Generations
  BY <1>1, EngineAssumption DEF Generations
<1>4. /\ loop' \in [Loops -> LoopState]
      /\ \A l \in Loops : /\ loop'[l].pc \in {"none", "acquire"}
                          /\ loop'[l].pc # "none" => l[2] = gen' /\ l[1] \in cfg'.targets
  BY <1>1, <1>2, <1>3, Launched
<1>5. TypeOK'
  BY <1>1, <1>3, <1>4 DEF TypeOK, Generations
<1>6. LoopsCurrent'
  BY <1>4 DEF LoopsCurrent
<1>7. GenerationsBooked'
  BY <1>1 DEF GenerationsBooked, TypeOK
<1>8. Checking = {} /\ Checking' = {}
  BY <1>2, <1>4 DEF Checking
<1>9. SemaphoreCounts'
  BY <1>1, <1>8 DEF SemaphoreCounts
<1>10. RowsCurrent' /\ EdgesQuiet' /\ BaselineSavedOnStop'
  BY <1>1, <1>8 DEF RowsCurrent, EdgesQuiet, BaselineSavedOnStop
<1> QED
  BY <1>5, <1>6, <1>7, <1>9, <1>10

(* A reload swaps everything at once, with no loop left to see it.         *)
LEMMA SwapKeeps ==
  ASSUME EngineInv, ReloadSwap
  PROVE  EngineInv'
<1> USE DEF EngineInv
<1>1. /\ runMu = "reload" /\ runMu' = "free"
      /\ cfg' = request /\ sem' = {} /\ statuses' = [t \in Ids |-> NoStatus]
      /\ UNCHANGED <<phase, ctxDone, runCtx, cancelled, request, reloads, events,
                     mem, saved, lastSave>>
  BY DEF ReloadSwap
<1>2. \A l \in Loops : loop[l].pc = "none"
  BY <1>1, NobodyAlive DEF ReloadSwap
<1>3. ~running /\ gen <= reloads /\ phase # "stopping"
  BY <1>1 DEF GenerationsBooked
<1>4. gen + 1 \in Generations
  BY <1>3, EngineAssumption DEF TypeOK, Generations
<1>5. /\ loop' \in [Loops -> LoopState]
      /\ \A l \in Loops : /\ loop'[l].pc \in {"none", "acquire"}
                          /\ loop'[l].pc # "none" => l[2] = gen' /\ l[1] \in cfg'.targets
  <2>1. CASE runCtx
    BY <1>1, <1>2, <1>4, <2>1, Launched DEF ReloadSwap
  <2>2. CASE ~runCtx
    BY <1>2, <2>2 DEF ReloadSwap, TypeOK
  <2> QED
    BY <2>1, <2>2 DEF TypeOK
<1>6. gen' \in 0..(MaxReloads + 1) /\ running' \in BOOLEAN
  <2>1. gen + 1 \in 0..(MaxReloads + 1)
    BY <1>4, EngineAssumption DEF Generations
  <2> QED
    BY <2>1 DEF ReloadSwap, TypeOK
<1>7. /\ \A t \in Ids : statuses'[t].state = "none"
      /\ statuses' \in [Ids -> [state : HealthState \cup {"none"}, gen : 0..(MaxReloads + 1)]]
  BY <1>1, EngineAssumption DEF NoStatus
<1>8. TypeOK'
  BY <1>1, <1>5, <1>6, <1>7 DEF TypeOK
<1>9. LoopsCurrent'
  BY <1>5 DEF LoopsCurrent
<1>10. GenerationsBooked'
  <2>1. CASE runCtx
    BY <1>1, <1>3, <2>1 DEF ReloadSwap, GenerationsBooked, TypeOK
  <2>2. CASE ~runCtx
    BY <1>1, <1>3, <2>2 DEF ReloadSwap, GenerationsBooked, TypeOK
  <2> QED
    BY <2>1, <2>2
<1>11. Checking' = {}
  BY <1>5 DEF Checking
<1>12. SemaphoreCounts'
  <2>1. request.workers \in Nat /\ 0 <= request.workers
    BY EngineAssumption DEF TypeOK, Config
  <2> QED
    BY <1>1, <1>11, <2>1, FS_EmptySet DEF SemaphoreCounts
<1>13. RowsCurrent' /\ EdgesQuiet' /\ BaselineSavedOnStop'
  BY <1>1, <1>7, <1>11 DEF RowsCurrent, EdgesQuiet, BaselineSavedOnStop
<1> QED
  BY <1>8, <1>9, <1>10, <1>12, <1>13

LEMMA EngineStepKeeps == EngineInv /\ [Next]_vars => EngineInv'
  BY LoopStepKeeps, OuterStepKeeps, StartKeeps, SwapKeeps DEF Next, StartStep

LEMMA EngineInvariant == Spec => []EngineInv
  BY EngineInitially, EngineStepKeeps, PTL DEF Spec

(* IsReady compares two counts; with rows of configured targets only, the  *)
(* counts are equal only if the sets are.                                  *)
LEMMA ReadySound == EngineInv => ReadyMeansAllChecked
<1> SUFFICES ASSUME EngineInv, View!IsReady
             PROVE  \A t \in cfg.targets : statuses[t].state # "none"
  BY DEF ReadyMeansAllChecked
<1> DEFINE R == {t \in Ids : statuses[t].state # "none"}
<1>1. View!RowIds = R
  BY DEF View!RowIds
<1>2. R \subseteq cfg.targets /\ cfg.targets \subseteq Ids /\ IsFiniteSet(cfg.targets)
  BY EngineAssumption DEF EngineInv, RowsCurrent, TypeOK, Config
<1>3. Cardinality(R) >= Cardinality(cfg.targets)
  <2>1. \A S : View!Cardinality(S) = Cardinality(S)
    BY DEF View!Cardinality, Cardinality
  <2> QED
    BY <1>1, <2>1 DEF View!IsReady
<1>4. /\ IsFiniteSet(R) /\ Cardinality(R) <= Cardinality(cfg.targets)
      /\ Cardinality(R) = Cardinality(cfg.targets) => R = cfg.targets
  BY <1>2, FS_Subset
<1>5. Cardinality(R) \in Nat /\ Cardinality(cfg.targets) \in Nat
  BY <1>2, <1>4, FS_CardinalityType
<1> QED
  BY <1>2, <1>3, <1>4, <1>5

(* No order of reloads, stops and checks gives two generations of loops,   *)
(* more checks than the workers in force, a row or a readiness that is not *)
(* of the current configuration, or a stop that lost the baseline.         *)
THEOREM LoopsAlwaysSafe == Spec => []LoopsSafe
<1>1. EngineInv => OneGeneration
  BY DEF EngineInv, LoopsCurrent, OneGeneration, Alive
<1>2. EngineInv => WorkersBounded
  BY DEF EngineInv, SemaphoreCounts, WorkersBounded
<1>3. EngineInv => LoopsSafe
  BY <1>1, <1>2, ReadySound DEF EngineInv, LoopsSafe
<1> QED
  BY <1>3, EngineInvariant, PTL

-----------------------------------------------------------------------------
(* The refinement. *)

(* The rows a reader sees are untouched by a step that stores none.        *)
LEMMA ViewStutters ==
  ASSUME UNCHANGED <<cfg, statuses>>
  PROVE  UNCHANGED View!viewVars
  BY DEF View!viewVars

LEMMA ViewSteps ==
  ASSUME EngineInv, [Next]_vars
  PROVE  [View!ViewNext(HealthState)]_(View!viewVars)
<1>1. CASE ReloadSwap
  <2>1. request.targets \in {c.targets : c \in Configs}
    BY DEF EngineInv, TypeOK
  <2>2. /\ cfg'.targets = request.targets
        /\ [t \in Ids |-> statuses'[t].state] = [t \in Ids |-> "none"]
    BY <1>1 DEF ReloadSwap, NoStatus
  <2> QED
    BY <2>1, <2>2 DEF View!ViewNext, View!Reconfigure, View!NoRows
<1>2. ASSUME NEW l \in Loops, storeStatus(l)
      PROVE  View!ViewNext(HealthState)
  <2> DEFINE s == loop[l].res.state
  <2>1. l[1] \in Ids /\ l[1] \in cfg.targets /\ s \in HealthState
    BY <1>2 DEF storeStatus, EngineInv, LoopsCurrent, TypeOK, Loops, LoopState, CheckResult
  <2>2. /\ statuses' = [statuses EXCEPT ![l[1]] = [state |-> s, gen |-> l[2]]]
        /\ statuses \in [Ids -> [state : HealthState \cup {"none"},
                                 gen : 0..(MaxReloads + 1)]]
        /\ UNCHANGED cfg
    BY <1>2 DEF storeStatus, EngineInv, TypeOK, lifecycle
  <2> HIDE DEF s
  <2>3. [t \in Ids |-> statuses'[t].state]
          = [[t \in Ids |-> statuses[t].state] EXCEPT ![l[1]] = s]
    BY <2>1, <2>2
  <2> QED
    BY <2>1, <2>2, <2>3 DEF View!ViewNext, View!Report
<1>3. ASSUME NEW l \in Loops, LoopStep(l), ~storeStatus(l)
      PROVE  UNCHANGED <<cfg, statuses>>
  BY <1>3 DEF LoopStep, CheckStep, Acquire, AcquireFails, SafetyPasses, SafetyBlocks,
              Attempt, UpdateSkipped, UpdateMemory, PersistOk, PersistFails,
              maybeAlert, Tick, Exit, lifecycle
<1>4. CASE CancelContext \/ StartStep \/ (\E c \in Configs : ReloadBegin(c))
             \/ UNCHANGED vars
  <2>1. UNCHANGED <<cfg, statuses>>
    BY <1>4 DEF CancelContext, StartStep, LoadBaseline, LoadFails, startTargets,
                StopBegin, StopWait, FinalSave, ReloadBegin, vars
  <2> QED
    BY <2>1, ViewStutters
<1> QED
  BY <1>1, <1>2, <1>3, <1>4, ViewStutters DEF Next

(* Readers of the engine see one configured set, rows of its members only, *)
(* and each reload as a single step, however many steps it takes inside    *)
(* (ReloadConfig, storeStatus).                                            *)
THEOREM EngineRefinesView == Spec => ImplementsEngineView
<1>1. Init => View!ViewInit
  BY DEF Init, View!ViewInit, View!NoRows, NoStatus
<1>2. EngineInv /\ [Next]_vars => [View!ViewNext(HealthState)]_(View!viewVars)
  BY ViewSteps
<1> QED
  BY <1>1, <1>2, EngineInvariant, PTL DEF Spec, ImplementsEngineView

-----------------------------------------------------------------------------
(* What an alert says. *)

(* The verdict on a plain failure describes the record it was made from:   *)
(* the outage rule and the aggressive policy never overrule a regression,  *)
(* and what they leave alone raises no alert.                              *)
LEMMA ClassifiedDescribes ==
  ASSUME NEW r \in CheckResult, Plain(r), NEW ok \in BOOLEAN, NEW k \in TargetState,
         k.status = toKnownStateStatus(r.state), ok => k.ever,
         Alerts(classifyWithPolicy(r, ok, k))
  PROVE  Describes(classifyWithPolicy(r, ok, k), k)
<1> DEFINE failing == r.state = "unhealthy"
           regressed == failing /\ k.ever
           outage == /\ failing /\ ~k.ever
                     /\ k.fails >= OutageThreshold
                     /\ r.class \notin {"auth", "config"}
           b == Baselined(r, k)
<1>0. k.ever \in BOOLEAN
  BY DEF TargetState
<1>1. failing <=> r.state # "degraded" /\ IsFailure(toKnownStateStatus(r.state))
  BY DEF Plain, IsFailure, toKnownStateStatus
<1>2. /\ regressed => b.state = "regression" /\ b.regression = TRUE
      /\ outage => b.state = "outage" /\ b.regression = FALSE
      /\ ~regressed /\ ~outage => /\ b.state = r.state /\ b.regression = FALSE
                                  /\ b.severity = r.severity
      /\ b.class = r.class
  BY <1>0, <1>1 DEF Baselined, Plain
<1>3. failing => k.status = "failed"
  BY DEF toKnownStateStatus
<1>4. b \in CheckResult
  BY BaselinedType
<1> HIDE DEF b
<1>5. CASE regressed
  <2>1. /\ classifyWithPolicy(r, ok, k).state = "regression"
        /\ classifyWithPolicy(r, ok, k).regression = TRUE
    BY <1>2, <1>4, <1>5 DEF classifyWithPolicy, Elevated, CheckResult, b
  <2> QED
    BY <1>3, <1>5, <2>1 DEF Describes
<1>6. CASE ~regressed
  <2>1. ~(Aggressive /\ ok /\ IsFailureState(b.state))
    BY <1>0, <1>2, <1>6 DEF IsFailureState, Plain
  <2>2. classifyWithPolicy(r, ok, k) = b
    BY <2>1 DEF classifyWithPolicy, b
  <2>3. outage
    BY <1>2, <1>6, <2>2 DEF Alerts, Plain
  <2> QED
    BY <1>0, <1>2, <1>3, <2>2, <2>3 DEF Describes
<1> QED
  BY <1>5, <1>6

(* Loops of one generation check different targets, so an update of the    *)
(* store by one of them is not an update of another's record.              *)
LEMMA RecordOwned ==
  ASSUME EngineInv, NEW l \in Loops, NEW m \in Loops, l # m,
         loop[l].pc # "none", loop[m].pc # "none"
  PROVE  l[1] # m[1]
  BY DEF EngineInv, LoopsCurrent, Loops

(* A step of one loop leaves what the others have judged.                  *)
LEMMA OthersJudged ==
  ASSUME EngineInv, ChecksJudged, NEW l \in Loops, LoopStep(l)
  PROVE  \A m \in Loops : m # l => Judged(m)'
<1>1. PICK rec : loop' = [loop EXCEPT ![l] = rec]
  <2>0. loop \in [Loops -> LoopState]
    BY DEF EngineInv, TypeOK
  <2>1. loop' = [loop EXCEPT ![l] = loop'[l]]
    BY <2>0 DEF LoopStep, CheckStep, Acquire, AcquireFails, SafetyPasses, SafetyBlocks,
              Attempt, UpdateSkipped, UpdateMemory, PersistOk, PersistFails,
              storeStatus, maybeAlert, Tick, Exit
  <2> QED
    BY <2>1
<1>2. \A m \in Loops : m # l => loop'[m] = loop[m]
  BY <1>1 DEF EngineInv, TypeOK
<1>3. loop[l].pc # "none"
  BY DEF LoopStep, CheckStep, Acquire, AcquireFails, SafetyPasses, SafetyBlocks,
              Attempt, UpdateSkipped, UpdateMemory, PersistOk, PersistFails,
              storeStatus, maybeAlert, Tick, Exit
<1>4. \A m \in Loops : m # l /\ loop[m].pc # "none" => mem'[m[1]] = mem[m[1]]
  <2>1. CASE UpdateMemory(l)
    <3>1. \A t \in Ids : t # l[1] => mem'[t] = mem[t]
      BY <2>1 DEF UpdateMemory, EngineInv, TypeOK
    <3> QED
      BY <1>3, <3>1, RecordOwned DEF Loops
  <2>2. CASE ~UpdateMemory(l)
    BY <2>2 DEF LoopStep, CheckStep, Acquire, AcquireFails, SafetyPasses, SafetyBlocks,
              Attempt, UpdateSkipped, PersistOk, PersistFails,
              storeStatus, maybeAlert, Tick, Exit
  <2> QED
    BY <2>1, <2>2
<1> QED
  BY <1>2, <1>4 DEF ChecksJudged, Judged

(* What a probe or the safety stage hands over is plain.                   *)
LEMMA ProbedPlain ==
  ASSUME PlainResults, NEW r \in ProbeResults \cup SafetyResults
  PROVE  Plain(Unclassified(Completed(r)))
<1>1. r \in ProbeResult
  BY EngineAssumption
<1>2. r.state \in {"healthy", "degraded", "unhealthy"} /\ r.severity \in {"info", "warn"}
  BY DEF PlainResults
<1> QED
  BY <1>1, <1>2, CompletedType DEF Plain

(* ... and so is what the loop itself makes of its check.                  *)
LEMMA OwnJudged ==
  ASSUME PlainResults, EngineInv, ChecksJudged, NEW l \in Loops, LoopStep(l)
  PROVE  Judged(l)'
<1>t. /\ loop[l] \in LoopState /\ loop \in [Loops -> LoopState]
      /\ mem \in [Ids -> TargetState] /\ l[1] \in Ids
  BY DEF EngineInv, TypeOK, Loops
<1>j. Judged(l)
  BY DEF ChecksJudged
<1>1. CASE Acquire(l) \/ AcquireFails(l) \/ SafetyPasses(l) \/ maybeAlert(l) \/ Tick(l) \/ Exit(l)
  <2>1. loop'[l].pc \in {"safety", "select", "attempt", "acquire", "none"}
    BY <1>t, <1>1, NoLoopType
    DEF Acquire, AcquireFails, SafetyPasses, maybeAlert, Tick, Exit, LoopState, Pcs
  <2> QED
    BY <2>1 DEF Judged
<1>2. ASSUME NEW r \in ProbeResults \cup SafetyResults, SafetyBlocks(l, r) \/ Attempt(l, r)
      PROVE  Judged(l)'
  <2> DEFINE res == Unclassified(Completed(r))
  <2>1. Plain(res)
    BY ProbedPlain
  <2>2. \/ loop'[l].pc = "attempt"
        \/ loop'[l].pc = "update" /\ loop'[l].res = res
    BY <1>t, <1>2 DEF SafetyBlocks, Attempt, LoopState
  <2> QED
    BY <2>1, <2>2 DEF Judged
<1>3. CASE UpdateSkipped(l) \/ PersistFails(l)
  <2>1. /\ loop'[l].pc = "store" /\ loop'[l].res = loop[l].res
        /\ loop[l].pc \in {"update", "persist"}
    BY <1>t, <1>3 DEF UpdateSkipped, PersistFails, LoopState
  <2>2. ~Alerts(loop'[l].res)
    BY <1>j, <2>1 DEF Judged, Plain, Alerts
  <2> QED
    BY <2>1, <2>2 DEF Judged
<1>4. CASE UpdateMemory(l)
  <2> DEFINE prev == mem[l[1]]
             st == toKnownStateStatus(loop[l].res.state)
             cur == Observe(prev, st)
  <2>1. /\ loop'[l].pc = "persist" /\ loop'[l].res = loop[l].res
        /\ loop'[l].prevOK = prev.ever /\ loop'[l].cur = cur
        /\ mem'[l[1]] = cur /\ loop[l].pc = "update"
    BY <1>t, <1>4 DEF UpdateMemory, LoopState
  <2>2. cur.status = st /\ (prev.ever => cur.ever)
    BY DEF Observe
  <2> HIDE DEF cur, prev, st
  <2>3. st = toKnownStateStatus(loop'[l].res.state)
    BY <2>1 DEF st
  <2> QED
    BY <1>j, <2>1, <2>2, <2>3 DEF Judged
<1>5. CASE PersistOk(l)
  <2> DEFINE res == classifyWithPolicy(loop[l].res, loop[l].prevOK, loop[l].cur)
  <2>1. /\ loop'[l].pc = "store" /\ loop'[l].res = res
        /\ loop[l].pc = "persist" /\ UNCHANGED mem
    BY <1>t, <1>5 DEF PersistOk, LoopState
  <2>2. /\ loop[l].res \in CheckResult /\ loop[l].prevOK \in BOOLEAN
        /\ loop[l].cur \in TargetState
    BY <1>t DEF LoopState
  <2>3. Alerts(res) => Describes(res, loop[l].cur)
    BY <1>j, <2>1, <2>2, ClassifiedDescribes DEF Judged
  <2>4. loop[l].cur = mem[l[1]]
    BY <1>j, <2>1 DEF Judged
  <2> HIDE DEF res
  <2> QED
    BY <2>1, <2>3, <2>4 DEF Judged
<1>6. CASE storeStatus(l)
  <2>1. /\ loop'[l].pc = "alert" /\ loop'[l].res = loop[l].res
        /\ loop[l].pc = "store" /\ UNCHANGED mem
    BY <1>t, <1>6 DEF storeStatus, LoopState
  <2> QED
    BY <1>j, <2>1 DEF Judged
<1> QED
  BY <1>1, <1>2, <1>3, <1>4, <1>5, <1>6 DEF LoopStep, CheckStep

LEMMA JudgedStep ==
  PlainResults /\ EngineInv /\ ChecksJudged /\ [Next]_vars => ChecksJudged'
<1> SUFFICES ASSUME PlainResults, EngineInv, ChecksJudged, [Next]_vars
             PROVE  ChecksJudged'
  OBVIOUS
<1>1. ASSUME NEW l \in Loops, LoopStep(l) PROVE ChecksJudged'
  BY <1>1, OthersJudged, OwnJudged DEF ChecksJudged
<1>2. CASE startTargets \/ ReloadSwap \/ LoadBaseline
  <2>1. \A l \in Loops : loop[l].pc = "none"
    BY <1>2, NobodyAlive
    DEF startTargets, ReloadSwap, LoadBaseline, EngineInv, GenerationsBooked
  <2>2. \A l \in Loops : loop'[l].pc \in {"none", "acquire"}
    <3>1. [NoLoop EXCEPT !.pc = "acquire"].pc = "acquire"
      BY NoLoopType DEF Pcs
    <3> QED
      BY <1>2, <2>1, <3>1 DEF startTargets, ReloadSwap, LoadBaseline, launchTargets
  <2> QED
    BY <2>2 DEF ChecksJudged, Judged
<1>3. CASE UNCHANGED <<loop, mem>>
  BY <1>3 DEF ChecksJudged, Judged
<1> QED
  BY <1>1, <1>2, <1>3
  DEF Next, StartStep, CancelContext, LoadFails, StopBegin, StopWait, FinalSave,
      ReloadBegin, vars

(* With the built-in probers, an alert describes the baseline as it stands *)
(* when it is raised, for every policy, threshold and number of retries:   *)
(* also across reloads and saves that fail (classifyWithPolicy,            *)
(* maybeAlert).                                                            *)
THEOREM AlertsAlwaysMatch == PlainResults => (Spec => AlertsMatchBaseline)
<1> SUFFICES ASSUME PlainResults PROVE Spec => AlertsMatchBaseline
  OBVIOUS
<1> DEFINE AlertStep ==
      events' # events =>
         LET e == events'[Len(events')]
             k == mem[e.target]
         IN  /\ k.status = "failed"
             /\ e.regression <=> k.ever
             /\ e.state = IF k.ever THEN "regression" ELSE "outage"
             /\ ~k.ever => /\ k.fails >= OutageThreshold
                           /\ e.class \notin {"auth", "config"}
<1>1. Init => ChecksJudged
  BY NoLoopType DEF Init, ChecksJudged, Judged
<1>2. EngineInv /\ ChecksJudged /\ [Next]_vars => [AlertStep]_vars
  <2> SUFFICES ASSUME EngineInv, ChecksJudged, Next, events' # events
               PROVE  AlertStep
    BY DEF vars
  <2>1. PICK l \in Loops : maybeAlert(l)
    BY DEF Next, CancelContext, StartStep, LoadBaseline, LoadFails, startTargets,
           StopBegin, StopWait, FinalSave, ReloadBegin, ReloadSwap, LoopStep, CheckStep,
           Acquire, AcquireFails, SafetyPasses, SafetyBlocks, Attempt, UpdateSkipped,
           UpdateMemory, PersistOk, PersistFails, storeStatus, Tick, Exit
  <2> DEFINE r == loop[l].res
             ev == [target |-> l[1], state |-> r.state,
                    regression |-> r.regression, class |-> r.class]
  <2>2. Alerts(r) /\ loop[l].pc = "alert" /\ events' = Recorded(ev)
    BY <2>1 DEF maybeAlert
  <2>3. Describes(r, mem[l[1]])
    BY <2>2 DEF ChecksJudged, Judged
  <2>4. events'[Len(events')] = ev
    <3>1. events \in Seq(Event) /\ cfg.cap \in Nat \ {0} /\ Len(events) \in Nat
      BY EngineAssumption DEF EngineInv, TypeOK, Config
    <3> HIDE DEF ev
    <3>2. CASE Len(events) < cfg.cap
      BY <2>2, <3>1, <3>2 DEF Recorded
    <3>3. CASE ~(Len(events) < cfg.cap)
      <4>1. events # <<>> /\ Tail(events) \in Seq(Event)
        BY <3>1, <3>3
      <4>2. events' = Append(Tail(events), ev)
        BY <2>2, <3>3 DEF Recorded
      <4> QED
        BY <4>1, <4>2
    <3> QED
      BY <3>2, <3>3
  <2> QED
    BY <2>3, <2>4 DEF Describes
<1>3. EngineInv /\ ChecksJudged /\ [Next]_vars => ChecksJudged'
  BY JudgedStep
<1> QED
  BY <1>1, <1>2, <1>3, EngineInvariant, PTL DEF Spec, AlertsMatchBaseline

=============================================================================
