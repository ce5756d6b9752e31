# Smoke-alarm: a verification project in TLA+

This directory holds TLA+ models of `ocd-smoke-alarm`, the TLC configurations that
check them on small instances, and TLAPS proofs of the properties that matter most.
`PROJECT.json` is the machine-readable index: which definition models which lines,
which run checks which property, which mutant of the code each property refutes, and
where in the code each hazard is.

## 1. The system

`ocd-smoke-alarm` probes a configured set of MCP/ACP/HTTP targets, remembers which of
them have ever been healthy (the *known-state baseline*), and turns a failing probe into
an outage, a regression or nothing, depending on that baseline. A health server publishes
the result; instances on one host or in one cluster form a federation in which an
*introducer* collects the status of its *followers*. The same engine can be embedded in
another Go program, and a separate proxy injects faults into MCP traffic and rotates the
names its tools are called by.

| Component | State it keeps | Operations | What is hard about it |
|---|---|---|---|
| known-state store (`internal/knownstate`) | one record per target; a JSON file and its `.tmp` | `Load`, `Update`, `Save`, `Reset` | every monitor loop calls `Update` and through it `Save`; the lock is released before the file is written; crashes, full disks |
| result classification (`engine.classifyWithPolicy`) | none | probe result and record to state, severity, alert | four rules overwrite one another's verdict |
| monitoring engine (`internal/engine`) | target set, loop generation, worker semaphore, status rows, event history | `Start`, `ReloadConfig`, loops, stop | reload and stop race with running checks; `wg.Wait` under a lock |
| probers (`engine.go`, `stdio_prober.go`) | a process tree per stdio probe | handshake, plain probe, teardown | deadlines during a read; wrappers that fork |
| health sync loop, reload paths (`cmd`, `pkg/smokealarm`) | which rows it has published | tick, withdraw after a reload | reads taken before a reload are published after it |
| embedding API (`pkg/smokealarm`) | started flag, cancel function, join channel | `Start`, `Shutdown`, `Reload` | called from any goroutine; once-guards shared by all runs |
| health server (`internal/health`) | rows, components, readiness, isotopes, features | handlers, setters | a flag and its reason under different locks; verification outside the lock |
| federation introducer (`internal/federation`) | registry, reported statuses | introductions, heartbeats, reports, ageing out | handlers interleave with the age-out loop; late and lost requests |
| peer status sink (`status.go`) | the names it owns in the health view | `ApplyAll`, `Remove` | its lock does not cover what it writes |
| federation follower (`client.go`) | mirrored registry, `registry.json`, view | announce, heartbeat, report loops | replies applied out of order; two writers of one file |
| federation slots (`slots.go`) | lock file, identity file, listener | `ClaimSlot` | competing processes, stale lock files |
| MCP server manager | clusters, agents, marks of attacks | register, validate, rank, evict | five critical sections per call; nested read locks |
| fault proxy (`internal/mcp_faults`) | routes, ledgers, queues, filters | rotate, adopt, validate, announce, commit | clock-driven rotation noticed late; queues at their limit |
| alert notifiers | dedupe windows | `Notify` | concurrent reports of one key |
| operations runtime, update controller (`internal/ops`) | lock file, goroutines, version markers | `Run`, `Execute` | one part failing; a crash between two steps |
| hosted server (`internal/hosted`) | subscribers, event ring, sessions | stream, post | subscribers leave during a fan-out |
| configuration, targets, safety scanner, credentials, discovery, listener binding, one-shot commands | none between steps | functions of their inputs | many rules that must agree with each other |

How they interact: the engine's loops call the safety scanner, the credential manager, a
prober and the store; a tick of the sync loop copies the engine's rows into the health
server; a reload (SIGHUP, the dynamic config endpoint, or `Instance.Reload`) replaces the
engine's configuration and withdraws the rows it dropped; the federation callbacks write
peers and isotopes into the same health server. They meet only through short critical
sections, so almost any order of their steps can happen.

What correctness means: the baseline survives crashes and is never lost piecemeal; an alert
describes the baseline; after a reload no loop, row or readiness of the old configuration
remains; stopping saves what was learnt and returns; what is shown of a target or a peer is
eventually what holds of it; trust is granted to who proved it and ends with the membership
it rests on; and the rules that load, validate and compile a configuration agree.

## 2. Modules

State machines:

| Module | Models | State and actions |
|---|---|---|
| `Baseline` | a target's record in `store.go` | `Observe` is `Store.Update` on one record. Counters are cut at `CountCap`, at least the sustain threshold, the only number they are compared with |
| `KnownState` | `Store` with its file | memory, `path`, `path.tmp`, and per caller the step of `Save` it is at. A file is an inode that a descriptor may still write to after a rename, as on Unix |
| `AtomicBaseline` | what the store promises | memory and one file; a save replaces the file at once |
| `Classification` | `classifyWithPolicy`, `toKnownStateStatus`, the alert condition | operators |
| `Engine` | `Start`, `stopTargets`, `ReloadConfig`, `runTargetLoop`, `executeCheck`, `storeStatus`, `maybeAlert` | one action per lock region; the prober's and the safety scanner's answers are inputs |
| `EngineView` | what `SnapshotStatuses`, `TargetIDs` and `IsReady` show a reader | rows, targets, reconfigure, report |
| `HealthSync` | `syncHealthLoop` and the reloaders, over `EngineView` | one action per call to the engine or the health server |
| `Instance` | `pkg/smokealarm` | calls of `Start`, `Shutdown`, `Reload` step by step, the goroutine running `eng.Start`, `startOnce`, `stopOnce`, and the loops, which every reload launches anew on the context of the run that monitors |
| `StdioProcess` | `StdioProber.performHandshake`, `teardownStdioServer` | the process tree, pipes, the deadline; the server answers, errs or dies |
| `OpsRuntime` | `ops/runtime.go` | lock file, bootstrap, a `Run` that fails before anything runs, the three goroutines, signals, kills |
| `Lifecycle` | `ops/update.go` | `Execute` step by step with every failure, rollback, markers, crashes, a first installation; `Plan` says which of its steps the plan has a command or a verifier for |
| `PeerSink` | `PeerStatusSink` | the swap of `p.owned`, each withdrawal, each rendering and its record |
| `Introducer` | `server.go`, `registry.go`, the callbacks in `main.go` | handlers and `ageOutLoop`, over `PeerSink` |
| `Follower` | `client.go`, the follower's `registry.go` | the announcement and the heartbeat loop, each request a round trip that may be lost, refused by a full introducer or answered late, the records of a reply applied one by one, reports that grow old, `SaveSnapshot`; another introducer may take over |
| `Slots` | `slots.go` | processes that claim, crash and restart; lock file, pid, ports, identity file |
| `HealthServer` | isotope and feature registries of `health/server.go` | registration split where trust is verified, renewal, sweep, mesh records, certification |
| `Readiness` | the sync loop's look at the engine, `SetReady`, components, the readers of `/readyz` and `Snapshot` | the component, the atomic flag and the locked reason written, and flag and reason read, as separate steps |
| `HostedServer` | subscribers, posts, the event ring, sessions | fan-out one channel at a time |
| `Notifiers` | `alerts/notifier.go` | workers and sinks, a clock read before the lock is taken, the window |
| `ServerManager` | `mcp_server_manager.go`, clusters of `tool_proxy.go` | validation through its five critical sections, `sync.RWMutex` with writer preference |
| `RouteProxy` | `tool_proxy.go`, `rotation_schedule.go`, `AdoptLedger` | a clock, rotations by schedule and by hand, burns, adoption by a standby |
| `FaultQueues` | the queues, filter, pads and tumbler of `mcp_faults` | one device per behaviour |

Pure algorithms. `Decision` gives them one shape: an input is chosen, one step answers it,
and a property relates the two. The input sets are products of what the code tells
apart. Where an input has no bound in the code (port and worker numbers, lists of targets, methods, tests,
links or report entries, sets of stores, clocks), it is a constant under an assumption that says
only its type, plus what `config.Validate` has refused before (in `OneShot`, a target ID used twice); the modules
define next to it the sample TLC takes, named `...Sample`. Go's loops over slices are `Loop` of
`Decision`, a recursion over positions; `Filter` is the loop that keeps some entries, and `Blank` is the unset text.

| Module | Models |
|---|---|
| `ConfigRules` | `ApplyDefaults`, `Validate`, the aliases of a target and of its OAuth section, `RewriteSelfReferences` |
| `Targets` | `config.Validate` of a target against `compileTargets` and `Target.Validate`, each with the URL parser and the idea of an empty ID it has |
| `Probers` | method lists, HTTP and stdio handshakes, the plain probe, `validateMCPInitializeResult`, and the hosted server as the peer probed: `dispatchRPC` for a POST, 405 for a plain GET |
| `SafetyGate` | `Scanner.RunTarget` and `runSafetyStage` |
| `Credentials` | resolvers over stores that hold texts of their own, `BuildHeaders`, OAuth validation, the mock callback |
| `Discovery` | `Discover`'s sources, which share one context, and its dedupe; `SaveDiscoveryRecords` with `sanitizeID` and the fingerprint |
| `HealthViews` | `netbind.Listen`, the handlers' routes, report merging, the summary, the self-description |
| `PeerView` | `PeerStatusSink.render`'s rows, roll-up and trimming, `RequireSharedSecret` |
| `FaultRules` | `VerifyRotation`, the commit and its store; failure modes, injection profiles, seeds |
| `OneShot` | `check` and `validate` of the command line |

`MCEngine` gives constants. `MCLifecycles`, `MCServices` and `MCFederation` put independent
state machines under one run: a variable `part`, chosen initially and never changed, says
which of them moves; the others stay at their initial state. So the states of a
run are the *sum* of the parts' and not their product, and fairness is
asserted of the part that moves. `MCRules` does the same with `topic`.

`Engine` implements `EngineView` (checked and proved); `KnownState` with non-overlapping calls
implements `AtomicBaseline` (checked and proved); `Introducer` uses `PeerSink` within its
specification (proved); `HealthSync` runs over `EngineView`, the abstract engine.

Operators marked "Mutant of" in their comment are part of no specification: each is a
plausible bug in the definition that follows it, and refutes the property it is listed with.

## 3. Runs

A run's invariant is usually the conjunction of the named parts of one module's contract;
the parts carry their own comments.

| Run | Question | Bounds and why they are enough |
|---|---|---|
| `known_state_shared` | two goroutines share the store: do counters tell the truth, is a baseline never taken from one target? | one target, sustain threshold 2: the races are about the file, which all targets share |
| `known_state_serial` | without overlap, with crashes and failing writes: is the store an atomic baseline? | two targets, so that a save writes more than the target just updated |
| `known_state_torn` | is the file whole when saves overlap? *violated* | |
| `engine_reload` | `LoopsSafe`, `ImplementsEngineView`: two reloads that drop a target, bring it back and change `max_workers`, racing with checks, with `Start` and with the stop | two targets, two reloads: a third finds a state the first could have left |
| `engine_alerts` | every sequence of results, retries and safety blocks for one target: does an alert describe the baseline? | counters to 3, thresholds 2 and 3: each is crossed and missed by one |
| `engine_lost_alert` | is a failure of a known-healthy target always alerted? *violated* | |
| `lifecycles` | do stop and reload complete and is each target checked (`EngineProgress`); does the view follow the engine (`NoOrphanRows`, `ViewFollows`); does the join channel mean quiet, and does `Shutdown` return (`DoneMeansQuiet`, `ShutdownReturns`); does an update say what it did (`UpdateHonest`); do a runtime and a probe end and leave nothing (`RuntimeEnds`, `ProbeEnds`)? | two targets on one worker; two reloaders, since one withdrawal cannot be overtaken; two callers and two starts; two controllers, whose plan has every step, or whose first version this is; a foreground and a background runtime contending for a lock; three methods and a tree of two processes |
| `federation` | introducer: do trust and shown status follow membership and reports? Follower: does it keep naming its introducer, does `registry.json` go forward only, does it rejoin and show what the cluster last said? | two peers, one handler and the loop, cap 1: a member, and a peer refused that reports nevertheless. The follower has one other member and two introducers in turn, caps of 1 or 2 on either side, so that it may be refused, and one fault (a lost message, a failed save or a change of the introducer) |
| `introducer_late` | are only members shown when nothing is being served? *violated* | one peer |
| `services` | eight servers and devices: rotating routes, the server manager, queues, registries, readiness, fan-out, dedupe, slots | two of every actor that can race; limits of 1 or 2 so that each is met and exceeded; horizons two periods past the last deadline |
| `rules` | eleven rule sets over samples of all their inputs | every combination of the cases each function tells apart; ports around 0 and 65535, worker counts around every cap, lists of up to three entries that repeat, disagree or are empty, and contexts of discovery that end after any number of items. The theorems of `RulesProofs` lift these bounds |
| `strict_profile` | does `strict` ask all of its methods? *violated* | |

Deadlock checking is off where the system really may stop: a stopped engine or runtime stays stopped, a
question answered stays answered, and the services' clocks and counters have a horizon.

**Fairness.** A goroutine inside a call goes on running (weak fairness of its steps): Go's
scheduler is fair, probes and saves have deadlines. In the engine the acquisition of
a worker is strongly fair, because `semaphore.Weighted` serves its waiters in the order they came;
so is a loop's exit, because a select with two ready cases picks either with equal chance,
and `Start`'s stop, because Go's mutex hands itself to a waiter that has starved.
Tickers tick, deadlines come, and a follower's loops go on retrying; faults of the network
and restarts of the introducer are bounded (`MaxFaults`). Nothing is assumed of the user, of
reloads or of a peer: properties of `Introducer` that need requests to
keep arriving say so in their premises.

### What the violated runs show

* **known_state_torn** - `Save` writes one `path.tmp` for all callers after releasing its
  lock. A caller can rename the file another has just truncated. "Atomic" holds for
  calls that do not overlap, which is what `SerialPathWhole` proves.
* **engine_lost_alert** - `Update` returns an error when its `Save` failed, although memory
  holds the observation; the check then skips the regression rule and no alert is raised.
  A lost race for `path.tmp` suffices.
* **introducer_late** - `render` shows a peer before owning it, and reports of peers that have left
  are accepted.
* **strict_profile** - for a target that lists no methods `ApplyDefaults` fills in `required_methods: [initialize]`,
  which overrides the profile: a server that would answer every method of `strict` is asked `initialize` alone.

### Statements the models refute, without a run of their own

Each is a definition of its module, stated beside the properties that hold; checking it as an
invariant or property of the module's own specification gives the counterexample.

| Statement | Where it is said | What happens |
|---|---|---|
| `Instance!ShutdownWaitsForEngine` | `smokealarm.go:365` | `started` is cleared before the join: a second `Shutdown` returns nil at once |
| `Instance!LoopsGoneWhenDone` | `smokealarm.go:365` | a second run is cancelled first and uses up `stopOnce`; a `Reload` launches the loops again on the first run's context, which when cancelled finds nothing to stop: its channel is closed while they still end |
| `StdioProcess!DeadlineNeverBlames` | `stdio_prober.go:243` | a deadline during a *write* is classed as the server's protocol error |
| `Slots!LowestSelected` | `slots.go:90` | the recorded port is tried first, although a lower one is free |
| `Slots!LockExclusive` | `acquireSlotLock` | a stale lock is removed by name: two processes that both found it stale may both hold it. The ports keep the election right (`ElectionHolds`) |
| `OpsRuntime!OneInstance` | `acquireLock` | as above |
| `OpsRuntime!BackgroundFailureEnds` | | `runBackground` receives the error and then waits for goroutines nobody cancels |
| `OpsRuntime!AdvertisedWhileRunning` | | an advertiser that fails to start is logged only |
| `Lifecycle!FailureRollsBack` | `update.go:130` | a failed deploy or commit leaves the service down, or running unmarked, without a rollback |
| `ServerManager!RankingNeverStuck` | | `GetServerRanking` takes the read lock twice; a writer in between blocks both |
| `ServerManager!StaleIsNoAttack` | `failures.go:54` | stale routes count towards the rejection threshold like guesses |
| `RouteProxy!ScheduleShared` | `rotation_schedule.go:28` | a schedule made late starts at the clock's epoch while its holder computes from the origin |
| `RouteProxy!AnnouncesItsOwn` | `rotation_verify.go:152` | an adopter announces its predecessor's last rotation as its own |
| `HealthServer!UnprovenHoldsFloor`, `!CertifierLive` | `README.md:90` | an unattested renewal keeps a mesh rung, and an expired entry certifies until it is swept |
| `HealthViews!DescribesOnlyBound` | `selfdescription.go:402` | an enabled surface that failed to bind is described at its configured address |
| `Readiness!SnapshotConsistent` | `server.go:461` | a reader that a `SetReady` overtakes between flag and reason is told ready with a reason not to be |
| `Notifiers!SilenceWasDelivered` | | a desktop command that fails still starts the window |
| `Discovery!StaticKept` | `README.md:713` | two static targets with one protocol and endpoint become one record |
| `Credentials!RedirectIsOptional` | `config.go:1274` | the authentication manager refuses a target without them (`provider.go:132`), so a configuration that validates cannot authenticate |
| `Discovery!IDsUniquenessSafe` | `README.md:717` | ids that differ only in what `sanitizeID` makes a dash of, with one endpoint and two transports, have one file name: the fingerprint leaves the transport out |
| `ConfigRules!ArgsWin` | `config.go:1312` | the arguments of a `command` alias replace `stdio.args` |
| `PeerView!OnlyDegradedIsUp` | `status.go:112` | a peer whose targets have regressed is up as well: the roll-up counts neither them nor the unknown |
| `PeerView!AlertsOutliveAll` | `status.go:20`, `:157` | healthy components come before unhealthy targets when the cap cuts |
| `OneShot!ExitTellsUnreachable` | `docs/features/catalog/config-validation.md:33` | a probe that times out is degraded, which `check` does not count |

Seen while modelling: a reload that lowers `event_history_size` never shortens the history; a
`Start` after a `Shutdown` monitors nothing because the engine's `startOnce` is used up;
`Instance.Reload` points the self-check back at the configured port after the listener yielded to
another; the aggressive policy and the outage rule change nothing for a target with a
baseline (`AlertsMatchBaseline`); `toTarget` in `main.go` drops the HURL tests' headers and types; the stdio
prober's HTTP fallback drops the authentication headers; a follower never removes a peer it
was once told of; `lastVersion` of the follower is compared and stored without a lock, and nothing reads it;
`validate` exits 0 with issues; an id of white space, a fragment behind the host of an address or of a HURL test's, and an sse
target whose address is not http pass `config.Validate` and are refused by `Target.Validate` (`LateRefusal`);
a hosted server that is its own target under the profile `none` is found unhealthy, since a plain GET is answered with 405; a
file with nothing in it is taken for a secret, and so is a variable of white space.

## 4. Proofs

TLC shows a property for the instance above; the theorems hold for every value of the constants.

* `KnownStateProofs` - `TypeCorrect`, `CountersTruthful`, `BaselineKept` for any targets and callers, with crashes and
  failing writes. The invariant says of every record *wherever it is* (memory, a clone,
  a buffer being written, either file) that its counters agree with its status; memory alone is not
  inductive, because `Load` brings back what a file held. `BaselineKept` is an action property
  that follows step by step.
  `SerialPathWhole` and `SerialRefinement` assume that at most one caller exists (`OneCaller`).
  `SerialInv` adds where the descriptor points while a save is at each step: this is what
  makes a rename move a whole file.
* `EngineProofs` - `LoopsAlwaysSafe`: no order of `Start`, reloads, checks and the stop leaves two generations of
  loops, more checks than the workers in force, rows or readiness of an earlier configuration, or a stop that lost the
  baseline. None of these is inductive: `EngineInv` adds what `runMu` protects (`GenerationsBooked`: the last
  generation runs exactly if it was not cancelled, and whoever holds `runMu` has cancelled it) and that the
  semaphore's units are exactly the checks under way (`SemaphoreCounts`), without which a reload that lowers
  `max_workers` could not be bounded. `EngineRefinesView` maps each step to a step of `EngineView` or a stutter.
  `AlertsAlwaysMatch` is an action property; `ChecksJudged` follows a result from its
  probe to its alert and says at each point what the record it was judged by has to do with it. Its hypothesis
  `PlainResults` says what the built-in probers and the safety scanner return: healthy, degraded or unhealthy, never
  "critical" (`engine.go` 397-414, 709-813, 932-967, 1273; `stdio_prober.go` 98-161). The run `engine_alerts`
  satisfies it. A custom prober that returns "outage" itself would be believed, whatever the baseline.
* `FederationProofs` - `SinkOwnsRollUps`: `Tracked` says that a roll-up shown is owned or is in the hands of a call
  that will withdraw or record it; each step of a call passes it on. `UsesSink` shows
  that the introducer takes only steps `PeerSink` allows, hence `IntroducerOwnsRollUps`.
  `TrustBounded` needs that a handler between its upsert and its callback serves a
  peer that is still fresh - the assumption, written in `Silence`, that a handler takes less than
  `heartbeat_timeout` - and that the loop's list of pending announcements is empty outside them.
  `IntroducerAlwaysNamed`: the introducer's record is the first of a reply to be applied, so for any
  number of members, any cap and any successors of the introducer one is in the registry before a peer can take its place
  (`IntroducerFirst`); `FollowerInv` says of each round what it has already applied. `SnapshotNeverBack`: whoever holds `snapshotMu` took its
  snapshot under it, so the snapshot contains the file; and the registry, which only grows, contains both.
* `LifecycleProofs` - `RowsNeverOrphaned`: each row shown is one the sync loop has on its books. The row is not
  on the books between its upsert and the end of the tick, so `SyncInv` says instead that such a
  row is among what the tick in progress will record, and relates the tick's
  local reads to the rows shown. `ClosedMeansQuiet`: the channel `Shutdown` waits for is closed only when the run's
  goroutine is gone, if the run monitors only after the final save, and if it stopped the loops itself no
  loop writes any more, whatever reloads came since. That a run is closed once is not visible in the channel itself, so `InstanceInductive`
  says that a `Start` on its way owns its run (no goroutine, channel open, no other `Start` with the same
  number), that the loops belong to a launched run, that runs not yet reached are untouched, and that a
  run which used `stopOnce` was cancelled before it, so that no reload launches loops on its context (`StopperQuiet`).
  If another run used `stopOnce` first, loops may outlive the channel: `LoopsGoneWhenDone` above.
  `UpdateAlwaysHonest`, an action property of the update controller: `UpdateInv` says that who executes holds the
  lock and has read the marker that still stands, which payload is in place at each step and that a
  verified one runs, if the plan has a verifier. `Plan` is any set of steps with a lock and a start. A commit that came after another controller's would otherwise not be ruled out.
  `DeathsAlwaysKnown` and `ProbeAlwaysAccountable` are the safety halves of `RuntimeEnds` and `ProbeEnds`. The first
  (`DeathsKnown`: a dead engine is one the run was told of, a process that is gone leaves nothing running or advertised) needs that goroutines run, and
  the service is advertised, only in their phases of `Run`. The second (`ProbeAccountable`: healthy only with every
  answer, blame only for a wrong or the deadline, no process left) needs that before the teardown stdin is open, so that a
  tree that is gone by then died by itself or by the deadline.
* `HostedProofs` - `FanOutAlwaysSafe`: several fan-outs run at once, each over its own copy of the subscriber list.
  `HostedInv` says that a channel still listed, or still ahead of a fan-out, is open, that a fan-out's
  copy never names a subscriber twice and its message is in none of the channels ahead of it, and that the ring is the
  newest of what was told. The lemmas about removing and
  appending entries of sequences are also used below.
* `ServicesProofs` - five state machines, each with its own invariant. `ElectionAlwaysHolds`: ports are held
  by one process each, whatever the lock file says; `PidsWritten` and `AloneClears` say which lives a lock can name and what a
  process that is alone finds at each step, which is what makes a crash harmless to the next start.
  `TrustAlwaysProved`: a decision taken outside the lock is proved too, since a registration verifies before it writes.
  `ReadinessAlwaysTold`, an action property: `ReadyInv` says that the engine's component is the last look published, that flag and
  reason agree unless `SetReady` is between them, and that a reader nobody overtook still has the flag as it is. `AlertsAlwaysSpaced`: what a
  sink remembers of a key is the newest time it let it through, and the clock a call read before the lock is never later than now. `BlameAlwaysJust`: between its
  critical sections a validation that has counted a call is on its way to mark the server
  (`AttackPending`), and whatever speaks against a server, in the manager or in a goroutine's hands, has its cause in the
  history (`CausesKnown`).
* `FaultProofs` - `QueuesAlwaysSound` and `CriticalAlwaysProtected`: in a queue that evicts from its middle, order can
  only be stated per class, and over what was served and what is queued together; the counters account for each item
  offered. The rotation chain, the filter and the pads have their own parts. `RouteAlwaysSound`: `RouteInv` dates
  every closed epoch. A burned stamp or a ledger entry is never dated later than the epoch of its prefix was over, even
  if that was noticed later; the ledger is the newest part of the history, entry by entry; a proxy that
  was never told to rotate has left at most one epoch per period. The invariant is shown of the proxy as a reader would find it, after
  `syncEpoch`, because every verdict is given there. That the loop of `AdoptLedger` lists no foreign stamp twice is proved by its
  least counterexample, since induction rules are not available.

* `RulesProofs` - the eleven rule sets of the run `rules`, for any lists, numbers and sets the assumptions
  allow. The inductive invariant is `RulesTold`: a question is one of its topic's, and its answer is what the modelled function computes
  (`RulesAreTold`). What remains is a statement about one function and every input of it:
  * *loops*. No induction rule can be instantiated here, so `UpTo` finds the least number a
    statement would fail of, `LoopExists` shows that a recursion over positions has a solution, and each loop of the
    code has a lemma naming the states it goes through (`HTTPPath`, `SavePath` and the like) and one saying what a turn does
    (`HTTPTurn`, `SaveTurn`). What holds after `i` turns is then stated once per loop, for example `SavedSoFar`.
    `FilterPlaces` says of a filter where each entry kept comes from;
  * *gate and one-shot*. The first failure is the least position that fails; `SortByID` keeps the entries and
    orders them (`OneShotAlwaysTells`), for IDs that are integers, of which only the order is used;
  * *probers*. For a list of methods of any length and any peer: a handshake is healthy only if each turn was good,
    and the server the alarm hosts is such a peer (`HostedIs`);
  * *discovery*. Wherever the shared context ends, the records are those of the items it lasted for, once each.
    The transport of a record that was not configured follows from its source and endpoint (`FetchedIs`), so what `makeID`
    puts into a unique name identifies it (`NameTells`), and only configured twins meet in a file;
  * *views and peer rows*. Sizes of the parts of a summary add up because they are disjoint
    (`SumOfParts`); the cut of a peer's rows keeps the unhealthy prefix whatever the cap is;
  * *targets*. The two validations are compared field by field: what only the second refuses is exactly `LateRefusal`;
  * *credentials*. A text is followed from the store of its scheme through the chain of resolvers into the header;
  * *configuration, faults*. By cases over what each function tells apart, with numbers left free.

Assumptions are only those named `ASSUME` in the modules: bounds are natural
numbers, capacities, periods and windows are positive, the loop is a caller, the lists the rules are asked about have the
types of the code and targets IDs of their own, and the names that stand for nothing
("none", "empty", "end", "no receipt") are not members of the sets they are outside of. TLC evaluates them in every run.
`OneCaller` and `PlainResults` are hypotheses of the theorems that name them.

Only model-checked:

* Liveness and everything under fairness (`EngineProgress`, `ViewFollows`, `ShutdownReturns`, `RuntimeEnds`, `ProbeEnds`,
  `IntroducerConverges`, `FollowerConverges`): the prover does not reason about fairness and `ENABLED`. What safety
  `RuntimeEnds` and `ProbeEnds` rest on is proved.
* The statements of the violated runs, and those of the table above, which are refuted.

Every invariant and every action property of a passing run is a theorem.

## 5. Not modelled

Message texts, log lines, telemetry; rendering of pages, tables and artifacts; YAML, HTTP and
`llms.txt` decoding; the hurl program and the HTTP exchanges of a probe, which are inputs; the
terminal UI; mDNS traffic; the generator of meta-configuration, which keeps no state; the step definitions of
the acceptance tests, a third of the lines, which exercise the components above. In the modelled
components: `Registry.Remove`, which no command calls; the lives of the HTTP
servers of the introducer and the mock OAuth server; the names below a peer's roll-up over time
(`PeerView` has one rendering of them, `PeerSink` the roll-up's life); the configuration an
`Instance` is reloaded with, of which only the self-check's address is kept; an update plan without a lock file or a start
command, for which nothing is promised.

## 6. What could come next

Lemmas on `Baseline` shared by `KnownStateProofs` and `EngineProofs`. A composition of `Follower` with `Introducer` over one
network in place of each other's environment, so that an alert on one follower is followed to the others; per-target components in
`PeerSink`.
