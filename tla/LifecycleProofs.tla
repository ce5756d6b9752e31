-------------------------- MODULE LifecycleProofs ---------------------------
(***************************************************************************)
(* Proofs about what comes to an end beside others: the rows of the        *)
(* health view, for every set of ids and number of reloaders; the runs of  *)
(* the embedding API, for every number of callers and of starts; an        *)
(* update of the installation, for every number of controllers; the        *)
(* operations runtime, for every number of processes; and the probe of a   *)
(* stdio server, for every length of its handshake.                        *)
(***************************************************************************)
EXTENDS HealthSync, Instance, Lifecycle, OpsRuntime, StdioProcess, TLAPS

-----------------------------------------------------------------------------
(* The health view: no row is orphaned (module HealthSync).                *)

(* Where the loop is in its tick: outside the upsert phase it holds no     *)
(* statuses, and what it is about to upsert it has already recorded as     *)
(* found in this tick.  The second conjunct of the pair is what keeps a    *)
(* row upserted from statuses that a reload made stale from being orphaned.*)
TickInv ==
    /\ pc # "upsert" => todo = NoRows
    /\ \A t \in TargetIDs : todo[t] # "none" => t \in current
    /\ pc \in {"wait", "ready"} => current = {}

(* The induction hypothesis. *)
SyncInv == SyncTypeOK /\ TickInv /\ NoOrphanRows

LEMMA SyncTypeStep == SyncTypeOK /\ [SyncNext]_syncVars => SyncTypeOK'
<1> SUFFICES ASSUME SyncTypeOK, [SyncNext]_syncVars PROVE SyncTypeOK'
    OBVIOUS
<1> USE DEF SyncTypeOK
<1>1. ASSUME NEW t \in TargetIDs, NEW s \in States, Check(t, s) PROVE SyncTypeOK'
    BY <1>1 DEF Check, Report
<1>2. ASSUME NEW r \in Reloaders, NEW T \in TargetSets, SyncReload(r, T)
      PROVE  SyncTypeOK'
    BY <1>2, HealthSyncAssumption DEF SyncReload, Reconfigure, NoRows
<1>3. ASSUME NEW r \in Reloaders, NEW t \in TargetIDs, Withdraw(r, t) PROVE SyncTypeOK'
    BY <1>3 DEF Withdraw
<1>4. CASE SyncStep
  <2>1. CASE ReadTargetIDs
      BY <2>1, HealthSyncAssumption DEF ReadTargetIDs
  <2>2. CASE ReadStatuses
      BY <2>2 DEF ReadStatuses, RowIds
  <2>3. ASSUME NEW t \in TargetIDs, Upsert(t) PROVE SyncTypeOK'
      BY <2>3 DEF Upsert
  <2>4. ASSUME NEW t \in TargetIDs, Prune(t) PROVE SyncTypeOK'
      BY <2>4 DEF Prune
  <2>5. CASE KeepOwned
      BY <2>5 DEF KeepOwned
  <2>6. CASE PublishReady
    <3>1. IsReady \in BOOLEAN
        BY DEF IsReady
    <3> QED
        BY <2>6, <3>1 DEF PublishReady
  <2> QED
      BY <1>4, <2>1, <2>2, <2>3, <2>4, <2>5, <2>6 DEF SyncStep
<1>5. CASE UNCHANGED syncVars
    BY <1>5 DEF syncVars
<1> QED
    BY <1>1, <1>2, <1>3, <1>4, <1>5 DEF SyncNext

LEMMA OrphanStep ==
    SyncTypeOK /\ TickInv /\ NoOrphanRows /\ [SyncNext]_syncVars
    => TickInv' /\ NoOrphanRows'
<1> SUFFICES ASSUME SyncTypeOK, TickInv, NoOrphanRows, [SyncNext]_syncVars
             PROVE  TickInv' /\ NoOrphanRows'
    OBVIOUS
<1> USE DEF TickInv, NoOrphanRows
<1>1. ASSUME NEW t \in TargetIDs, NEW s \in States, Check(t, s)
      PROVE  TickInv' /\ NoOrphanRows'
    BY <1>1 DEF Check
<1>2. ASSUME NEW r \in Reloaders, NEW T \in TargetSets, SyncReload(r, T)
      PROVE  TickInv' /\ NoOrphanRows'
    BY <1>2 DEF SyncReload
<1>3. ASSUME NEW r \in Reloaders, NEW t \in TargetIDs, Withdraw(r, t)
      PROVE  TickInv' /\ NoOrphanRows'
    BY <1>3 DEF Withdraw, SyncTypeOK
<1>4. CASE SyncStep
  <2>1. CASE ReadTargetIDs
      BY <2>1 DEF ReadTargetIDs, NoRows
  <2>2. CASE ReadStatuses
      BY <2>2 DEF ReadStatuses, RowIds
  <2>3. ASSUME NEW t \in TargetIDs, Upsert(t) PROVE TickInv' /\ NoOrphanRows'
      BY <2>3 DEF Upsert, SyncTypeOK
  <2>4. ASSUME NEW t \in TargetIDs, Prune(t) PROVE TickInv' /\ NoOrphanRows'
      BY <2>4 DEF Prune, SyncTypeOK
  <2>5. CASE KeepOwned
      BY <2>5 DEF KeepOwned, NoRows
  <2>6. CASE PublishReady
      BY <2>6 DEF PublishReady
  <2> QED
      BY <1>4, <2>1, <2>2, <2>3, <2>4, <2>5, <2>6 DEF SyncStep
<1>5. CASE UNCHANGED syncVars
    BY <1>5 DEF syncVars
<1> QED
    BY <1>1, <1>2, <1>3, <1>4, <1>5 DEF SyncNext

(* Whatever reloads happen between the loop's reads of the engine and its  *)
(* writes to the health server, each row shown there is one syncHealthLoop *)
(* has recorded and will compare with the target set at its next tick.     *)
THEOREM RowsNeverOrphaned == SyncSpec => []NoOrphanRows
<1>1. SyncInit => SyncInv
    BY DEF SyncInit, ViewInit, SyncInv, SyncTypeOK, TickInv, NoOrphanRows, NoRows
<1>2. SyncInv /\ [SyncNext]_syncVars => SyncInv'
    BY SyncTypeStep, OrphanStep DEF SyncInv
<1>3. SyncInv => NoOrphanRows
    BY DEF SyncInv
<1> QED
    BY <1>1, <1>2, <1>3, PTL DEF SyncSpec

-----------------------------------------------------------------------------
(* The embedding API: a closed channel means quiet (module Instance).      *)

(* Where a caller can be.                                                  *)
Calls == [op : {"none", "start", "shutdown"},
          pc : {"idle", "bind", "rewrite", "launch", "cancel", "join", "nil"},
          run : 0..MaxStarts]

(* What the fields and the callers' places hold.                           *)
InstanceTypeOK ==
    /\ run \in 0..MaxStarts
    /\ done \subseteq Runs
    /\ engine \in [Runs -> {"none", "enter", "wait", "save", "gone"}]
    /\ launched \in BOOLEAN
    /\ monitor \in 0..MaxStarts
    /\ loops \in BOOLEAN
    /\ stop \in {"unused", "running", "finished"}
    /\ stopper \in 0..MaxStarts
    /\ call \in [Callers -> Calls]

(* A Start that has not returned owns its run: nobody has launched a       *)
(* goroutine for it, and nobody has closed its channel.                    *)
StartOwnsRun ==
    \A c \in Callers : call[c].op = "start" =>
        /\ call[c].run \in 1..run
        /\ engine[call[c].run] = "none"
        /\ call[c].run \notin done

(* No two Starts on their way are of the same run.                         *)
StartsApart ==
    \A c, d \in Callers :
        call[c].op = "start" /\ call[d].op = "start" /\ c # d
            => call[c].run # call[d].run

(* The loops belong to a run whose goroutine has been launched, and to     *)
(* none before the engine's startOnce has been used.                       *)
MonitorLaunched ==
    /\ ~launched => monitor = 0
    /\ monitor # 0 => engine[monitor] # "none"

(* A run no Start has reached yet is untouched.                            *)
FutureUntouched ==
    \A r \in Runs : r > run => engine[r] = "none" /\ r \notin done

(* The run that used stopOnce was cancelled before, so that if the loops   *)
(* run on its context they have left, and no reload can bring them back.   *)
StopperQuiet ==
    stopper # 0 => /\ stopper \in cancelledRuns
                   /\ engine[stopper] \in {"save", "gone"}
                   /\ stopper = monitor => ~loops

InstanceInductive ==
    /\ InstanceTypeOK
    /\ StartOwnsRun
    /\ StartsApart
    /\ MonitorLaunched
    /\ FutureUntouched
    /\ StopperQuiet
    /\ DoneMeansQuiet

(* The state of a step that leaves the engine and the channels alone.      *)
quietVars == <<run, done, engine, launched, monitor, stop, stopper>>

(* Contexts stay cancelled, and loops appear only on one that is not.      *)
LoopsSafe ==
    /\ cancelledRuns \subseteq cancelledRuns'
    /\ loops' \in BOOLEAN
    /\ loops' => loops \/ monitor \notin cancelledRuns

-----------------------------------------------------------------------------

(* The instance starts in the invariant: no run, no caller, no loops.      *)
LEMMA InstanceInitially == InstanceInit => InstanceInductive
<1> SUFFICES ASSUME InstanceInit PROVE InstanceInductive
  OBVIOUS
<1>1. InstanceTypeOK
  <2>1. 0 \in 0..MaxStarts
    BY InstanceAssumption
  <2>2. NoCall \in Calls
    BY <2>1 DEF NoCall, Calls
  <2>3. engine \in [Runs -> {"none", "enter", "wait", "save", "gone"}]
    BY DEF InstanceInit
  <2> QED
    BY <2>1, <2>2, <2>3 DEF InstanceInit, InstanceTypeOK
<1>2. \A c \in Callers : call[c].op = "none"
  BY DEF InstanceInit, NoCall
<1>3. StartOwnsRun /\ StartsApart
  BY <1>2 DEF StartOwnsRun, StartsApart
<1>4. MonitorLaunched /\ FutureUntouched /\ StopperQuiet /\ DoneMeansQuiet
  BY DEF InstanceInit, MonitorLaunched, FutureUntouched, StopperQuiet,
         DoneMeansQuiet
<1> QED
  BY <1>1, <1>3, <1>4 DEF InstanceInductive

(* A step that changes no run and no channel keeps the invariant when it   *)
(* moves one caller, within its run, and puts nobody into Start.           *)
LEMMA QuietStep ==
  ASSUME InstanceInductive, NEW c \in Callers,
         NEW new \in Calls,
         call' = [call EXCEPT ![c] = new],
         new.op = "start" => call[c].op = "start" /\ new.run = call[c].run,
         UNCHANGED quietVars, LoopsSafe
  PROVE  InstanceInductive'
  BY DEF InstanceInductive, InstanceTypeOK, StartOwnsRun, StartsApart,
         MonitorLaunched, FutureUntouched, StopperQuiet, DoneMeansQuiet, Runs,
         quietVars, LoopsSafe

(* The same for a step that moves no caller at all.                        *)
LEMMA IdleStep ==
  InstanceInductive /\ UNCHANGED <<quietVars, call>> /\ LoopsSafe
    => InstanceInductive'
  BY DEF InstanceInductive, InstanceTypeOK, StartOwnsRun, StartsApart,
         MonitorLaunched, FutureUntouched, StopperQuiet, DoneMeansQuiet, Runs,
         quietVars, LoopsSafe

(* Start takes the lock, and with it a run nobody has used.                *)
LEMMA StartBeginKeeps ==
  ASSUME InstanceInductive, NEW c \in Callers, StartBegin(c)
  PROVE  InstanceInductive'
<1> USE DEF InstanceInductive
<1>1. /\ run' = run + 1 /\ run' \in Runs
      /\ UNCHANGED <<done, engine, launched, monitor, loops, stop, stopper,
                     cancelledRuns>>
      /\ call' = [call EXCEPT ![c] = [op |-> "start", pc |-> "bind", run |-> run']]
  BY InstanceAssumption DEF StartBegin, engineVars, InstanceTypeOK, Runs
<1>2. engine[run'] = "none" /\ run' \notin done
  BY <1>1 DEF FutureUntouched, InstanceTypeOK
<1>3. InstanceTypeOK'
  BY <1>1 DEF InstanceTypeOK, Runs, Calls
<1>4. \A d \in Callers : d # c => call'[d] = call[d]
  BY <1>1 DEF InstanceTypeOK
<1>5. call'[c].op = "start" /\ call'[c].run = run'
  BY <1>1 DEF InstanceTypeOK
<1>6. StartOwnsRun'
  BY <1>1, <1>2, <1>4, <1>5 DEF StartOwnsRun, InstanceTypeOK
<1>7. StartsApart'
  BY <1>1, <1>4, <1>5 DEF StartsApart, StartOwnsRun, InstanceTypeOK
<1>8. FutureUntouched'
  BY <1>1 DEF FutureUntouched, InstanceTypeOK, Runs
<1>9. MonitorLaunched' /\ StopperQuiet' /\ DoneMeansQuiet'
  BY <1>1 DEF MonitorLaunched, StopperQuiet, DoneMeansQuiet
<1> QED
  BY <1>3, <1>6, <1>7, <1>8, <1>9

(* A Start that cannot bind closes the channel of its own run only, which  *)
(* has neither a goroutine nor the loops.                                  *)
LEMMA StartBindFailsKeeps ==
  ASSUME InstanceInductive, NEW c \in Callers, StartBindFails(c)
  PROVE  InstanceInductive'
<1> USE DEF InstanceInductive
<1> DEFINE r == call[c].run
<1>1. /\ call[c].op = "start"
      /\ done' = done \cup {r}
      /\ UNCHANGED <<run, engine, launched, monitor, loops, stop, stopper>>
      /\ cancelledRuns \subseteq cancelledRuns'
      /\ call' = [call EXCEPT ![c] = NoCall]
  BY DEF StartBindFails, In, Returned, engineVars
<1>2. r \in 1..run /\ r \in Runs /\ engine[r] = "none" /\ monitor # r
  BY <1>1, InstanceAssumption
  DEF StartOwnsRun, MonitorLaunched, InstanceTypeOK, Runs
<1>3. /\ \A d \in Callers : d # c => call'[d] = call[d]
      /\ call'[c].op = "none"
  BY <1>1 DEF InstanceTypeOK, NoCall
<1>4. InstanceTypeOK'
  <2>1. NoCall \in Calls
    BY InstanceAssumption DEF NoCall, Calls
  <2> QED
    BY <1>1, <1>2, <2>1 DEF InstanceTypeOK, Calls
<1>5. StartOwnsRun'
  BY <1>1, <1>3 DEF StartOwnsRun, StartsApart
<1>6. StartsApart'
  BY <1>3 DEF StartsApart
<1>7. FutureUntouched'
  BY <1>1, <1>2 DEF FutureUntouched, InstanceTypeOK, Runs
<1>8. MonitorLaunched' /\ StopperQuiet' /\ DoneMeansQuiet'
  BY <1>1, <1>2 DEF MonitorLaunched, StopperQuiet, DoneMeansQuiet
<1> QED
  BY <1>4, <1>5, <1>6, <1>7, <1>8

(* The goroutine is launched for a run whose channel is open.              *)
LEMMA StartLaunchesKeeps ==
  ASSUME InstanceInductive, NEW c \in Callers, StartLaunches(c)
  PROVE  InstanceInductive'
<1> USE DEF InstanceInductive
<1> DEFINE r == call[c].run
<1>1. /\ call[c].op = "start"
      /\ engine' = [engine EXCEPT ![r] = "enter"]
      /\ UNCHANGED <<run, done, launched, monitor, loops, stop, stopper,
                     cancelledRuns>>
      /\ call' = [call EXCEPT ![c] = NoCall]
  BY DEF StartLaunches, In, Returned
<1>2. r \in 1..run /\ r \in Runs /\ r \notin done /\ engine[r] = "none"
  BY <1>1, InstanceAssumption DEF StartOwnsRun, InstanceTypeOK, Runs
<1>3. /\ \A d \in Callers : d # c => call'[d] = call[d]
      /\ call'[c].op = "none"
  BY <1>1 DEF InstanceTypeOK, NoCall
<1>e. /\ engine'[r] = "enter"
      /\ \A q \in Runs : q # r => engine'[q] = engine[q]
  BY <1>1, <1>2 DEF InstanceTypeOK
<1>4. InstanceTypeOK'
  <2>1. NoCall \in Calls
    BY InstanceAssumption DEF NoCall, Calls
  <2> QED
    BY <1>1, <1>2, <2>1 DEF InstanceTypeOK, Calls
<1>5. StartOwnsRun'
  BY <1>1, <1>3, <1>e DEF StartOwnsRun, StartsApart, InstanceTypeOK, Runs
<1>6. StartsApart'
  BY <1>3 DEF StartsApart
<1>7. FutureUntouched'
  BY <1>1, <1>2, <1>e DEF FutureUntouched, InstanceTypeOK, Runs
<1>8. MonitorLaunched' /\ DoneMeansQuiet'
  BY <1>1, <1>2, <1>e DEF MonitorLaunched, DoneMeansQuiet, InstanceTypeOK, Runs
<1>9. StopperQuiet'
  BY <1>1, <1>2, <1>e DEF StopperQuiet, InstanceTypeOK, Runs
<1> QED
  BY <1>4, <1>5, <1>6, <1>7, <1>8, <1>9

(* A step of an engine goroutine that is past its launch: the run is       *)
(* nobody's to start, so only its channel and the loops are at stake.      *)
LEMMA GoroutineStep ==
  ASSUME InstanceInductive, NEW r \in Runs, NEW place,
         engine[r] # "none",
         place \in {"wait", "save", "gone"},
         engine' = [engine EXCEPT ![r] = place],
         done' \in {done, done \cup {r}},
         launched' \in BOOLEAN,
         monitor' \in {monitor, r},
         loops' \in BOOLEAN,
         stop' \in {"unused", "running", "finished"},
         stopper' \in {stopper, r},
         UNCHANGED <<run, call>>
  PROVE  InstanceTypeOK' /\ StartOwnsRun' /\ StartsApart' /\ FutureUntouched'
<1> USE DEF InstanceInductive
<1>1. /\ engine'[r] = place
      /\ \A q \in Runs : q # r => engine'[q] = engine[q]
  BY DEF InstanceTypeOK
<1>2. InstanceTypeOK'
  BY DEF InstanceTypeOK, Runs
<1>3. r <= run
  BY DEF FutureUntouched, InstanceTypeOK, Runs
<1>4. StartOwnsRun'
  BY <1>1 DEF StartOwnsRun, InstanceTypeOK, Runs
<1>5. StartsApart'
  BY DEF StartsApart
<1>6. FutureUntouched'
  BY <1>1, <1>3 DEF FutureUntouched, InstanceTypeOK, Runs
<1> QED
  BY <1>2, <1>4, <1>5, <1>6

(* The engine's own steps keep the invariant.                              *)
LEMMA EngineStepKeeps ==
  ASSUME InstanceInductive, NEW r \in Runs, EngineStep(r)
  PROVE  InstanceInductive'
<1> USE DEF InstanceInductive
<1>1. CASE EngineEnters(r)
  <2>0. /\ engine[r] = "enter" /\ r \notin done /\ launched' = TRUE
        /\ UNCHANGED <<run, call, stop, stopper, cancelledRuns>>
        /\ stopper # r
    BY <1>1 DEF EngineEnters, DoneMeansQuiet, StopperQuiet, Runs
  <2>1. CASE /\ engine' = [engine EXCEPT ![r] = "wait"]
             /\ done' = done
             /\ \/ UNCHANGED <<monitor, loops>>
                \/ monitor' = r /\ loops' = (r \notin cancelledRuns)
    <3>1. loops' \in BOOLEAN /\ monitor' \in {monitor, r}
      BY <2>1 DEF InstanceTypeOK
    <3>2. InstanceTypeOK' /\ StartOwnsRun' /\ StartsApart' /\ FutureUntouched'
      BY <2>0, <2>1, <3>1, GoroutineStep DEF InstanceTypeOK
    <3>3. MonitorLaunched'
      BY <2>0, <2>1 DEF MonitorLaunched, InstanceTypeOK, Runs
    <3>4. StopperQuiet'
      BY <2>0, <2>1 DEF StopperQuiet, InstanceTypeOK, Runs
    <3>5. DoneMeansQuiet'
      BY <2>0, <2>1 DEF DoneMeansQuiet, InstanceTypeOK
    <3> QED
      BY <3>2, <3>3, <3>4, <3>5
  <2>2. CASE /\ ~launched
             /\ engine' = [engine EXCEPT ![r] = "gone"]
             /\ done' = done \cup {r}
             /\ UNCHANGED <<monitor, loops>>
    <3>2. InstanceTypeOK' /\ StartOwnsRun' /\ StartsApart' /\ FutureUntouched'
      BY <2>0, <2>2, GoroutineStep DEF InstanceTypeOK
    <3>3. monitor = 0 /\ r # 0
      BY <2>2 DEF MonitorLaunched, Runs
    <3>4. MonitorLaunched'
      BY <2>0, <2>2, <3>3 DEF MonitorLaunched
    <3>5. StopperQuiet'
      BY <2>0, <2>2 DEF StopperQuiet, InstanceTypeOK, Runs
    <3>6. DoneMeansQuiet'
      BY <2>0, <2>2, <3>3 DEF DoneMeansQuiet, InstanceTypeOK
    <3> QED
      BY <3>2, <3>4, <3>5, <3>6
  <2>3. \/ /\ engine' = [engine EXCEPT ![r] = "wait"]
           /\ done' = done
           /\ \/ UNCHANGED <<monitor, loops>>
              \/ monitor' = r /\ loops' = (r \notin cancelledRuns)
        \/ /\ ~launched
           /\ engine' = [engine EXCEPT ![r] = "gone"]
           /\ done' = done \cup {r}
           /\ UNCHANGED <<monitor, loops>>
    BY <1>1 DEF EngineEnters
  <2> QED
    BY <2>1, <2>2, <2>3
<1>2. CASE EngineStops(r)
  <2>0. /\ engine[r] = "wait" /\ r \notin done /\ stop = "unused"
        /\ engine' = [engine EXCEPT ![r] = "save"] /\ stop' = "running"
        /\ stopper' = r /\ loops' = FALSE /\ r \in cancelledRuns
        /\ UNCHANGED <<run, call, done, launched, monitor, cancelledRuns>>
    BY <1>2 DEF EngineStops, DoneMeansQuiet
  <2>1. InstanceTypeOK' /\ StartOwnsRun' /\ StartsApart' /\ FutureUntouched'
    BY <2>0, GoroutineStep DEF InstanceTypeOK
  <2>2. StopperQuiet'
    BY <2>0 DEF StopperQuiet, InstanceTypeOK
  <2>3. MonitorLaunched' /\ DoneMeansQuiet'
    BY <2>0 DEF MonitorLaunched, DoneMeansQuiet, InstanceTypeOK, Runs
  <2> QED
    BY <2>1, <2>2, <2>3
<1>3. CASE EngineStopped(r) \/ EngineSaves(r)
  <2>0. /\ engine[r] \in {"wait", "save"}
        /\ engine' = [engine EXCEPT ![r] = "gone"]
        /\ stop' = "finished" /\ done' = done \cup {r}
        /\ UNCHANGED <<run, call, launched, monitor, loops, stopper, cancelledRuns>>
    BY <1>3 DEF EngineStopped, EngineSaves
  <2>1. InstanceTypeOK' /\ StartOwnsRun' /\ StartsApart' /\ FutureUntouched'
    BY <2>0, GoroutineStep DEF InstanceTypeOK
  <2>2. StopperQuiet'
    BY <2>0 DEF StopperQuiet, InstanceTypeOK, Runs
  <2>3. MonitorLaunched' /\ DoneMeansQuiet'
    BY <2>0, <2>2 DEF MonitorLaunched, DoneMeansQuiet, StopperQuiet,
                      InstanceTypeOK, Runs
  <2> QED
    BY <2>1, <2>2, <2>3
<1>4. CASE LoopsEnd(r)
  BY <1>4, IdleStep DEF LoopsEnd, LoopsSafe, quietVars
<1> QED
  BY <1>1, <1>2, <1>3, <1>4 DEF EngineStep

(* Every step keeps the invariant.                                         *)
LEMMA InstanceStep ==
  ASSUME InstanceInductive, [InstanceNext]_instanceVars
  PROVE  InstanceInductive'
<1>n. NoCall \in Calls /\ NoCall.op = "none"
  BY InstanceAssumption DEF NoCall, Calls
<1>1. ASSUME NEW c \in Callers, StartBinds(c) \/ StartRewrites(c)
      PROVE  InstanceInductive'
  <2>1. PICK to \in {"launch", "rewrite"} : call' = [call EXCEPT ![c].pc = to]
    BY <1>1 DEF StartBinds, StartRewrites, CallAt
  <2>2. call[c] \in Calls
    BY DEF InstanceInductive, InstanceTypeOK
  <2>3. /\ [call[c] EXCEPT !.pc = to] \in Calls
        /\ [call[c] EXCEPT !.pc = to].op = call[c].op
        /\ [call[c] EXCEPT !.pc = to].run = call[c].run
    BY <2>2 DEF Calls
  <2>4. UNCHANGED quietVars /\ LoopsSafe
    <3>1. CASE StartBinds(c)
      BY <3>1 DEF StartBinds, engineVars, quietVars, LoopsSafe,
                  InstanceInductive, InstanceTypeOK
    <3>2. CASE StartRewrites(c)
      BY <3>2 DEF StartRewrites, Relaunch, quietVars, LoopsSafe
    <3> QED
      BY <1>1, <3>1, <3>2
  <2>5. call' = [call EXCEPT ![c] = [call[c] EXCEPT !.pc = to]]
    BY <2>1
  <2> QED
    BY <2>3, <2>4, <2>5, QuietStep
<1>2. ASSUME NEW c \in Callers, ShutdownCancels(c) \/ ShutdownJoins(c)
      PROVE  InstanceInductive'
  <2>1. PICK to \in {"join", "nil"} : call' = [call EXCEPT ![c].pc = to]
    BY <1>2 DEF ShutdownCancels, ShutdownJoins, CallAt
  <2>2. call[c] \in Calls
    BY DEF InstanceInductive, InstanceTypeOK
  <2>3. /\ [call[c] EXCEPT !.pc = to] \in Calls
        /\ [call[c] EXCEPT !.pc = to].op = call[c].op
        /\ [call[c] EXCEPT !.pc = to].run = call[c].run
    BY <2>2 DEF Calls
  <2>4. UNCHANGED quietVars /\ LoopsSafe
    BY <1>2 DEF ShutdownCancels, ShutdownJoins, engineVars, quietVars,
                LoopsSafe, InstanceInductive, InstanceTypeOK
  <2>5. call' = [call EXCEPT ![c] = [call[c] EXCEPT !.pc = to]]
    BY <2>1
  <2> QED
    BY <2>3, <2>4, <2>5, QuietStep
<1>3. ASSUME NEW c \in Callers, ShutdownNothing(c) \/ ShutdownBegin(c)
      PROVE  InstanceInductive'
  <2>1. PICK to \in {"nil", "cancel"} :
          call' = [call EXCEPT ![c] = [op |-> "shutdown", pc |-> to, run |-> run]]
    BY <1>3 DEF ShutdownNothing, ShutdownBegin
  <2>2. [op |-> "shutdown", pc |-> to, run |-> run] \in Calls
    BY DEF InstanceInductive, InstanceTypeOK, Calls
  <2>3. UNCHANGED quietVars /\ LoopsSafe
    BY <1>3 DEF ShutdownNothing, ShutdownBegin, engineVars, quietVars,
                LoopsSafe, InstanceInductive, InstanceTypeOK
  <2> QED
    BY <2>1, <2>2, <2>3, QuietStep
<1>4. ASSUME NEW c \in Callers, ShutdownTimesOut(c) \/ ShutdownReturned(c)
      PROVE  InstanceInductive'
  <2>1. call' = [call EXCEPT ![c] = NoCall] /\ UNCHANGED quietVars /\ LoopsSafe
    BY <1>4 DEF ShutdownTimesOut, ShutdownReturned, Returned, engineVars,
                quietVars, LoopsSafe, InstanceInductive, InstanceTypeOK
  <2> QED
    BY <1>n, <2>1, QuietStep
<1>5. ASSUME NEW c \in Callers, InstanceReload(c)
      PROVE  InstanceInductive'
  BY <1>5, IdleStep DEF InstanceReload, Relaunch, quietVars, LoopsSafe
<1>6. ASSUME NEW r \in Runs, HostCancels(r)
      PROVE  InstanceInductive'
  BY <1>6, IdleStep DEF HostCancels, engineVars, quietVars, LoopsSafe,
                        InstanceInductive, InstanceTypeOK
<1>7. CASE UNCHANGED instanceVars
  BY <1>7, IdleStep DEF instanceVars, quietVars, LoopsSafe,
                        InstanceInductive, InstanceTypeOK
<1> QED
  BY <1>1, <1>2, <1>3, <1>4, <1>5, <1>6, <1>7, StartBeginKeeps,
     StartBindFailsKeeps, StartLaunchesKeeps, EngineStepKeeps
  DEF InstanceNext, InstanceStartStep, ShutdownStep

(* The channel Shutdown waits for is closed only when the goroutine of its *)
(* run has ended or was never launched; if the loops run on that run's     *)
(* context the final save is over, and no loop is left to write when the   *)
(* run itself stopped them: for every number of callers and starts,        *)
(* overlapping or failing ones included, and with reloads at any moment.   *)
THEOREM ClosedMeansQuiet == InstanceSpec => []DoneMeansQuiet
<1>1. InstanceInductive => DoneMeansQuiet
  BY DEF InstanceInductive
<1>2. InstanceInductive /\ [InstanceNext]_instanceVars => InstanceInductive'
  BY InstanceStep
<1> QED
  BY InstanceInitially, <1>1, <1>2, PTL DEF InstanceSpec

-----------------------------------------------------------------------------
(* The update controller (module Lifecycle).                               *)

(* Where Execute is, or its rollback.                                      *)
UpdateSteps == {"idle", "stop", "deploy", "start", "verify", "commit", "commit2",
                "rbStop", "rbHook", "rbStart", "done", "dead"}
(* The error codes of an UpdateResult, and success.                        *)
UpdateResults == {"none", "LOCK_CONTENTION", "STOP_TIMEOUT", "DEPLOY_FAILED", "START_FAILED",
                  "VERIFY_FAILED", "COMMIT_FAILED", "committed"}
(* The shape of one update.                                                *)
Updates == [step : UpdateSteps, old : {"none", "old", "new"}, failed : BOOLEAN,
            result : UpdateResults, rolledBack : BOOLEAN]
(* The shape of the installation and of the updates.                       *)
UpdateTypeOK ==
    /\ installed \in {"old", "new"} /\ marked \in {"none", "old", "new"}
    /\ up \in [Controllers -> Updates]

(* What holds of a controller: while it executes, the lock is its own      *)
(* and the marker it read still stands; from its deploy to its commit      *)
(* the new payload is in place, and once started it runs; a rollback       *)
(* whose hook did not fail has put the old payload back; and an outcome    *)
(* is only told at the end.                                                *)
UpdateHolds(c) ==
    /\ Executing(c) => lock = c /\ up[c].old = marked
    /\ up[c].step \in {"start", "verify", "commit", "commit2"} => installed = "new"
    /\ up[c].step \in {"verify", "commit", "commit2"} => runtime = "new"
    /\ up[c].step = "commit2" /\ up[c].old # "none" => previous = up[c].old
    /\ up[c].step = "rbStart" /\ HasHook /\ ~up[c].failed => installed = "old"
    /\ up[c].step # "done" => ~up[c].rolledBack /\ up[c].result # "committed"

(* The inductive invariant of the updates.                                 *)
UpdateInv == UpdateTypeOK /\ \A c \in Controllers : UpdateHolds(c)

(* The invariant holds before any update.                                  *)
LEMMA UpdateStart == LifecycleInit => UpdateInv
<1> SUFFICES ASSUME LifecycleInit PROVE UpdateInv OBVIOUS
<1>1. Idle \in Updates BY DEF Idle, Updates, UpdateSteps, UpdateResults
<1>2. UpdateTypeOK BY <1>1 DEF LifecycleInit, UpdateTypeOK
<1>3. \A c \in Controllers : UpdateHolds(c) BY DEF LifecycleInit, UpdateHolds, Executing, Idle
<1> QED BY <1>2, <1>3 DEF UpdateInv

(* A step of a controller leaves the others, who do not execute, as they   *)
(* were.                                                                   *)
LEMMA UpdateOthers ==
    ASSUME UpdateInv, NEW c \in Controllers, NEW d \in Controllers, d # c,
           ~Executing(d), up'[d] = up[d]
    PROVE  UpdateHolds(d)'
<1>1. UpdateHolds(d) BY DEF UpdateInv
<1> QED BY <1>1 DEF UpdateHolds, Executing

(* A step of one controller keeps the invariant if it keeps what holds     *)
(* of it, and nobody else executes or the installation is left alone.      *)
LEMMA UpdateMoved ==
    ASSUME UpdateInv, NEW c \in Controllers, NEW u \in Updates, up' = [up EXCEPT ![c] = u],
           installed' \in {"old", "new"}, marked' \in {"none", "old", "new"},
           \A d \in Controllers : d # c => ~Executing(d) \/ UNCHANGED placeVars,
           UpdateHolds(c)'
    PROVE  UpdateInv'
<1>1. UpdateTypeOK' BY DEF UpdateInv, UpdateTypeOK
<1>2. ASSUME NEW d \in Controllers PROVE UpdateHolds(d)'
    <2>1. CASE d = c BY <2>1
    <2>2. CASE d # c
        <3>1. up'[d] = up[d] BY <2>2 DEF UpdateInv, UpdateTypeOK
        <3>2. CASE ~Executing(d) BY <2>2, <3>1, <3>2, UpdateOthers
        <3>3. CASE UNCHANGED placeVars
            <4>1. UpdateHolds(d) BY DEF UpdateInv
            <4> QED BY <3>1, <3>3, <4>1 DEF UpdateHolds, Executing, placeVars
        <3> QED BY <2>2, <3>2, <3>3
    <2> QED BY <2>1, <2>2
<1> QED BY <1>1, <1>2 DEF UpdateInv

(* Every step of Execute and of its rollback (update.go) keeps the         *)
(* invariant, whoever else tries to take the lock or is killed. The lock   *)
(* of a killed controller stays, so nobody executes after it.              *)
LEMMA UpdateStep == UpdateInv /\ [LifecycleNext]_lifecycleVars => UpdateInv'
<1> SUFFICES ASSUME UpdateInv, [LifecycleNext]_lifecycleVars PROVE UpdateInv' OBVIOUS
<1>1. CASE UNCHANGED lifecycleVars
    BY <1>1 DEF UpdateInv, UpdateTypeOK, UpdateHolds, Executing, lifecycleVars
<1>2. SUFFICES ASSUME NEW c \in Controllers,
          \/ AcquireUpdateLock(c) \/ LockContention(c) \/ StopRuntime(c) \/ Deploy(c)
          \/ StartRuntime(c) \/ Verify(c) \/ CommitPrevious(c) \/ CommitCurrent(c)
          \/ RollbackStop(c) \/ RollbackHook(c) \/ RollbackStart(c) \/ ControllerCrash(c)
      PROVE UpdateInv'
    BY <1>1 DEF LifecycleNext
<1> DEFINE u == up[c]
<1>3. /\ u \in Updates /\ UpdateHolds(c) /\ installed \in {"old", "new"} /\ marked \in {"none", "old", "new"}
      /\ u.step \in UpdateSteps /\ u.failed \in BOOLEAN /\ u.result \in UpdateResults
      /\ u.rolledBack \in BOOLEAN /\ u.old \in {"none", "old", "new"}
      /\ u = [step |-> u.step, old |-> u.old, failed |-> u.failed, result |-> u.result,
              rolledBack |-> u.rolledBack]
      /\ up \in [Controllers -> Updates]
    BY DEF UpdateInv, UpdateTypeOK, Updates
<1>4. \A d \in Controllers : lock # d => ~Executing(d) BY DEF UpdateInv, UpdateHolds
<1>5. (lock = "none" \/ lock = c) => \A d \in Controllers : d # c => ~Executing(d)
    BY <1>4, LifecycleAssumption
<1>6. Executing(c) => lock = c /\ u.old = marked BY <1>3 DEF UpdateHolds
<1> HIDE DEF u
<1>7. ASSUME NEW v \in Updates, up' = [up EXCEPT ![c] = v],
             installed' \in {"old", "new"}, marked' \in {"none", "old", "new"},
             (lock = "none" \/ lock = c) \/ UNCHANGED placeVars,
             UpdateHolds(c)'
      PROVE  UpdateInv'
    BY <1>5, <1>7, UpdateMoved
<1>8. ASSUME NEW t \in UpdateSteps, up' = [up EXCEPT ![c].step = t]
      PROVE  \E v \in Updates : /\ up' = [up EXCEPT ![c] = v] /\ up'[c] = v
                                /\ v.step = t /\ v.old = u.old /\ v.failed = u.failed
                                /\ v.result = u.result /\ v.rolledBack = u.rolledBack
    <2> DEFINE v == [u EXCEPT !.step = t]
    <2>1. v \in Updates BY <1>3, <1>8 DEF Updates
    <2>2. up' = [up EXCEPT ![c] = v] /\ up'[c] = v BY <1>3, <1>8 DEF u
    <2>3. /\ v.step = t /\ v.old = u.old /\ v.failed = u.failed
          /\ v.result = u.result /\ v.rolledBack = u.rolledBack
        BY <1>3
    <2> HIDE DEF v
    <2> QED BY <2>1, <2>2, <2>3
<1>9. ASSUME NEW t \in UpdateSteps, NEW r \in UpdateResults,
             up' = [up EXCEPT ![c] = [u EXCEPT !.step = t, !.result = r]]
      PROVE  \E v \in Updates : /\ up' = [up EXCEPT ![c] = v] /\ up'[c] = v
                                /\ v.step = t /\ v.old = u.old /\ v.failed = u.failed
                                /\ v.result = r /\ v.rolledBack = u.rolledBack
    <2> DEFINE v == [u EXCEPT !.step = t, !.result = r]
    <2>1. v \in Updates BY <1>3, <1>9 DEF Updates
    <2>2. up' = [up EXCEPT ![c] = v] /\ up'[c] = v BY <1>3, <1>9 DEF u
    <2>3. /\ v.step = t /\ v.old = u.old /\ v.failed = u.failed
          /\ v.result = r /\ v.rolledBack = u.rolledBack
        BY <1>3
    <2> HIDE DEF v
    <2> QED BY <2>1, <2>2, <2>3
<1>10. CASE AcquireUpdateLock(c)
    <2> DEFINE v == [u EXCEPT !.step = "stop", !.old = marked]
    <2>1. up' = [up EXCEPT ![c] = v] BY <1>3, <1>10 DEF AcquireUpdateLock, u
    <2>2. v \in Updates BY <1>3 DEF Updates, UpdateSteps
    <2>3. /\ up'[c] = v /\ v.step = "stop" /\ v.old = marked
          /\ v.rolledBack = u.rolledBack /\ v.result = u.result
        BY <1>3, <2>1
    <2> HIDE DEF v
    <2>4. UpdateHolds(c)' BY <1>3, <1>10, <2>3 DEF UpdateHolds, Executing, AcquireUpdateLock, At, u
    <2> QED BY <1>3, <1>7, <1>10, <2>1, <2>2, <2>4 DEF AcquireUpdateLock
<1>11. CASE LockContention(c)
    <2>1. PICK v \in Updates : /\ up' = [up EXCEPT ![c] = v] /\ up'[c] = v /\ v.step = "done"
        <3>1. up' = [up EXCEPT ![c] = [u EXCEPT !.step = "done", !.result = "LOCK_CONTENTION"]]
            BY <1>3, <1>11 DEF LockContention, u
        <3>2. "done" \in UpdateSteps /\ "LOCK_CONTENTION" \in UpdateResults
            BY DEF UpdateSteps, UpdateResults
        <3> QED BY <1>9, <3>1, <3>2, Zenon
    <2>2. UpdateHolds(c)' BY <2>1 DEF UpdateHolds, Executing
    <2>3. UNCHANGED placeVars /\ UNCHANGED <<installed, marked>> BY <1>11 DEF LockContention, placeVars
    <2> QED BY <1>3, <1>7, <2>1, <2>2, <2>3
<1>12. ASSUME NEW r \in UpdateResults, Finish(c, r), lock = c,
              installed' \in {"old", "new"}, marked' \in {"none", "old", "new"}
       PROVE  UpdateInv'
    <2>1. PICK v \in Updates : /\ up' = [up EXCEPT ![c] = v] /\ up'[c] = v /\ v.step = "done"
        <3>1. up' = [up EXCEPT ![c] = [u EXCEPT !.step = "done", !.result = r]]
            BY <1>3, <1>12 DEF Finish, u
        <3>2. "done" \in UpdateSteps BY DEF UpdateSteps
        <3> QED BY <1>9, <3>1, <3>2, Zenon
    <2>2. UpdateHolds(c)' BY <2>1 DEF UpdateHolds, Executing
    <2> QED BY <1>7, <1>12, <2>1, <2>2
<1>13. ASSUME NEW t \in UpdateSteps, Goto(c, t), Executing(c), UNCHANGED <<lock, marked>>,
              t # "done", installed' \in {"old", "new"},
              t \in {"start", "verify", "commit", "commit2"} => installed' = "new",
              t \in {"verify", "commit", "commit2"} => runtime' = "new",
              t = "commit2" /\ u.old # "none" => previous' = u.old,
              t = "rbStart" /\ HasHook /\ ~u.failed => installed' = "old"
       PROVE  UpdateInv'
    <2>1. PICK v \in Updates : /\ up' = [up EXCEPT ![c] = v] /\ up'[c] = v
                               /\ v.step = t /\ v.old = u.old /\ v.failed = u.failed
                               /\ v.result = u.result /\ v.rolledBack = u.rolledBack
        BY <1>8, <1>13 DEF Goto
    <2>2. u.step # "done" BY <1>13 DEF Executing, u
    <2>3. UpdateHolds(c)' BY <1>3, <1>6, <1>13, <2>1, <2>2 DEF UpdateHolds, Executing, u
    <2> QED BY <1>3, <1>6, <1>7, <1>13, <2>1, <2>3
<1>14. ASSUME NEW r \in UpdateResults, r # "committed", Executing(c), UNCHANGED <<lock, marked, installed>>,
              up' = [up EXCEPT ![c].step = "rbStop", ![c].result = r]
       PROVE  UpdateInv'
    <2>1. PICK v \in Updates : /\ up' = [up EXCEPT ![c] = v] /\ up'[c] = v
                               /\ v.step = "rbStop" /\ v.old = u.old /\ v.failed = u.failed
                               /\ v.result = r /\ v.rolledBack = u.rolledBack
        <3>1. up' = [up EXCEPT ![c] = [u EXCEPT !.step = "rbStop", !.result = r]]
            BY <1>3, <1>14 DEF u
        <3>2. "rbStop" \in UpdateSteps BY DEF UpdateSteps
        <3> QED BY <1>9, <3>1, <3>2, ZenonT(30)
    <2>2. u.step # "done" BY <1>14 DEF Executing, u
    <2>3. UpdateHolds(c)' BY <1>3, <1>6, <1>14, <2>1, <2>2 DEF UpdateHolds, Executing, u
    <2> QED BY <1>3, <1>6, <1>7, <1>14, <2>1, <2>3
<1>15. CASE StopRuntime(c)
    <2>1. Executing(c) BY <1>15 DEF StopRuntime, At, Executing
    <2> QED BY <1>3, <1>6, <1>12, <1>13, <1>15, <2>1 DEF StopRuntime, UpdateSteps, UpdateResults
<1>16. CASE Deploy(c)
    <2>1. Executing(c) BY <1>16 DEF Deploy, At, Executing
    <2> QED BY <1>3, <1>6, <1>12, <1>13, <1>16, <2>1 DEF Deploy, UpdateSteps, UpdateResults
<1>17. CASE StartRuntime(c)
    <2>1. Executing(c) /\ installed = "new"
        BY <1>3, <1>17 DEF StartRuntime, At, Executing, UpdateHolds, u
    <2> QED BY <1>3, <1>13, <1>14, <1>17, <2>1 DEF StartRuntime, UpdateSteps, UpdateResults
<1>18. CASE Verify(c)
    <2>1. Executing(c) /\ installed = "new" /\ runtime = "new"
        BY <1>3, <1>18 DEF Verify, At, Executing, UpdateHolds, u
    <2> QED BY <1>3, <1>13, <1>14, <1>18, <2>1 DEF Verify, placeVars, UpdateSteps, UpdateResults
<1>19. CASE CommitPrevious(c)
    <2>1. Executing(c) /\ installed = "new" /\ runtime = "new"
        BY <1>3, <1>19 DEF CommitPrevious, At, Executing, UpdateHolds, u
    <2> QED BY <1>3, <1>6, <1>12, <1>13, <1>19, <2>1 DEF CommitPrevious, UpdateSteps, UpdateResults, u
<1>20. CASE CommitCurrent(c)
    <2>1. Executing(c) BY <1>20 DEF CommitCurrent, At, Executing
    <2> QED BY <1>3, <1>6, <1>12, <1>20, <2>1 DEF CommitCurrent, UpdateResults
<1>21. ASSUME NEW t \in {"rbHook", "rbStart"}, NEW f \in BOOLEAN, Executing(c),
              up' = [up EXCEPT ![c].step = t, ![c].failed = f],
              t = "rbStart" /\ HasHook => f, UNCHANGED <<lock, marked, installed>>
       PROVE  UpdateInv'
    <2> DEFINE v == [u EXCEPT !.step = t, !.failed = f]
    <2>1. v \in Updates BY <1>3, <1>21 DEF Updates, UpdateSteps
    <2>2. up' = [up EXCEPT ![c] = v] /\ up'[c] = v BY <1>3, <1>21 DEF u
    <2>3. /\ v.step = t /\ v.old = u.old /\ v.failed = f
          /\ v.result = u.result /\ v.rolledBack = u.rolledBack
        BY <1>3
    <2> HIDE DEF v
    <2>4. u.step # "done" BY <1>21 DEF Executing, u
    <2>5. UpdateHolds(c)' BY <1>3, <1>6, <1>21, <2>2, <2>3, <2>4 DEF UpdateHolds, Executing, u
    <2> QED BY <1>3, <1>6, <1>7, <1>21, <2>1, <2>2, <2>5
<1>22. CASE RollbackStop(c)
    <2>1. Executing(c) BY <1>22 DEF RollbackStop, At, Executing
    <2>2. CASE Goto(c, "rbHook")
        BY <1>3, <1>13, <1>22, <2>1, <2>2 DEF RollbackStop, UpdateSteps
    <2>3. CASE up' = [up EXCEPT ![c].step = "rbHook", ![c].failed = TRUE]
        BY <1>21, <1>22, <2>1, <2>3 DEF RollbackStop
    <2> QED BY <1>22, <2>2, <2>3 DEF RollbackStop
<1>23. CASE RollbackHook(c)
    <2>1. Executing(c) BY <1>23 DEF RollbackHook, At, Executing
    <2>2. CASE installed' = "old" /\ Goto(c, "rbStart")
        BY <1>3, <1>13, <1>23, <2>1, <2>2 DEF RollbackHook, UpdateSteps
    <2>3. CASE UNCHANGED installed /\ up' = [up EXCEPT ![c].step = "rbStart", ![c].failed = @ \/ HasHook]
        <3>1. up' = [up EXCEPT ![c].step = "rbStart", ![c].failed = u.failed \/ HasHook]
            BY <1>3, <2>3 DEF u
        <3>2. (u.failed \/ HasHook) \in BOOLEAN BY <1>3, LifecycleAssumption
        <3> QED BY <1>21, <1>23, <2>1, <2>3, <3>1, <3>2 DEF RollbackHook
    <2> QED BY <1>23, <2>2, <2>3 DEF RollbackHook
<1>24. CASE RollbackStart(c)
    <2>1. Executing(c) BY <1>24 DEF RollbackStart, At, Executing
    <2>2. PICK b \in BOOLEAN : up' = [up EXCEPT ![c].step = "done", ![c].rolledBack = b]
        <3>1. PICK ok \in BOOLEAN :
                up' = [up EXCEPT ![c].step = "done", ![c].rolledBack = ok /\ ~up[c].failed]
            BY <1>24 DEF RollbackStart
        <3>2. (ok /\ ~up[c].failed) \in BOOLEAN OBVIOUS
        <3> QED BY <3>1, <3>2
    <2> DEFINE v == [u EXCEPT !.step = "done", !.rolledBack = b]
    <2>3. v \in Updates /\ v.step = "done" BY <1>3 DEF Updates, UpdateSteps
    <2>4. up' = [up EXCEPT ![c] = v] /\ up'[c] = v BY <1>3, <2>2 DEF u
    <2> HIDE DEF v
    <2>5. UpdateHolds(c)' BY <2>3, <2>4 DEF UpdateHolds, Executing
    <2> QED BY <1>3, <1>6, <1>7, <1>24, <2>1, <2>3, <2>4, <2>5 DEF RollbackStart
<1>25. CASE ControllerCrash(c)
    <2>1. Executing(c) BY <1>25 DEF ControllerCrash, Executing
    <2>2. PICK v \in Updates : /\ up' = [up EXCEPT ![c] = v] /\ up'[c] = v
                               /\ v.step = "dead" /\ v.result = u.result /\ v.rolledBack = u.rolledBack
        BY <1>8, <1>25 DEF ControllerCrash, Goto, UpdateSteps
    <2>3. u.step # "done" BY <2>1 DEF Executing, u
    <2>4. UpdateHolds(c)' BY <1>3, <2>2, <2>3 DEF UpdateHolds, Executing, u
    <2> QED BY <1>3, <1>7, <1>25, <2>2, <2>4 DEF ControllerCrash, placeVars
<1> QED BY <1>2, <1>10, <1>11, <1>15, <1>16, <1>17, <1>18, <1>19, <1>20, <1>22, <1>23, <1>24, <1>25

(* The two steps that tell an outcome tell what is: the second marker is   *)
(* written (Execute, update.go 252-266) while the new payload runs, and    *)
(* a rollback reports success only after a start that succeeded.           *)
LEMMA UpdateStepHonest ==
    ASSUME UpdateInv, [LifecycleNext]_lifecycleVars, NEW c \in Controllers
    PROVE  /\ up[c].result # "committed" /\ up'[c].result = "committed" =>
                /\ runtime' = "new" /\ marked' = "new"
                /\ up[c].old # "none" => previous' = up[c].old
           /\ ~up[c].rolledBack /\ up'[c].rolledBack =>
                /\ runtime' # "down" /\ runtime' = installed'
                /\ HasHook => runtime' = "old"
                /\ marked' = up[c].old
<1> DEFINE u == up[c]
<1>1. /\ u \in Updates /\ UpdateHolds(c) /\ installed \in {"old", "new"}
      /\ u.failed \in BOOLEAN /\ u.rolledBack \in BOOLEAN /\ up \in [Controllers -> Updates]
    BY DEF UpdateInv, UpdateTypeOK, Updates
<1>2. CASE UNCHANGED lifecycleVars BY <1>2 DEF lifecycleVars
<1>3. SUFFICES ASSUME NEW d \in Controllers,
          \/ AcquireUpdateLock(d) \/ LockContention(d) \/ StopRuntime(d) \/ Deploy(d)
          \/ StartRuntime(d) \/ Verify(d) \/ CommitPrevious(d) \/ CommitCurrent(d)
          \/ RollbackStop(d) \/ RollbackHook(d) \/ RollbackStart(d) \/ ControllerCrash(d)
      PROVE /\ up[c].result # "committed" /\ up'[c].result = "committed" =>
                 /\ runtime' = "new" /\ marked' = "new"
                 /\ up[c].old # "none" => previous' = up[c].old
            /\ ~up[c].rolledBack /\ up'[c].rolledBack =>
                 /\ runtime' # "down" /\ runtime' = installed'
                 /\ HasHook => runtime' = "old"
                 /\ marked' = up[c].old
    BY <1>2 DEF LifecycleNext
<1>4. CASE CommitCurrent(d) /\ up'[c] # up[c]
    <2>1. d = c BY <1>1, <1>4 DEF CommitCurrent, Finish
    <2>2. up'[c].rolledBack = up[c].rolledBack BY <1>1, <1>4, <2>1 DEF CommitCurrent, Finish, Updates
    <2>3. /\ At(c, "commit2") /\ installed = "new" /\ runtime = "new"
          /\ up[c].old # "none" => previous = up[c].old
        BY <1>1, <1>4, <2>1 DEF CommitCurrent, At, UpdateHolds
    <2>4. CASE Finish(c, "COMMIT_FAILED")
        <3>1. up'[c].result = "COMMIT_FAILED" BY <1>1, <2>4 DEF Finish, Updates
        <3> QED BY <2>2, <3>1
    <2>5. CASE marked' = installed /\ Finish(c, "committed")
        <3>1. UNCHANGED <<runtime, installed, previous>> BY <1>4, <2>1 DEF CommitCurrent
        <3>2. runtime' = "new" /\ marked' = "new" BY <2>3, <2>5, <3>1
        <3>3. up[c].old # "none" => previous' = up[c].old BY <2>3, <3>1
        <3> QED BY <2>2, <3>2, <3>3
    <2> QED BY <1>4, <2>1, <2>4, <2>5 DEF CommitCurrent
<1>5. CASE RollbackStart(d) /\ up'[c] # up[c]
    <2>1. d = c BY <1>1, <1>5 DEF RollbackStart
    <2>2. PICK ok \in BOOLEAN :
              /\ runtime' = IF ok THEN installed ELSE runtime
              /\ up' = [up EXCEPT ![c].step = "done", ![c].rolledBack = ok /\ ~up[c].failed]
        BY <1>5, <2>1 DEF RollbackStart
    <2>3. up'[c].result = up[c].result BY <1>1, <2>2 DEF Updates
    <2>4. up'[c].rolledBack => ok /\ ~up[c].failed BY <1>1, <2>2 DEF Updates
    <2>5. /\ up[c].old = marked /\ (HasHook /\ ~up[c].failed => installed = "old")
          /\ UNCHANGED <<installed, marked>>
        BY <1>1, <1>5, <2>1 DEF RollbackStart, At, UpdateHolds, Executing
    <2> QED BY <1>1, <2>2, <2>3, <2>4, <2>5
<1>6. CASE up'[c] # up[c] /\ ~CommitCurrent(d) /\ ~RollbackStart(d)
    <2>1. d = c
        BY <1>1, <1>3, <1>6 DEF AcquireUpdateLock, LockContention, StopRuntime, Deploy, StartRuntime,
           Verify, CommitPrevious, RollbackStop, RollbackHook, ControllerCrash, Finish, Goto
    <2>2. up'[c].rolledBack = up[c].rolledBack
        BY <1>1, <1>3, <1>6, <2>1 DEF AcquireUpdateLock, LockContention, StopRuntime, Deploy,
           StartRuntime, Verify, CommitPrevious, RollbackStop, RollbackHook, ControllerCrash, Finish,
           Goto, Updates
    <2>3. up[c].result # "committed" => up'[c].result # "committed"
        BY <1>1, <1>3, <1>6, <2>1 DEF AcquireUpdateLock, LockContention, StopRuntime, Deploy,
           StartRuntime, Verify, CommitPrevious, RollbackStop, RollbackHook, ControllerCrash, Finish,
           Goto, Updates
    <2> QED BY <2>2, <2>3
<1>7. CASE up'[c] = up[c] BY <1>7
<1> QED BY <1>4, <1>5, <1>6, <1>7

(* For any number of controllers, with a rollback hook or without: what    *)
(* an update reports as committed runs under markers that name it and      *)
(* the version it replaced, and a rollback that reports success left the   *)
(* service running, on the old payload if there was a hook, under the      *)
(* old marker (property UpdateHonest; Execute and rollback of              *)
(* update.go).                                                             *)
THEOREM UpdateAlwaysHonest == LifecycleSpec => UpdateHonest
<1>1. UpdateInv /\ [LifecycleNext]_lifecycleVars =>
          [\A c \in Controllers :
              /\ up[c].result # "committed" /\ up'[c].result = "committed" =>
                    /\ runtime' = "new" /\ marked' = "new"
                    /\ up[c].old # "none" => previous' = up[c].old
              /\ ~up[c].rolledBack /\ up'[c].rolledBack =>
                    /\ runtime' # "down" /\ runtime' = installed'
                    /\ HasHook => runtime' = "old"
                    /\ marked' = up[c].old]_lifecycleVars
    BY UpdateStepHonest
<1> QED BY <1>1, UpdateStart, UpdateStep, PTL DEF LifecycleSpec, UpdateHonest

-----------------------------------------------------------------------------
(* The operations runtime: no death goes unnoticed (module OpsRuntime).    *)

RunPhases == {"new", "pid", "stale?", "remove", "reopen", "locked", "booting",
              "running", "waiting", "ended", "killed"}

(* What the processes hold.                                                *)
RuntimeTypeOK ==
    /\ runPhase \in [Runtimes -> RunPhases]
    /\ parts \in [Runtimes -> SUBSET Parts]
    /\ ctx \in [Runtimes -> {"live", "done"}]
    /\ errCh \in [Runtimes -> BOOLEAN]
    /\ mdns \in [Runtimes -> BOOLEAN]

(* A goroutine runs only after the boot and before Run returns, and only   *)
(* the boot advertises: why a process that ends has nothing left.          *)
PartsInPhase ==
    \A r \in Runtimes :
        /\ parts[r] # {} => runPhase[r] \in {"running", "waiting"}
        /\ mdns[r] => runPhase[r] = "booting"

(* The induction hypothesis.                                               *)
RuntimeInv == RuntimeTypeOK /\ PartsInPhase /\ DeathsKnown

LEMMA RuntimeStart == RuntimeInit => RuntimeInv
    BY DEF RuntimeInit, RuntimeInv, RuntimeTypeOK, RunPhases, PartsInPhase, DeathsKnown, Gone

(* The lock protocol touches no goroutine and no context.                  *)
LEMMA LockStep ==
    ASSUME RuntimeInv, NEW r \in Runtimes,
           OpenLock(r) \/ WriteLockPid(r) \/ StaleLock(r) \/ RemoveStale(r)
    PROVE  RuntimeInv'
<1>1. PICK p \in RunPhases \ {"booting", "running", "waiting"} : Moves(r, p)
  <2>1. CASE OpenLock(r)
      BY <2>1 DEF OpenLock, RunPhases
  <2>2. CASE WriteLockPid(r)
      BY <2>2 DEF WriteLockPid, RunPhases
  <2>3. CASE StaleLock(r)
      BY <2>3 DEF StaleLock, RunPhases
  <2>4. CASE RemoveStale(r)
      BY <2>4 DEF RemoveStale, RunPhases
  <2> QED
      BY <2>1, <2>2, <2>3, <2>4
<1>2. UNCHANGED bodyVars /\ runPhase[r] \in {"new", "pid", "stale?", "remove", "reopen"}
    BY DEF OpenLock, WriteLockPid, StaleLock, RemoveStale
<1>3. parts[r] = {} /\ ~mdns[r]
    BY <1>2 DEF RuntimeInv, PartsInPhase
<1> QED
    BY <1>1, <1>2, <1>3 DEF RuntimeInv, RuntimeTypeOK, PartsInPhase, DeathsKnown, Gone,
       Moves, bodyVars

LEMMA RuntimeStep == RuntimeInv /\ [RuntimeNext]_runtimeVars => RuntimeInv'
<1> SUFFICES ASSUME RuntimeInv, [RuntimeNext]_runtimeVars PROVE RuntimeInv'
    OBVIOUS
<1> USE DEF RuntimeInv, RuntimeTypeOK, PartsInPhase, DeathsKnown, Gone
<1>1. ASSUME NEW r \in Runtimes, Proceed(r) PROVE RuntimeInv'
  <2>1. CASE OpenLock(r) \/ WriteLockPid(r) \/ StaleLock(r) \/ RemoveStale(r)
      BY <2>1, LockStep DEF RuntimeInv
  <2>2. CASE Bootstrap(r)
      BY <2>2 DEF Bootstrap, Moves, RunPhases
  <2>3. CASE Run(r)
      BY <2>3 DEF Run, Moves, RunPhases, Parts
  <2>4. CASE Await(r)
      BY <2>4 DEF Await, Moves, RunPhases, bodyVars
  <2>5. CASE Return(r)
      BY <2>5 DEF Return, Moves, RunPhases, bodyVars
  <2>6. ASSUME NEW g \in Parts, PartEnds(r, g) PROVE RuntimeInv'
      BY <2>6 DEF PartEnds
  <2> QED
      BY <1>1, <2>1, <2>2, <2>3, <2>4, <2>5, <2>6 DEF Proceed
<1>2. ASSUME NEW r \in Runtimes, StopSignal(r) PROVE RuntimeInv'
    BY <1>2 DEF StopSignal
<1>3. ASSUME NEW r \in Runtimes, Kill(r) PROVE RuntimeInv'
    BY <1>3 DEF Kill, Moves, RunPhases
<1>4. ASSUME NEW r \in Runtimes, NEW g \in Parts, PartFails(r, g) PROVE RuntimeInv'
    BY <1>4 DEF PartFails
<1>5. ASSUME NEW r \in Runtimes, RunFails(r) PROVE RuntimeInv'
    BY <1>5 DEF RunFails, Moves, RunPhases
<1>6. CASE UNCHANGED runtimeVars
    BY <1>6 DEF runtimeVars
<1> QED
    BY <1>1, <1>2, <1>3, <1>4, <1>5, <1>6 DEF RuntimeNext

(* For any number of processes around the lock file, in either mode and    *)
(* killed anywhere: an engine that is no longer there is one the run was   *)
(* told of, and a process that is gone leaves no goroutine and no          *)
(* advertisement (runForeground, runBackground and bootstrap of            *)
(* runtime.go): the safety half of RuntimeEnds.                            *)
THEOREM DeathsAlwaysKnown == RuntimeSpec => []DeathsKnown
<1>1. RuntimeInv => DeathsKnown
    BY DEF RuntimeInv
<1> QED
    BY <1>1, RuntimeStart, RuntimeStep, PTL DEF RuntimeSpec

-----------------------------------------------------------------------------
(* A probe of a stdio server (module StdioProcess).                        *)

(* What the prober and the server hold.                                    *)
StdioTypeOK ==
    /\ doing \in {"start", "write", "read", "closing", "grace", "done"}
    /\ read \in Nat
    /\ replies \in {<<>>, <<"good">>, <<"error">>}
    /\ alive \subseteq Tree
    /\ stdin \in {"open", "closed"}
    /\ deadline \in {"live", "over"}
    /\ wrong \in BOOLEAN
    /\ verdict \in {"open", "none", "protocol", "timeout", "config"}

(* Before the teardown the probe has no verdict and has not closed stdin,  *)
(* so that a tree which is gone by then ended by itself, which is wrong,   *)
(* or by the deadline; and an error in the pipe is the server's doing.     *)
HandshakeOpen ==
    /\ doing = "start" => alive = {}
    /\ doing \in {"start", "write", "read"} => verdict = "open" /\ stdin = "open"
    /\ doing \in {"write", "read"} /\ alive = {} => wrong \/ deadline = "over"
    /\ replies = <<"error">> => wrong

(* The induction hypothesis.                                               *)
StdioInv == StdioTypeOK /\ HandshakeOpen /\ ProbeAccountable

LEMMA StdioStart == StdioInit => StdioInv
<1> SUFFICES ASSUME StdioInit PROVE StdioInv
    OBVIOUS
<1>1. Len(replies) = 0 /\ Len(<<"error">>) = 1
    BY DEF StdioInit
<1>2. StdioTypeOK
    BY DEF StdioInit, StdioTypeOK
<1>3. HandshakeOpen
    BY <1>1 DEF StdioInit, HandshakeOpen
<1>4. ProbeAccountable
    BY DEF StdioInit, ProbeAccountable
<1> QED
    BY <1>2, <1>3, <1>4 DEF StdioInv

LEMMA ReadStep == StdioInv /\ ReadResponse => StdioInv'
<1> SUFFICES ASSUME StdioInv, ReadResponse PROVE StdioInv'
    OBVIOUS
<1> USE DEF StdioInv, StdioTypeOK, HandshakeOpen, ProbeAccountable
<1>1. /\ doing = "read" /\ verdict = "open"
      /\ UNCHANGED <<owed, alive, stdin, deadline, wrong>>
    BY DEF ReadResponse
<1>2. CASE /\ replies # <<>> /\ read' = read + 1 /\ replies' = <<>>
           /\ IF replies[1] = "error" THEN Conclude("protocol")
              ELSE IF read + 1 = MethodCount THEN Conclude("none")
              ELSE doing' = "write" /\ UNCHANGED verdict
  <2>1. CASE replies[1] = "error" /\ Conclude("protocol")
    <3>1. replies = <<"error">>
        BY <1>2, <2>1
    <3> QED
        BY <1>1, <1>2, <2>1, <3>1 DEF Conclude
  <2>2. CASE read + 1 = MethodCount /\ Conclude("none")
      BY <1>1, <1>2, <2>2 DEF Conclude
  <2>3. CASE doing' = "write" /\ UNCHANGED verdict
      BY <1>1, <1>2, <2>3
  <2> QED
      BY <1>2, <2>1, <2>2, <2>3
<1>3. CASE /\ replies = <<>> /\ alive = {}
           /\ Conclude(IF deadline = "over" THEN "timeout" ELSE "protocol")
           /\ UNCHANGED <<read, replies>>
    BY <1>1, <1>3 DEF Conclude
<1>4. CASE Conclude("timeout") /\ UNCHANGED <<read, replies>>
    BY <1>1, <1>4 DEF Conclude
<1> QED
    BY <1>2, <1>3, <1>4 DEF ReadResponse

LEMMA StdioStep == StdioInv /\ [StdioNext]_stdioVars => StdioInv'
<1> SUFFICES ASSUME StdioInv, [StdioNext]_stdioVars PROVE StdioInv'
    OBVIOUS
<1> USE DEF StdioInv, StdioTypeOK, HandshakeOpen, ProbeAccountable
<1>1. CASE StartServer
    BY <1>1 DEF StartServer, Tree
<1>2. CASE WriteRequest
    BY <1>2 DEF WriteRequest, Conclude
<1>3. CASE ReadResponse
    BY <1>3, ReadStep DEF StdioInv
<1>4. CASE CloseStdin
    BY <1>4 DEF CloseStdin
<1>5. CASE KillGroup
    BY <1>5 DEF KillGroup
<1>6. CASE Deadline
    BY <1>6 DEF Deadline
<1>7. CASE ServerAnswers
  <2>1. PICK a \in {"good", "error"} : replies' = <<a>> /\ wrong' = (wrong \/ a = "error")
      BY <1>7 DEF ServerAnswers
  <2> QED
      BY <1>7, <2>1 DEF ServerAnswers
<1>8. CASE ServerDies
    BY <1>8 DEF ServerDies
<1>9. CASE UNCHANGED stdioVars
    BY <1>9 DEF stdioVars
<1> QED
    BY <1>1, <1>2, <1>3, <1>4, <1>5, <1>6, <1>7, <1>8, <1>9 DEF StdioNext, ProberStep

(* For every length of the handshake: a probe calls a server healthy only  *)
(* when every method was answered, blames it only when it did wrong or the *)
(* deadline cut a write short, and leaves none of its processes behind     *)
(* (performHandshake, teardownStdioServer): the safety half of ProbeEnds.  *)
THEOREM ProbeAlwaysAccountable == StdioSpec => []ProbeAccountable
<1>1. StdioInv => ProbeAccountable
    BY DEF StdioInv
<1> QED
    BY <1>1, StdioStart, StdioStep, PTL DEF StdioSpec
=============================================================================
