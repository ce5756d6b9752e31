-------------------------- MODULE FederationProofs --------------------------
(***************************************************************************)
(* Proofs about the two ends of a federation and the sink between the      *)
(* introducer and its health view, for any number of peers, handlers and   *)
(* callers of the sink, and for every number of members, cap on the peers  *)
(* and number of faults of a follower.                                     *)
(***************************************************************************)
EXTENDS Introducer, Follower, FiniteSetTheorems, TLAPS

-----------------------------------------------------------------------------
(* The sink and the introducer (modules PeerSink and Introducer).          *)

(* The strengthening of RollUpsOwned: a roll-up that is shown is in        *)
(* p.owned or in the hands of a call that will withdraw or record it.      *)
Tracked ==
    \A p \in Peers : shown[p] # "none" =>
        p \in owned \/ \E c \in Callers : \/ p \in task[c].gone
                                          \/ task[c].input[p] # "none"

SinkInv == SinkTypeOK /\ Tracked

LEMMA SinkInvInit == SinkInit => SinkInv
  BY DEF SinkInit, SinkInv, SinkTypeOK, Tracked, Nothing, Rest, Task, RollUp

LEMMA ApplyKeeps ==
    ASSUME SinkInv, NEW c \in Callers, NEW S \in [Peers -> RollUp],
           ApplyBegin(c, S)
    PROVE  SinkInv'
  <1>1. SinkTypeOK'
    BY DEF SinkInv, SinkTypeOK, ApplyBegin, Task, Reported
  <1>2. Tracked'
    <2> SUFFICES ASSUME NEW p \in Peers, shown'[p] # "none"
                 PROVE  p \in owned' \/ \E d \in Callers :
                            p \in task'[d].gone \/ task'[d].input[p] # "none"
      BY DEF Tracked
    <2>1. task'[c] = [gone |-> owned \ Reported(S), input |-> S, cur |-> NoPeer]
      BY DEF SinkInv, SinkTypeOK, ApplyBegin
    <2>2. CASE p \in owned
      BY <2>1, <2>2 DEF Reported
    <2>3. CASE p \notin owned
      <3>1. PICK d \in Callers : p \in task[d].gone \/ task[d].input[p] # "none"
        BY <2>3 DEF SinkInv, Tracked, ApplyBegin
      <3>2. d # c
        BY <3>1 DEF ApplyBegin, Rest, Nothing
      <3>3. task'[d] = task[d]
        BY <3>2 DEF SinkInv, SinkTypeOK, ApplyBegin
      <3> QED BY <3>1, <3>3
    <2> QED BY <2>2, <2>3
  <1> QED BY <1>1, <1>2 DEF SinkInv

LEMMA RemoveKeeps ==
    ASSUME SinkInv, NEW c \in Callers, NEW q \in Peers, RemoveBegin(c, q)
    PROVE  SinkInv'
  <1>1. SinkTypeOK'
    BY DEF SinkInv, SinkTypeOK, RemoveBegin, Task
  <1>2. Tracked'
    <2> SUFFICES ASSUME NEW p \in Peers, shown'[p] # "none"
                 PROVE  p \in owned' \/ \E d \in Callers :
                            p \in task'[d].gone \/ task'[d].input[p] # "none"
      BY DEF Tracked
    <2>1. task'[c].gone = owned \cap {q} /\ \A d \in Callers \ {c} : task'[d] = task[d]
      BY DEF SinkInv, SinkTypeOK, RemoveBegin, Task
    <2>2. CASE p \in owned
      BY <2>1, <2>2 DEF RemoveBegin
    <2>3. CASE p \notin owned
      <3>1. PICK d \in Callers : p \in task[d].gone \/ task[d].input[p] # "none"
        BY <2>3 DEF SinkInv, Tracked, RemoveBegin
      <3>2. d # c
        BY <3>1 DEF RemoveBegin, Rest, Nothing
      <3> QED BY <2>1, <3>1, <3>2
    <2> QED BY <2>2, <2>3
  <1> QED BY <1>1, <1>2 DEF SinkInv

LEMMA StepKeeps ==
    ASSUME SinkInv, NEW c \in Callers, SinkStep(c)
    PROVE  SinkInv'
  <1>1. CASE Withdraw(c)
    <2>1. PICK q \in task[c].gone : /\ shown' = [shown EXCEPT ![q] = "none"]
                                    /\ task' = [task EXCEPT ![c].gone = @ \ {q}]
                                    /\ owned' = owned
      BY <1>1 DEF Withdraw
    <2>2. SinkTypeOK'
      BY <2>1 DEF SinkInv, SinkTypeOK, Task, RollUp
    <2>3. Tracked'
      BY <2>1 DEF SinkInv, SinkTypeOK, Task, Tracked
    <2> QED BY <2>2, <2>3 DEF SinkInv
  <1>2. CASE Render(c)
    <2>1. PICK q \in Peers : /\ task[c].input[q] # "none"
                             /\ shown' = [shown EXCEPT ![q] = task[c].input[q]]
                             /\ task' = [task EXCEPT ![c].cur = q]
                             /\ owned' = owned
      BY <1>2 DEF Render, Reported
    <2>2. SinkTypeOK'
      BY <2>1 DEF SinkInv, SinkTypeOK, Task
    <2>3. Tracked'
      <3>1. \A d \in Callers : task'[d].gone = task[d].gone /\ task'[d].input = task[d].input
        BY <2>1 DEF SinkInv, SinkTypeOK, Task
      <3> QED BY <2>1, <3>1 DEF SinkInv, SinkTypeOK, Tracked
    <2> QED BY <2>2, <2>3 DEF SinkInv
  <1>3. CASE Record(c)
    <2> DEFINE q == task[c].cur
    <2>1. q \in Peers
      BY <1>3 DEF Record, SinkInv, SinkTypeOK, Task
    <2>2. task' = [task EXCEPT ![c].input[q] = "none", ![c].cur = NoPeer]
      BY <1>3 DEF Record
    <2>3. SinkTypeOK'
      BY <1>3, <2>1, <2>2 DEF Record, SinkInv, SinkTypeOK, Task, RollUp
    <2>4. \A d \in Callers, p \in Peers \ {q} :
              task'[d].gone = task[d].gone /\ task'[d].input[p] = task[d].input[p]
      BY <2>1, <2>2 DEF SinkInv, SinkTypeOK, Task
    <2>5. Tracked'
      BY ZenonT(60), <1>3, <2>4 DEF Record, SinkInv, Tracked
    <2> QED BY <2>3, <2>5 DEF SinkInv
  <1> QED BY <1>1, <1>2, <1>3 DEF SinkStep

(* PeerStatusSink orphans no roll-up, whatever its callers do: one shown   *)
(* while no call is under way will be withdrawn when its peer is removed.  *)
THEOREM SinkOwnsRollUps == SinkSpec => []RollUpsOwned
  <1>1. SinkInv /\ [SinkNext]_sinkVars => SinkInv'
    <2> SUFFICES ASSUME SinkInv, [SinkNext]_sinkVars PROVE SinkInv'
      OBVIOUS
    <2>1. CASE UNCHANGED sinkVars
      BY <2>1 DEF sinkVars, SinkInv, SinkTypeOK, Tracked
    <2>2. CASE SinkNext
      BY <2>2, ApplyKeeps, RemoveKeeps, StepKeeps DEF SinkNext
    <2> QED BY <2>1, <2>2
  <1>2. SinkInv => RollUpsOwned
    BY DEF SinkInv, Tracked, RollUpsOwned, Rest, Nothing
  <1> QED BY SinkInvInit, <1>1, <1>2, PTL DEF SinkSpec

-----------------------------------------------------------------------------
(* The introducer.  An isotope outlives its membership only while the loop *)
(* is announcing the removal: a handler grants one to a peer that is still *)
(* fresh, and so still a member.                                           *)
Granting ==
    /\ TrustEndsWithMembership
    /\ proc[Loop].req = "none"
    /\ proc[Loop].pc \notin {"notify", "remove"} => proc[Loop].left = {}
    /\ \A h \in Handlers :
          proc[h].req \in Upserts =>
              /\ proc[h].peer \in Peers
              /\ proc[h].pc = "notify" => proc[h].peer \in fresh

IntroducerInv == SinkInv /\ ServerTypeOK /\ Granting

LEMMA WaitingType == Waiting \in Proc
  BY DEF Waiting, Proc, Nothing, RollUp

LEMMA ProcType == ASSUME IntroducerInv, NEW c \in Callers PROVE proc[c] \in Proc
  BY DEF IntroducerInv, ServerTypeOK

LEMMA IntroducerStart == Init => IntroducerInv
  <1> SUFFICES ASSUME Init PROVE IntroducerInv
    OBVIOUS
  <1>1. SinkInv
    BY SinkInvInit DEF Init
  <1>2. ServerTypeOK
    BY WaitingType DEF Init, ServerTypeOK, Nothing, RollUp
  <1>3. Granting
    BY IntroducerAssumption
    DEF Init, Granting, TrustEndsWithMembership, Handlers, Waiting, Upserts
  <1> QED BY <1>1, <1>2, <1>3 DEF IntroducerInv

LEMMA SinkKept == ASSUME SinkInv, UNCHANGED sinkVars PROVE SinkInv'
  BY DEF SinkInv, SinkTypeOK, Tracked, sinkVars

LEMMA UpsertKeeps ==
    ASSUME IntroducerInv, NEW h \in Handlers, NEW f \in Peers, NEW kind \in Upserts,
           Upsert(h, f, kind)
    PROVE  IntroducerInv'
  <1> USE DEF IntroducerInv
  <1>0. h # Loop /\ h \in Callers /\ Loop \in Callers
    BY IntroducerAssumption DEF Handlers
  <1>1. SinkInv'
    BY SinkKept DEF Upsert
  <1>2. ServerTypeOK'
    <2>1. [Waiting EXCEPT !.req = kind, !.peer = f, !.pc = "notify"] \in Proc
      BY WaitingType DEF Proc, Upserts
    <2>2. proc' \in [Callers -> Proc]
      BY <1>0, <2>1 DEF ServerTypeOK, Upsert
    <2> QED BY <2>2 DEF ServerTypeOK, Upsert
  <1>3. Granting'
    BY <1>0, WaitingType
    DEF ServerTypeOK, Granting, TrustEndsWithMembership, Upsert, Handlers, Waiting
  <1> QED BY <1>1, <1>2, <1>3

LEMMA RefusedKeeps ==
    ASSUME IntroducerInv, NEW h \in Handlers, NEW f \in Peers, NEW kind \in Upserts,
           UpsertRefused(h, f, kind)
    PROVE  IntroducerInv'
  <1> USE DEF IntroducerInv
  <1>0. h # Loop /\ h \in Callers /\ Loop \in Callers
    BY IntroducerAssumption DEF Handlers
  <1>1. SinkInv'
    BY SinkKept DEF UpsertRefused
  <1>2. ServerTypeOK'
    <2>1. [Waiting EXCEPT !.req = kind, !.peer = f, !.pc = "reply"] \in Proc
      BY WaitingType DEF Proc, Upserts
    <2>2. proc' \in [Callers -> Proc]
      BY <1>0, <2>1 DEF ServerTypeOK, UpsertRefused
    <2> QED BY <2>2 DEF ServerTypeOK, UpsertRefused, serverVars
  <1>3. Granting'
    BY <1>0, WaitingType
    DEF ServerTypeOK, Granting, TrustEndsWithMembership, UpsertRefused, serverVars,
        Handlers, Waiting
  <1> QED BY <1>1, <1>2, <1>3

LEMMA ReportKeeps ==
    ASSUME IntroducerInv, NEW h \in Handlers, NEW f \in Peers, NEW s \in {"ok", "alert"},
           Report(h, f, s)
    PROVE  IntroducerInv'
  <1> USE DEF IntroducerInv
  <1>0. h # Loop /\ h \in Callers /\ Loop \in Callers
    BY IntroducerAssumption DEF Handlers
  <1>1. SinkInv'
    BY SinkKept DEF Report
  <1>2. ServerTypeOK'
    <2>1. [Waiting EXCEPT !.req = "report", !.peer = f, !.pc = "copy"] \in Proc
      BY WaitingType DEF Proc, Upserts
    <2>2. proc' \in [Callers -> Proc]
      BY <1>0, <2>1 DEF ServerTypeOK, Report
    <2> QED BY <2>2 DEF ServerTypeOK, Report, RollUp
  <1>3. Granting'
    BY <1>0, WaitingType
    DEF ServerTypeOK, Granting, TrustEndsWithMembership, Report, Handlers, Waiting,
        Upserts
  <1> QED BY <1>1, <1>2, <1>3

LEMMA ServeKeeps ==
    ASSUME IntroducerInv, NEW c \in Callers, Serve(c)
    PROVE  IntroducerInv'
  <1> USE DEF IntroducerInv
  <1>0. Loop \in Callers
    BY IntroducerAssumption
  <1>1. CASE MirrorMember(c)
    <2>0. c \in Handlers
      BY <1>1 DEF MirrorMember, Granting, Upserts, Handlers
    <2>1. SinkInv'
      BY <1>1, SinkKept DEF MirrorMember
    <2>2. ServerTypeOK'
      <3>1. [proc[c] EXCEPT !.pc = "reply"] \in Proc
        BY ProcType DEF Proc, Upserts
      <3>2. proc' \in [Callers -> Proc]
        BY <1>1, <3>1 DEF ServerTypeOK, MirrorMember, At
      <3>3. isotopes' \in SUBSET Peers
        BY <1>1, IntroducerAssumption DEF ServerTypeOK, MirrorMember
      <3> QED BY <1>1, <3>2, <3>3 DEF ServerTypeOK, MirrorMember
    <2>3. Granting'
      BY <1>0, <1>1, <2>0
      DEF ServerTypeOK, Granting, TrustEndsWithMembership, MirrorMember, At, Proc,
          Handlers
    <2> QED BY <2>1, <2>2, <2>3
  <1>2. CASE Reply(c)
    <2>1. SinkInv'
      BY <1>2, SinkKept DEF Reply
    <2>2. ServerTypeOK'
      <3>1. proc[c].req = "introduction" => proc[c].peer \in Peers
        BY DEF Granting, Handlers, Upserts
      <3> QED BY <1>2, <3>1, WaitingType DEF ServerTypeOK, Reply, Proc, Upserts
    <2>3. Granting'
      BY <1>0, <1>2
      DEF ServerTypeOK, Granting, TrustEndsWithMembership, Reply, Handlers, Waiting,
          Upserts
    <2> QED BY <2>1, <2>2, <2>3
  <1>3. CASE CopyStatuses(c)
    <2>1. SinkInv'
      BY <1>3, SinkKept DEF CopyStatuses
    <2>2. ServerTypeOK'
      <3>1. PICK S \in [Peers -> RollUp] :
                proc' = [proc EXCEPT ![c] = [@ EXCEPT !.pc = "apply", !.copy = S]]
        BY <1>3 DEF CopyStatuses, PeerStatuses
      <3>2. [proc[c] EXCEPT !.pc = "apply", !.copy = S] \in Proc
        BY ProcType DEF Proc, Upserts
      <3>3. proc' \in [Callers -> Proc]
        BY <3>1, <3>2 DEF ServerTypeOK
      <3> QED BY <1>3, <3>3 DEF ServerTypeOK, CopyStatuses, serverVars
    <2>3. Granting'
      BY <1>0, <1>3
      DEF ServerTypeOK, Granting, TrustEndsWithMembership, CopyStatuses, serverVars,
          Handlers, Proc
    <2> QED BY <2>1, <2>2, <2>3
  <1>4. CASE ApplyAll(c)
    <2>1. SinkInv'
      BY <1>4, ApplyKeeps DEF ApplyAll, ServerTypeOK, Proc
    <2>2. ServerTypeOK'
      <3>1. Nothing \in [Peers -> RollUp]
        BY DEF Nothing, RollUp
      <3>2. [proc[c] EXCEPT !.pc = "sink", !.copy = Nothing] \in Proc
        BY <3>1, ProcType DEF Proc, Upserts
      <3>3. proc' \in [Callers -> Proc]
        BY <1>4, <3>2 DEF ServerTypeOK, ApplyAll
      <3> QED BY <1>4, <3>3 DEF ServerTypeOK, ApplyAll, serverVars
    <2>3. Granting'
      BY <1>0, <1>4
      DEF ServerTypeOK, Granting, TrustEndsWithMembership, ApplyAll, serverVars,
          Handlers, Proc
    <2> QED BY <2>1, <2>2, <2>3
  <1>5. CASE InSink(c)
    BY <1>5, StepKeeps
    DEF InSink, serverVars, ServerTypeOK, Granting, TrustEndsWithMembership
  <1>6. CASE Applied(c)
    <2>1. SinkInv'
      BY <1>6, SinkKept DEF Applied
    <2>2. ServerTypeOK'
      BY <1>6, WaitingType DEF ServerTypeOK, Applied, serverVars
    <2>3. Granting'
      BY <1>0, <1>6
      DEF ServerTypeOK, Granting, TrustEndsWithMembership, Applied, serverVars,
          Handlers, Waiting, Upserts
    <2> QED BY <2>1, <2>2, <2>3
  <1> QED BY <1>1, <1>2, <1>3, <1>4, <1>5, <1>6 DEF Serve

LEMMA LoopKeeps ==
    ASSUME IntroducerInv, LoopStep
    PROVE  IntroducerInv'
  <1> USE DEF IntroducerInv
  <1>0. Loop \in Callers
    BY IntroducerAssumption
  <1>1. CASE AgeOut
    <2>1. SinkInv'
      BY <1>1, SinkKept DEF AgeOut
    <2>2. ServerTypeOK'
      <3>1. [proc[Loop] EXCEPT !.pc = "notify", !.left = peers \ fresh,
                                !.departed = peers \ fresh] \in Proc
        <4>1. peers \ fresh \in SUBSET Peers
          BY DEF ServerTypeOK
        <4> QED BY <1>0, <4>1, ProcType DEF Proc, Upserts
      <3>2. proc' \in [Callers -> Proc]
        BY <1>0, <1>1, <3>1 DEF ServerTypeOK, AgeOut
      <3> QED BY <1>1, <3>2 DEF ServerTypeOK, AgeOut
    <2>3. Granting'
      BY <1>0, <1>1
      DEF ServerTypeOK, Granting, TrustEndsWithMembership, AgeOut, Handlers, Proc,
          Waiting
    <2> QED BY <2>1, <2>2, <2>3
  <1>2. CASE NotifyRemoved
    <2>1. SinkInv'
      BY <1>0, <1>2, RemoveKeeps DEF NotifyRemoved, ServerTypeOK, Proc
    <2>2. ServerTypeOK'
      <3>1. PICK p \in proc[Loop].left :
                proc' = [proc EXCEPT ![Loop] = [@ EXCEPT !.pc = "remove", !.peer = p]]
        BY <1>2 DEF NotifyRemoved
      <3>2. [proc[Loop] EXCEPT !.pc = "remove", !.peer = p] \in Proc
        BY <1>0, ProcType DEF Proc, Upserts
      <3>3. proc' \in [Callers -> Proc]
        BY <1>0, <3>1, <3>2 DEF ServerTypeOK
      <3> QED BY <1>2, <3>3 DEF ServerTypeOK, NotifyRemoved, serverVars
    <2>3. Granting'
      BY <1>0, <1>2
      DEF ServerTypeOK, Granting, TrustEndsWithMembership, NotifyRemoved, serverVars,
          Handlers, Proc
    <2> QED BY <2>1, <2>2, <2>3
  <1>3. CASE RemoveIsotope
    <2>1. SinkInv'
      BY <1>3, SinkKept DEF RemoveIsotope
    <2>2. ServerTypeOK'
      <3>1. [proc[Loop] EXCEPT !.pc = "notify", !.peer = NoPeer,
                !.left = proc[Loop].left \ {proc[Loop].peer}] \in Proc
        BY <1>0, ProcType DEF Proc, Upserts
      <3>2. proc' \in [Callers -> Proc]
        BY <1>0, <1>3, <3>1 DEF ServerTypeOK, RemoveIsotope
      <3> QED BY <1>3, <3>2 DEF ServerTypeOK, RemoveIsotope
    <2>3. Granting'
      BY <1>0, <1>3
      DEF ServerTypeOK, Granting, TrustEndsWithMembership, RemoveIsotope, Handlers, Proc
    <2> QED BY <2>1, <2>2, <2>3
  <1>4. CASE ForgetStatuses
    <2>1. SinkInv'
      BY <1>4, SinkKept DEF ForgetStatuses
    <2>2. ServerTypeOK'
      <3>0. [proc[Loop] EXCEPT !.pc = "copy", !.departed = {}] \in Proc
        BY <1>0, ProcType DEF Proc, Upserts
      <3>1. proc' \in [Callers -> Proc]
        BY <1>0, <1>4, <3>0 DEF ServerTypeOK, ForgetStatuses
      <3>2. statuses' \in [Peers -> RollUp]
        BY <1>4 DEF ServerTypeOK, ForgetStatuses, RollUp
      <3> QED BY <1>4, <3>1, <3>2 DEF ServerTypeOK, ForgetStatuses
    <2>3. Granting'
      BY <1>0, <1>4
      DEF ServerTypeOK, Granting, TrustEndsWithMembership, ForgetStatuses, Handlers,
          Proc
    <2> QED BY <2>1, <2>2, <2>3
  <1>5. CASE Serve(Loop)
    BY <1>0, <1>5, ServeKeeps
  <1> QED BY <1>1, <1>2, <1>3, <1>4, <1>5 DEF LoopStep

LEMMA SilenceKeeps ==
    ASSUME IntroducerInv, NEW f \in Peers, Silence(f)
    PROVE  IntroducerInv'
  <1>1. SinkInv'
    BY SinkKept DEF Silence, IntroducerInv
  <1>2. ServerTypeOK'
    BY DEF ServerTypeOK, Silence, IntroducerInv
  <1>3. Granting'
    BY DEF IntroducerInv, ServerTypeOK, Granting, TrustEndsWithMembership, Silence
  <1> QED BY <1>1, <1>2, <1>3 DEF IntroducerInv

LEMMA IntroducerStep == IntroducerInv /\ [Next]_vars => IntroducerInv'
  <1> SUFFICES ASSUME IntroducerInv, [Next]_vars PROVE IntroducerInv'
    OBVIOUS
  <1>1. CASE UNCHANGED vars
    BY <1>1, SinkKept
    DEF IntroducerInv, vars, serverVars, ServerTypeOK, Granting, TrustEndsWithMembership
  <1>2. ASSUME NEW h \in Handlers, Serve(h) PROVE IntroducerInv'
    BY <1>2, ServeKeeps DEF Handlers
  <1>3. CASE Next
    BY <1>2, <1>3, UpsertKeeps, RefusedKeeps, ReportKeeps, LoopKeeps, SilenceKeeps
    DEF Next
  <1> QED BY <1>1, <1>3

(* Every variable of the introducer keeps its type, and whoever was heard  *)
(* within the timeout is a member.                                         *)
THEOREM IntroducerTypes == Spec => []TypeOK
  <1>1. IntroducerInv => TypeOK
    BY DEF IntroducerInv, SinkInv, TypeOK
  <1> QED BY IntroducerStart, IntroducerStep, <1>1, PTL DEF Spec

(* Trust granted for membership ends with it: a handler never grants an    *)
(* isotope to a peer that ageOutLoop has already announced as removed.     *)
THEOREM TrustBounded == Spec => []TrustEndsWithMembership
  <1>1. IntroducerInv => TrustEndsWithMembership
    BY DEF IntroducerInv, Granting
  <1> QED BY IntroducerStart, IntroducerStep, <1>1, PTL DEF Spec

(* The handlers and the loop use the sink as its specification allows.     *)
THEOREM UsesSink == Spec => SinkSpec
  <1>1. Init => SinkInit
    BY DEF Init
  <1>2. IntroducerInv /\ [Next]_vars => [SinkNext]_sinkVars
    <2> SUFFICES ASSUME IntroducerInv, [Next]_vars PROVE SinkNext \/ UNCHANGED sinkVars
      OBVIOUS
    <2>0. Loop \in Callers
      BY IntroducerAssumption
    <2>1. CASE UNCHANGED vars
      BY <2>1 DEF vars
    <2>2. ASSUME NEW c \in Callers, Serve(c) PROVE SinkNext \/ UNCHANGED sinkVars
      <3>1. CASE ApplyAll(c)
        BY <3>1 DEF ApplyAll, SinkNext, IntroducerInv, ServerTypeOK, Proc
      <3>2. CASE InSink(c)
        BY <3>2 DEF InSink, SinkNext
      <3>3. CASE MirrorMember(c) \/ Reply(c) \/ CopyStatuses(c) \/ Applied(c)
        BY <3>3 DEF MirrorMember, Reply, CopyStatuses, Applied
      <3> QED BY <2>2, <3>1, <3>2, <3>3 DEF Serve
    <2>3. CASE LoopStep
      <3>1. CASE NotifyRemoved
        BY <2>0, <3>1 DEF NotifyRemoved, SinkNext, IntroducerInv, ServerTypeOK, Proc
      <3>2. CASE AgeOut \/ RemoveIsotope \/ ForgetStatuses
        BY <3>2 DEF AgeOut, RemoveIsotope, ForgetStatuses
      <3> QED BY <2>0, <2>2, <2>3, <3>1, <3>2 DEF LoopStep
    <2>4. ASSUME NEW h \in Handlers, Serve(h) PROVE SinkNext \/ UNCHANGED sinkVars
      BY <2>2, <2>4 DEF Handlers
    <2>5. ASSUME NEW h \in Handlers, NEW f \in Peers,
                 \/ \E kind \in Upserts : Upsert(h, f, kind) \/ UpsertRefused(h, f, kind)
                 \/ \E s \in {"ok", "alert"} : Report(h, f, s)
                 \/ Silence(f)
          PROVE  UNCHANGED sinkVars
      BY <2>5 DEF Upsert, UpsertRefused, Report, Silence
    <2>6. ASSUME NEW f \in Peers, Silence(f) PROVE UNCHANGED sinkVars
      BY <2>6 DEF Silence
    <2> QED BY <2>1, <2>3, <2>4, <2>5, <2>6 DEF Next
  <1> QED BY IntroducerStart, IntroducerStep, <1>1, <1>2, PTL DEF Spec, SinkSpec

(* In the introducer no roll-up is orphaned.                               *)
THEOREM IntroducerOwnsRollUps == Spec => []RollUpsOwned
  BY UsesSink, SinkOwnsRollUps, PTL

-----------------------------------------------------------------------------
(* A follower (module Follower).                                           *)

Records == Members \cup Introducers
Held == [Members -> Statuses]
Round == [pc : {"wait", "replied", "saving", "sink"},
          left : SUBSET Records, held : Held, snap : SUBSET Records]

FollowerTypeOK ==
    /\ introducer \in Introducers
    /\ joined \in SUBSET (Members \cup {"self"})
    /\ status \in Held
    /\ peerCap \in Nat \ {0}
    /\ known \in SUBSET Records
    /\ file \in SUBSET Records
    /\ saver \in Goroutines \cup {"none"}
    /\ answered \in BOOLEAN
    /\ rounds \in [Goroutines -> Round]
    /\ faults \in Nat

(* snapshotMu: who holds a snapshot holds the lock, and so alone.          *)
Locked == \A g \in Goroutines : rounds[g].pc = "saving" <=> saver = g

(* What is about to be written is no older than the file, because no one   *)
(* else has written since it was taken, and no newer than the registry,    *)
(* which forgets nothing.                                                  *)
FilesOrdered ==
    /\ file \subseteq known
    /\ \A g \in Goroutines :
          rounds[g].pc = "saving" => /\ file \subseteq rounds[g].snap
                                     /\ rounds[g].snap \subseteq known

(* The registry knows an introducer, the current one or one before it.     *)
Introduced == known \cap Introducers # {}

(* An introducer is the first record of a registry, so no cap refuses it.  *)
IntroducerFirst == known # {} => Introduced

(* A round that is past its introducer's record leaves one in the registry.*)
PastIntroducer ==
    /\ answered => Introduced
    /\ \A g \in Goroutines :
          \/ rounds[g].pc = "wait"
          \/ rounds[g].pc = "replied" /\ rounds[g].left \cap Introducers # {}
          \/ Introduced

(* The induction hypothesis.                                               *)
FollowerInv == FollowerTypeOK /\ Locked /\ FilesOrdered /\ IntroducerFirst /\ PastIntroducer

LEMMA FollowerStart == FollowerInit => FollowerInv
<1> SUFFICES ASSUME FollowerInit PROVE FollowerInv
    OBVIOUS
<1>1. Ticking \in Round /\ NoStatus \in Held
    BY DEF Ticking, Round, Held, NoStatus, Statuses
<1>2. FollowerTypeOK
    BY <1>1, FollowerAssumption DEF FollowerInit, FollowerTypeOK
<1>3. Locked /\ FilesOrdered /\ IntroducerFirst /\ PastIntroducer
    BY DEF FollowerInit, Locked, FilesOrdered, IntroducerFirst, PastIntroducer,
           Ticking, Goroutines
<1> QED
    BY <1>2, <1>3 DEF FollowerInv

(* A registry that knows no introducer is empty, and takes the next one.   *)
LEMMA IntroducerTaken ==
    ASSUME FollowerTypeOK, IntroducerFirst, NEW i \in Introducers
    PROVE  Upserted(i) \cap Introducers # {}
<1>1. CASE Introduced
    BY <1>1 DEF Upserted, Introduced
<1>2. CASE known = {}
  <2>1. Cardinality(known) = 0
      BY <1>2, FS_EmptySet
  <2>2. ~(Cardinality(known) >= peerCap)
      BY <2>1 DEF FollowerTypeOK
  <2> QED
      BY <2>2 DEF Upserted
<1> QED
    BY <1>1, <1>2 DEF IntroducerFirst

LEMMA RecordKeeps ==
    ASSUME FollowerInv, NEW g \in Goroutines, UpsertMember(g)
    PROVE  FollowerInv'
<1> USE DEF FollowerInv
<1>1. PICK peer \in NextRecord(rounds[g].left) :
          /\ known' = Upserted(peer)
          /\ rounds' = [rounds EXCEPT ![g].left = @ \ {peer}]
    BY DEF UpsertMember
<1>2. rounds[g] \in Round /\ peer \in Records
    BY <1>1 DEF FollowerTypeOK, Round, NextRecord, Records
<1>3. known \subseteq known' /\ known' \in SUBSET Records
    BY <1>1, <1>2 DEF Upserted, FollowerTypeOK, Records
<1>4. UNCHANGED <<introducer, joined, status, peerCap, file, saver, answered, faults>>
    BY DEF UpsertMember, clusterVars
<1>5. FollowerTypeOK'
    BY <1>1, <1>2, <1>3, <1>4 DEF FollowerTypeOK, Round
<1>6. Locked' /\ FilesOrdered'
    BY <1>1, <1>2, <1>3, <1>4 DEF Locked, FilesOrdered, FollowerTypeOK, Round
<1>7. Introduced \/ rounds[g].left \cap Introducers # {}
    BY UpsertMember(g) DEF UpsertMember, PastIntroducer
<1>8. Introduced'
  <2>1. CASE rounds[g].left \cap Introducers # {}
    <3>1. peer \in Introducers
        BY <1>1, <2>1 DEF NextRecord
    <3> QED
        BY <1>1, <3>1, IntroducerTaken DEF Introduced
  <2> QED
      BY <1>3, <1>7, <2>1 DEF Introduced
<1>9. IntroducerFirst' /\ PastIntroducer'
    BY <1>8 DEF IntroducerFirst, PastIntroducer
<1> QED
    BY <1>5, <1>6, <1>9

LEMMA SaveKeeps ==
    ASSUME FollowerInv, NEW g \in Goroutines, SnapshotTaken(g) \/ SnapshotRenamed(g)
    PROVE  FollowerInv' /\ file \subseteq file'
<1> USE DEF FollowerInv
<1>0. rounds[g] \in Round
    BY DEF FollowerTypeOK
<1>1. CASE SnapshotTaken(g)
  <2>1. FollowerTypeOK'
      BY <1>0, <1>1 DEF SnapshotTaken, FollowerTypeOK, clusterVars, Round
  <2>2. Locked' /\ FilesOrdered'
      BY <1>0, <1>1 DEF SnapshotTaken, FollowerTypeOK, Locked, FilesOrdered, Round, Goroutines
  <2>3. IntroducerFirst' /\ PastIntroducer'
      BY <1>0, <1>1 DEF SnapshotTaken, FollowerTypeOK, IntroducerFirst, PastIntroducer, Introduced, Round
  <2> QED
      BY <1>1, <2>1, <2>2, <2>3 DEF SnapshotTaken
<1>2. CASE SnapshotRenamed(g)
  <2>1. FollowerTypeOK'
    <3>1. rounds' \in [Goroutines -> Round] /\ file' \in SUBSET Records
        BY <1>0, <1>2 DEF SnapshotRenamed, FollowerTypeOK, Round
    <3>2. faults' \in Nat
        BY <1>2 DEF SnapshotRenamed, FollowerTypeOK
    <3> QED
        BY <1>2, <3>1, <3>2 DEF SnapshotRenamed, FollowerTypeOK, clusterVars
  <2>2. saver = g /\ file \subseteq file' /\ file' \subseteq known
      BY <1>2 DEF SnapshotRenamed, Locked, FilesOrdered
  <2>3. \A h \in Goroutines : rounds'[h].pc # "saving"
      BY <1>0, <1>2, <2>2 DEF SnapshotRenamed, Locked, FollowerTypeOK, Round
  <2>4. Locked' /\ FilesOrdered'
      BY <1>2, <2>2, <2>3 DEF SnapshotRenamed, Locked, FilesOrdered, Goroutines
  <2>5. IntroducerFirst' /\ PastIntroducer'
      BY <1>0, <1>2 DEF SnapshotRenamed, FollowerTypeOK, IntroducerFirst, PastIntroducer, Introduced, Round
  <2> QED
      BY <2>1, <2>2, <2>4, <2>5
<1> QED
    BY <1>1, <1>2

(* The steps that touch neither the registry nor its file.                 *)
LEMMA OthersKeep ==
    ASSUME FollowerInv, NEW g \in Goroutines,
           Membership(g) \/ ReplyLost(g) \/ ReplyAges(g) \/ MembershipApplied(g)
    PROVE  FollowerInv' /\ UNCHANGED file
<1> USE DEF FollowerInv
<1>0. rounds[g] \in Round /\ Ticking \in Round
    BY DEF FollowerTypeOK, Round, Ticking, Held, NoStatus, Statuses
<1>1. CASE Membership(g)
  <2>1. joined' \in SUBSET (Members \cup {"self"})
      BY <1>1 DEF Membership, Admitted, FollowerTypeOK
  <2>2. {introducer} \cup (joined' \ {"self"}) \in SUBSET Records
      BY <2>1 DEF FollowerTypeOK, Records
  <2>3. FollowerTypeOK'
      BY <1>0, <1>1, <2>1, <2>2 DEF Membership, FollowerTypeOK, ownVars, Round
  <2>4. Locked' /\ FilesOrdered' /\ IntroducerFirst' /\ PastIntroducer'
      BY <1>0, <1>1 DEF Membership, FollowerTypeOK, Locked, FilesOrdered, IntroducerFirst,
                        PastIntroducer, Introduced, ownVars, Round
  <2> QED
      BY <1>1, <2>3, <2>4 DEF Membership, ownVars
<1>2. CASE ReplyLost(g)
  <2>1. FollowerTypeOK'
      BY <1>0, <1>2 DEF ReplyLost, FollowerTypeOK, ownVars, clusterVars, Round
  <2>2. Locked' /\ FilesOrdered' /\ IntroducerFirst' /\ PastIntroducer'
      BY <1>0, <1>2 DEF ReplyLost, FollowerTypeOK, Locked, FilesOrdered, IntroducerFirst,
                        PastIntroducer, Introduced, ownVars, Ticking, Round
  <2> QED
      BY <1>2, <2>1, <2>2 DEF ReplyLost, ownVars
<1>3. CASE ReplyAges(g)
  <2>1. [m \in Members |-> Stale(rounds[g].held[m])] \in Held
      BY <1>0 DEF Round, Held, Stale, Statuses
  <2>2. PICK aged \in Held : rounds' = [rounds EXCEPT ![g].held = aged]
      BY <1>3, <2>1 DEF ReplyAges
  <2>3. FollowerTypeOK'
      BY <1>0, <1>3, <2>2 DEF ReplyAges, FollowerTypeOK, ownVars, clusterVars, Round
  <2>4. Locked' /\ FilesOrdered' /\ IntroducerFirst' /\ PastIntroducer'
      BY <1>0, <1>3, <2>2 DEF ReplyAges, FollowerTypeOK, Locked, FilesOrdered,
                        IntroducerFirst, PastIntroducer, Introduced, ownVars, Round
  <2> QED
      BY <1>3, <2>3, <2>4 DEF ReplyAges, ownVars
<1>4. CASE MembershipApplied(g)
  <2>1. FollowerTypeOK'
      BY <1>0, <1>4 DEF MembershipApplied, FollowerTypeOK, clusterVars, Round
  <2>2. Introduced
      BY <1>4 DEF MembershipApplied, PastIntroducer
  <2>3. Locked' /\ FilesOrdered'
      BY <1>0, <1>4 DEF MembershipApplied, FollowerTypeOK, Locked, FilesOrdered, Ticking, Round
  <2>4. IntroducerFirst' /\ PastIntroducer'
      BY <1>4, <2>2 DEF MembershipApplied, IntroducerFirst, PastIntroducer, Introduced
  <2> QED
      BY <1>4, <2>1, <2>3, <2>4 DEF MembershipApplied
<1> QED
    BY <1>1, <1>2, <1>3, <1>4

(* A report that ages takes the copies of it along, and nothing else.      *)
LEMMA AgeKeeps ==
    ASSUME FollowerInv, NEW o \in Members, ReportAges(o)
    PROVE  FollowerInv' /\ UNCHANGED file
<1> USE DEF FollowerInv
<1>1. \A s \in Statuses : Stale(s) \in Statuses
    BY DEF Stale, Statuses
<1>2. ASSUME NEW g \in Goroutines
      PROVE  /\ rounds'[g] \in Round
             /\ rounds'[g].pc = rounds[g].pc
             /\ rounds'[g].left = rounds[g].left
             /\ rounds'[g].snap = rounds[g].snap
  <2>1. rounds[g] \in Round
      BY DEF FollowerTypeOK
  <2>2. [rounds[g].held EXCEPT ![o] = Stale(rounds[g].held[o])] \in Held
      BY <1>1, <2>1 DEF Round, Held
  <2>3. rounds'[g] = [rounds[g] EXCEPT !.held[o] = Stale(rounds[g].held[o])]
      BY DEF ReportAges
  <2> QED
      BY <2>1, <2>2, <2>3 DEF Round
<1>3. rounds' \in [Goroutines -> Round]
    BY <1>2 DEF ReportAges
<1>4. status' \in Held
    BY <1>1 DEF ReportAges, FollowerTypeOK, Held
<1>5. UNCHANGED <<introducer, joined, peerCap, known, file, saver, answered, faults>>
    BY DEF ReportAges, ownVars
<1>6. FollowerTypeOK'
    BY <1>3, <1>4, <1>5 DEF FollowerTypeOK
<1>7. Locked' /\ FilesOrdered' /\ IntroducerFirst' /\ PastIntroducer'
    BY <1>2, <1>5 DEF Locked, FilesOrdered, IntroducerFirst, PastIntroducer, Introduced
<1> QED
    BY <1>5, <1>6, <1>7

(* The rest of the cluster changes nothing of the follower's.              *)
LEMMA ClusterKeeps ==
    ASSUME FollowerInv,
           \/ \E o \in Members : Join(o) \/ AgedOut(o) \/ Reports(o)
           \/ AgedOut("self")
           \/ IntroducerRestarts
           \/ UNCHANGED followerVars
    PROVE  FollowerInv' /\ UNCHANGED file
<1> USE DEF FollowerInv
<1>1. UNCHANGED <<peerCap, ownVars, rounds>>
    BY DEF Join, AgedOut, Reports, IntroducerRestarts, followerVars
<1>2. introducer' \in Introducers /\ faults' \in Nat
    BY DEF Join, AgedOut, Reports, IntroducerRestarts, followerVars, clusterVars,
           FollowerTypeOK
<1>3. joined' \in SUBSET (Members \cup {"self"})
    BY DEF Join, AgedOut, Reports, IntroducerRestarts, followerVars, clusterVars,
           FollowerTypeOK, Admitted
<1>4. status' \in Held
    BY DEF Join, AgedOut, Reports, IntroducerRestarts, followerVars, clusterVars,
           FollowerTypeOK, Held, Statuses, NoStatus
<1>5. FollowerTypeOK'
    BY <1>1, <1>2, <1>3, <1>4 DEF ownVars, FollowerTypeOK
<1> QED
    BY <1>1, <1>5 DEF ownVars, Locked, FilesOrdered, IntroducerFirst, PastIntroducer,
                      Introduced

LEMMA FollowerStep == FollowerInv /\ [FollowerNext]_followerVars => FollowerInv' /\ file \subseteq file'
<1> SUFFICES ASSUME FollowerInv, [FollowerNext]_followerVars
             PROVE  FollowerInv' /\ file \subseteq file'
    OBVIOUS
<1>1. ASSUME NEW g \in Goroutines, UpsertMember(g) PROVE FollowerInv' /\ file \subseteq file'
    BY <1>1, RecordKeeps DEF UpsertMember
<1>2. ASSUME NEW g \in Goroutines, SnapshotTaken(g) \/ SnapshotRenamed(g)
      PROVE  FollowerInv' /\ file \subseteq file'
    BY <1>2, SaveKeeps
<1>3. ASSUME NEW g \in Goroutines,
             Membership(g) \/ ReplyLost(g) \/ ReplyAges(g) \/ MembershipApplied(g)
      PROVE  FollowerInv' /\ file \subseteq file'
    BY <1>3, OthersKeep
<1>4. CASE \/ \E o \in Members : Join(o) \/ AgedOut(o) \/ Reports(o)
           \/ AgedOut("self") \/ IntroducerRestarts \/ UNCHANGED followerVars
    BY <1>4, ClusterKeeps
<1>5. ASSUME NEW o \in Members, ReportAges(o) PROVE FollowerInv' /\ file \subseteq file'
    BY <1>5, AgeKeeps
<1> QED
    BY <1>1, <1>2, <1>3, <1>4, <1>5 DEF FollowerNext, GoroutineStep

-----------------------------------------------------------------------------
(* A follower that has been introduced names an introducer of its cluster, *)
(* restarts under another name included: the cap on the peers of a         *)
(* registry never refuses the first introducer's own record.               *)
THEOREM IntroducerAlwaysNamed == FollowerSpec => []IntroducerNamed
<1>1. FollowerInv => IntroducerNamed
  <2>1. "self" \notin Introducers
      BY FollowerAssumption
  <2> QED
      BY <2>1 DEF FollowerInv, PastIntroducer, Introduced, IntroducerNamed, NamedIntroducers
<1> QED
    BY FollowerStart, FollowerStep, <1>1, PTL DEF FollowerSpec

(* registry.json only ever gains peers, whatever order the two goroutines  *)
(* save in.                                                                *)
THEOREM SnapshotNeverBack == FollowerSpec => SnapshotForward
<1>1. FollowerInv /\ [FollowerNext]_followerVars => [file \subseteq file']_followerVars
    BY FollowerStep
<1> QED
    BY FollowerStart, FollowerStep, <1>1, PTL DEF FollowerSpec, SnapshotForward
=============================================================================
