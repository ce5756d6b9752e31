----------------------------- MODULE Introducer -----------------------------
(***************************************************************************)
(* The introducer of a federation: internal/federation/server.go and       *)
(* registry.go, wired by cmd/ocd-smoke-alarm/main.go to the health server  *)
(* through PeerStatusSink and MirrorMember.  Requests of followers are     *)
(* served by concurrent handlers; one goroutine ages out silent peers.     *)
(* Registry, reported statuses, sink and health view each have their own   *)
(* lock, held for one access at a time, so every handler is a sequence of  *)
(* steps the others come between.                                          *)
(*                                                                         *)
(* Followers are the environment: each announces itself, sends heartbeats  *)
(* and reports its status from three loops, so requests of one follower    *)
(* arrive in any order, late, or not at all.  Time is abstract: a member   *)
(* may fall silent whenever no handler is serving it (a handler takes less *)
(* than heartbeat_timeout).  The decoding, method and secret checks, which *)
(* refuse a request before it has any effect, are left out, and so is      *)
(* registry.json, which is written for observers and never read.           *)
(***************************************************************************)
EXTENDS PeerSink, FiniteSets

CONSTANTS
    Loop,       \* the caller of the sink that runs ageOutLoop
    Cluster,    \* the peers whose cluster_id is the introducer's
    MaxPeers    \* RegistryOptions.MaxPeers

ASSUME IntroducerAssumption ==
    /\ Loop \in Callers
    /\ Cluster \subseteq Peers
    /\ MaxPeers \in Nat \ {0}

VARIABLES
    peers,      \* the members, Registry.peers
    fresh,      \* the peers whose LastSeenAt is within heartbeat_timeout
    statuses,   \* the last report of each peer, Server.statuses
    isotopes,   \* the peers with an isotope in the health server
    introduced, \* the followers whose client has had a reply to its introduction
    proc        \* per goroutine, where it is

serverVars == <<peers, fresh, statuses, isotopes, introduced>>
vars == <<serverVars, proc, sinkVars>>

Handlers == Callers \ {Loop}

(* What a goroutine is serving, for which peer, and its next step; for the *)
(* loop also the peers it removed and those of them still to be announced. *)
Waiting == [req |-> "none", pc |-> "idle", peer |-> NoPeer,
            departed |-> {}, left |-> {}, copy |-> Nothing]
Upserts == {"introduction", "heartbeat"}

Proc == [req : {"none", "report"} \cup Upserts,
         pc : {"idle", "notify", "reply", "copy", "apply", "sink", "remove"},
         peer : Peers \cup {NoPeer},
         departed : SUBSET Peers, left : SUBSET Peers, copy : [Peers -> RollUp]]

At(c, pc) == [proc EXCEPT ![c].pc = pc]

Init ==
    /\ SinkInit
    /\ peers = {}
    /\ fresh = {}
    /\ statuses = Nothing
    /\ isotopes = {}
    /\ introduced = {}
    /\ proc = [c \in Callers |-> Waiting]

-----------------------------------------------------------------------------
(* Introductions and heartbeats.  A client sends heartbeats and reports    *)
(* only once an introduction of its has been answered.                     *)

Request(f, kind) == kind = "heartbeat" => f \in introduced

(* Registry.upsertLocked, under its lock.                                  *)
Upsert(h, f, kind) ==
    /\ proc[h] = Waiting
    /\ Request(f, kind)
    /\ f \in peers \/ Cardinality(peers) < MaxPeers
    /\ peers' = peers \cup {f}
    /\ fresh' = fresh \cup {f}
    /\ proc' = [proc EXCEPT ![h] = [Waiting EXCEPT !.req = kind, !.peer = f,
                                                  !.pc = "notify"]]
    /\ UNCHANGED <<statuses, isotopes, introduced, sinkVars>>

(* Beyond the cap there is no event, and the reply is the same.            *)
UpsertRefused(h, f, kind) ==
    /\ proc[h] = Waiting
    /\ Request(f, kind)
    /\ f \notin peers /\ Cardinality(peers) >= MaxPeers
    /\ proc' = [proc EXCEPT ![h] = [Waiting EXCEPT !.req = kind, !.peer = f,
                                                  !.pc = "reply"]]
    /\ UNCHANGED <<serverVars, sinkVars>>

(* The OnChange callback: a same-cluster member gets its isotope.          *)
MirrorMember(h) ==
    /\ proc[h].req \in Upserts
    /\ proc[h].pc = "notify"
    /\ isotopes' = isotopes \cup (Cluster \cap {proc[h].peer})
    /\ proc' = At(h, "reply")
    /\ UNCHANGED <<peers, fresh, statuses, introduced, sinkVars>>

(* The reply reaches the client or is lost.                                *)
Reply(h) ==
    /\ proc[h].pc = "reply"
    /\ \/ UNCHANGED introduced
       \/ /\ proc[h].req = "introduction"
          /\ introduced' = introduced \cup {proc[h].peer}
    /\ proc' = [proc EXCEPT ![h] = Waiting]
    /\ UNCHANGED <<peers, fresh, statuses, isotopes, sinkVars>>

-----------------------------------------------------------------------------
(* Reports.  The handler does not ask whether the peer is a member.        *)

Report(h, f, s) ==
    /\ proc[h] = Waiting
    /\ f \in introduced
    /\ statuses' = [statuses EXCEPT ![f] = s]
    /\ proc' = [proc EXCEPT ![h] = [Waiting EXCEPT !.req = "report", !.peer = f,
                                                  !.pc = "copy"]]
    /\ UNCHANGED <<peers, fresh, isotopes, introduced, sinkVars>>

(* notifyStatus: a copy of the statuses, any of which may by now be older  *)
(* than the status timeout (its time is the reporting peer's) and is then  *)
(* rendered as unhealthy, ...                                              *)
PeerStatuses ==
    {S \in [Peers -> RollUp] :
        \A p \in Peers : \/ S[p] = statuses[p]
                         \/ S[p] = "alert" /\ statuses[p] # "none"}

(* Mutant of CopyStatuses: hands over the reporting peer only.             *)
CopyReporter(c) ==
    /\ proc[c].pc = "copy"
    /\ proc' = [proc EXCEPT ![c] = [@ EXCEPT !.pc = "apply",
                    !.copy = [p \in Peers |->
                        IF p = proc[c].peer THEN statuses[p] ELSE "none"]]]
    /\ UNCHANGED <<serverVars, sinkVars>>

CopyStatuses(c) ==
    /\ proc[c].pc = "copy"
    /\ \E S \in PeerStatuses :
          proc' = [proc EXCEPT ![c] = [@ EXCEPT !.pc = "apply", !.copy = S]]
    /\ UNCHANGED <<serverVars, sinkVars>>

(* ... handed to ApplyAll.                                                 *)
ApplyAll(c) ==
    /\ proc[c].pc = "apply"
    /\ ApplyBegin(c, proc[c].copy)
    /\ proc' = [proc EXCEPT ![c] = [@ EXCEPT !.pc = "sink", !.copy = Nothing]]
    /\ UNCHANGED serverVars

(* The call into the sink has returned, and with it the handler or the     *)
(* round of the loop.                                                      *)
Applied(c) ==
    /\ proc[c].pc = "sink"
    /\ task[c] = Rest
    /\ proc' = [proc EXCEPT ![c] = Waiting]
    /\ UNCHANGED <<serverVars, sinkVars>>

-----------------------------------------------------------------------------
(* ageOutLoop.                                                             *)

(* Mutant of AgeOut: removes without events.                               *)
AgeOutSilently ==
    /\ proc[Loop] = Waiting
    /\ peers \ fresh # {}
    /\ peers' = peers \cap fresh
    /\ proc' = [proc EXCEPT ![Loop] = [@ EXCEPT !.pc = "notify",
                                            !.departed = peers \ fresh]]
    /\ UNCHANGED <<fresh, statuses, isotopes, introduced, sinkVars>>

(* Registry.AgeOut, under its lock.                                        *)
AgeOut ==
    /\ proc[Loop] = Waiting
    /\ peers \ fresh # {}
    /\ peers' = peers \cap fresh
    /\ proc' = [proc EXCEPT ![Loop] = [@ EXCEPT !.pc = "notify",
                                            !.left = peers \ fresh,
                                            !.departed = peers \ fresh]]
    /\ UNCHANGED <<fresh, statuses, isotopes, introduced, sinkVars>>

(* OnChange for each event: PeerStatusSink.Remove, then RemoveIsotope.     *)
NotifyRemoved ==
    /\ proc[Loop].pc = "notify"
    /\ \E p \in proc[Loop].left :
        /\ RemoveBegin(Loop, p)
        /\ proc' = [proc EXCEPT ![Loop] = [@ EXCEPT !.pc = "remove", !.peer = p]]
    /\ UNCHANGED serverVars

RemoveIsotope ==
    /\ proc[Loop].pc = "remove"
    /\ task[Loop] = Rest
    /\ isotopes' = isotopes \ {proc[Loop].peer}
    /\ proc' = [proc EXCEPT ![Loop] = [@ EXCEPT !.pc = "notify", !.peer = NoPeer,
                                            !.left = proc[Loop].left \ {proc[Loop].peer}]]
    /\ UNCHANGED <<peers, fresh, statuses, introduced, sinkVars>>

(* forgetStatuses of the peers of the events.                              *)
ForgetStatuses ==
    /\ proc[Loop].pc = "notify"
    /\ proc[Loop].left = {}
    /\ statuses' = [p \in Peers |-> IF p \in proc[Loop].departed THEN "none"
                                    ELSE statuses[p]]
    /\ proc' = [proc EXCEPT ![Loop] = [@ EXCEPT !.pc = "copy", !.departed = {}]]
    /\ UNCHANGED <<peers, fresh, isotopes, introduced, sinkVars>>

-----------------------------------------------------------------------------
(* Time. *)

Silence(f) ==
    /\ f \in fresh
    /\ ~\E h \in Handlers : proc[h].req \in Upserts /\ proc[h].peer = f
    /\ fresh' = fresh \ {f}
    /\ UNCHANGED <<peers, statuses, isotopes, introduced, proc, sinkVars>>

-----------------------------------------------------------------------------

InSink(c) == SinkStep(c) /\ UNCHANGED <<serverVars, proc>>

(* The steps of a goroutine that is serving a request or ageing peers out. *)
Serve(c) ==
    \/ MirrorMember(c) \/ Reply(c)
    \/ CopyStatuses(c) \/ ApplyAll(c) \/ InSink(c) \/ Applied(c)

LoopStep == AgeOut \/ NotifyRemoved \/ RemoveIsotope \/ ForgetStatuses \/ Serve(Loop)

Next ==
    \/ \E h \in Handlers, f \in Peers :
          \/ \E kind \in Upserts :
                Upsert(h, f, kind) \/ UpsertRefused(h, f, kind)
          \/ \E s \in {"ok", "alert"} : Report(h, f, s)
    \/ \E h \in Handlers : Serve(h)
    \/ LoopStep
    \/ \E f \in Peers : Silence(f)

(* A request that is being served is served to the end, and the ticker of  *)
(* ageOutLoop never stops.                                                 *)
Fairness ==
    /\ WF_vars(LoopStep)
    /\ \A h \in Handlers : WF_vars(Serve(h))

Spec == Init /\ [][Next]_vars /\ Fairness

-----------------------------------------------------------------------------
(* Properties. *)

ServerTypeOK ==
    /\ peers \in SUBSET Peers /\ fresh \in SUBSET peers
    /\ statuses \in [Peers -> RollUp]
    /\ isotopes \in SUBSET Peers
    /\ introduced \in SUBSET Peers
    /\ proc \in [Callers -> Proc]

TypeOK == SinkTypeOK /\ ServerTypeOK

(* An isotope granted for being a member is gone with the membership: the  *)
(* only isotopes of former members are those whose removal the loop has    *)
(* still to announce.                                                      *)
TrustEndsWithMembership == isotopes \subseteq peers \cup proc[Loop].left

(* A same-cluster member that keeps calling keeps its isotope, although    *)
(* the removal of an earlier membership may be announced after its return. *)
Calling(f) == \E h \in Handlers : proc[h].req \in Upserts /\ proc[h].pc = "notify"
                                 /\ proc[h].peer = f

MembersTrusted ==
    \A f \in Cluster :
        <>[](f \in peers) /\ []<>Calling(f) => <>[](f \in isotopes)

(* An alert that a peer keeps reporting is shown for good, whatever older  *)
(* copies of the statuses other handlers and the loop still apply.         *)
Reporting(f) == \E h \in Handlers : proc[h].pc = "copy" /\ proc[h].peer = f

AlertsShown ==
    \A f \in Peers :
        <>[](statuses[f] = "alert") /\ []<>Reporting(f)
            => <>[](shown[f] = "alert")

(* "A departed peer must not keep contributing status": when nothing is    *)
(* being served, only members are shown.                                   *)
DepartedPeersHidden ==
    (\A c \in Callers : proc[c] = Waiting) =>
        \A f \in Peers : shown[f] # "none" => f \in peers

(* Handlers and the loop that cross do no lasting harm: a member that      *)
(* keeps calling ends up trusted, and a reported alert ends up shown.      *)
IntroducerConverges ==
    /\ MembersTrusted
    /\ AlertsShown
=============================================================================
