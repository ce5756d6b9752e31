------------------------------ MODULE Follower ------------------------------
(***************************************************************************)
(* A follower of a federation, internal/federation/client.go with its own  *)
(* registry.go.  Two goroutines, runAnnouncements and runHeartbeats, send  *)
(* requests to the introducer and apply the membership each reply carries: *)
(* to the registry, to registry.json and to the health view.  They share   *)
(* all three, and a reply may be applied after a newer one.                *)
(*                                                                         *)
(* The introducer is reduced to what its replies say (Introducer models    *)
(* its handlers): its own record, its members, as many as its cap admits,  *)
(* and the last report of each member, as it would be rendered: fine, or a *)
(* problem, which it also becomes when it outlives PeerStatusTimeout.  The *)
(* entries of the introducer and of the follower itself are rendered like  *)
(* the others and left out.  The introducer may be replaced by another     *)
(* that starts empty; requests and replies may be lost or late and a save  *)
(* may fail, MaxFaults times in all.  Records are their IDs.               *)
(***************************************************************************)
EXTENDS Naturals, FiniteSets

CONSTANTS
    Members,        \* the other followers
    Introducers,    \* the instances that may front the cluster in turn
    MemberCaps,     \* RegistryOptions.MaxPeers
    MaxFaults       \* bound on lost messages, failed saves and restarts

ASSUME FollowerAssumption ==
    /\ "self" \notin Members \cup Introducers
    /\ Members \cap Introducers = {}
    /\ MemberCaps \subseteq Nat \ {0}
    /\ MaxFaults \in Nat

VARIABLES
    introducer, \* the instance that answers at IntroducerURL
    seats,      \* its MaxPeers
    joined,     \* its peers
    status,     \* per member, its last report as the introducer holds it
    peerCap,    \* this follower's MaxPeers
    known,      \* this follower's Registry.peers
    file,       \* the peers registry.json lists
    saver,      \* the goroutine that holds snapshotMu, or "none"
    answered,   \* Client.introduced
    view,       \* per member, its roll-up in this follower's health view
    rounds,     \* per goroutine, its place in a round and what it holds
    faults      \* how many of MaxFaults have happened

clusterVars == <<introducer, seats, joined, status>>
ownVars == <<known, file, saver, answered, view>>
followerVars == <<clusterVars, peerCap, ownVars, rounds, faults>>

Goroutines == {"announce", "heartbeat"}

Statuses == {"none", "fine", "problem"}
NoStatus == [o \in Members |-> "none"]

(* Between two ticks nothing is held: left are the records of the reply    *)
(* still to be upserted, held the statuses it carries, snap the peers      *)
(* about to be written.                                                    *)
Ticking == [pc |-> "wait", left |-> {}, held |-> NoStatus, snap |-> {}]

FollowerInit ==
    /\ introducer \in Introducers
    /\ seats \in MemberCaps
    /\ joined = {} /\ status = NoStatus
    /\ peerCap \in MemberCaps
    /\ known = {} /\ file = {} /\ saver = "none"
    /\ answered = FALSE
    /\ view = NoStatus
    /\ rounds = [g \in Goroutines |-> Ticking]
    /\ faults = 0

-----------------------------------------------------------------------------
(* Requests. *)

(* The introducer's upsertLocked: a new peer beyond the cap is refused.    *)
Full == Cardinality(joined) >= seats
Admitted(peer) ==
    IF peer \notin joined /\ Full THEN joined ELSE joined \cup {peer}

(* A tick: announcements go out whatever became of the last one,           *)
(* heartbeats once an introduction has been answered; a request that is    *)
(* lost on its way changes nothing until the next tick.                    *)
(* Both handlers upsert the caller and reply, whether the cap let it in or *)
(* not, with the introducer's own record, its peers and their statuses.    *)
(* The follower's registry ignores the follower's own record among them.   *)
Membership(g) ==
    /\ rounds[g].pc = "wait"
    /\ g = "heartbeat" => answered
    /\ joined' = Admitted("self")
    /\ rounds' = [rounds EXCEPT ![g] = [@ EXCEPT !.pc = "replied",
                    !.left = {introducer} \cup (joined' \ {"self"}),
                    !.held = status]]
    /\ UNCHANGED <<introducer, seats, status, peerCap, ownVars, faults>>

(* The reply is lost, or comes too late, or does not decode: a warning,    *)
(* and the next tick.                                                      *)
ReplyLost(g) ==
    /\ rounds[g].pc = "replied"
    /\ rounds[g].left \cap Introducers # {}
    /\ faults < MaxFaults
    /\ faults' = faults + 1
    /\ rounds' = [rounds EXCEPT ![g] = Ticking]
    /\ UNCHANGED <<clusterVars, peerCap, ownVars>>

-----------------------------------------------------------------------------
(* applyMembership. *)

(* upsertLocked again: a new record beyond the cap is ignored.             *)
Upserted(peer) ==
    IF peer \notin known /\ Cardinality(known) >= peerCap
    THEN known ELSE known \cup {peer}

(* Mutant of NextRecord: the peers of the reply come first.                *)
NextRecordIntroducerLast(left) ==
    IF left \subseteq Introducers THEN left ELSE left \ Introducers

(* The introducer is upserted before the peers it lists.                   *)
NextRecord(left) ==
    IF left \cap Introducers = {} THEN left ELSE left \cap Introducers

UpsertMember(g) ==
    /\ rounds[g].pc = "replied"
    /\ \E peer \in NextRecord(rounds[g].left) :
        /\ known' = Upserted(peer)
        /\ rounds' = [rounds EXCEPT ![g].left = @ \ {peer}]
    /\ UNCHANGED <<clusterVars, peerCap, file, saver, answered, view, faults>>

(* Mutant of SnapshotTaken: the snapshot is taken before the lock.         *)
SnapshotTakenUnlocked(g) ==
    /\ rounds[g].pc = "replied" /\ rounds[g].left = {}
    /\ rounds' = [rounds EXCEPT ![g] = [@ EXCEPT !.pc = "saving", !.snap = known]]
    /\ UNCHANGED <<clusterVars, peerCap, ownVars, faults>>

(* SaveSnapshot holds snapshotMu from the snapshot ...                     *)
SnapshotTaken(g) ==
    /\ rounds[g].pc = "replied" /\ rounds[g].left = {}
    /\ saver = "none"
    /\ saver' = g
    /\ rounds' = [rounds EXCEPT ![g] = [@ EXCEPT !.pc = "saving", !.snap = known]]
    /\ UNCHANGED <<clusterVars, peerCap, known, file, answered, view, faults>>

(* ... to the rename, and a write that fails leaves the file as it was.    *)
SnapshotRenamed(g) ==
    /\ rounds[g].pc = "saving"
    /\ \/ file' = rounds[g].snap /\ UNCHANGED faults
       \/ faults < MaxFaults /\ faults' = faults + 1 /\ UNCHANGED file
    /\ saver' = "none"
    /\ rounds' = [rounds EXCEPT ![g] = [@ EXCEPT !.pc = "sink", !.snap = {}]]
    /\ UNCHANGED <<clusterVars, peerCap, known, answered, view>>

(* Mutant of MembershipApplied: a reply without statuses has nothing to    *)
(* apply.                                                                  *)
MembershipAppliedAny(g) ==
    /\ rounds[g].pc = "sink"
    /\ view' = IF rounds[g].held = NoStatus THEN view ELSE rounds[g].held
    /\ answered' = (answered \/ g = "announce")
    /\ rounds' = [rounds EXCEPT ![g] = Ticking]
    /\ UNCHANGED <<clusterVars, peerCap, known, file, saver, faults>>

(* ApplyAll: the statuses replace the view of the last reply applied, and  *)
(* a member without one is withdrawn.  The first introduction that gets    *)
(* here makes the follower introduced.                                     *)
MembershipApplied(g) ==
    /\ rounds[g].pc = "sink"
    /\ view' = rounds[g].held
    /\ answered' = (answered \/ g = "announce")
    /\ rounds' = [rounds EXCEPT ![g] = Ticking]
    /\ UNCHANGED <<clusterVars, peerCap, known, file, saver, faults>>

-----------------------------------------------------------------------------
(* The rest of the cluster. *)

Join(o) ==
    /\ joined' = Admitted(o)
    /\ UNCHANGED <<introducer, seats, status, peerCap, ownVars, rounds, faults>>

(* No heartbeat in time: the peer goes, and its status with it.            *)
AgedOut(o) ==
    /\ o \in joined
    /\ joined' = joined \ {o}
    /\ status' = [m \in Members |-> IF m = o THEN "none" ELSE status[m]]
    /\ UNCHANGED <<introducer, seats, peerCap, ownVars, rounds, faults>>

(* handleReport takes a status from anyone, admitted or not.               *)
Reports(o) ==
    /\ \E s \in {"fine", "problem"} : status' = [status EXCEPT ![o] = s]
    /\ UNCHANGED <<introducer, seats, joined, peerCap, ownVars, rounds, faults>>

(* No report in time: the last one has outlived PeerStatusTimeout, and no  *)
(* copy of it is younger.                                                  *)
Stale(s) == IF s = "fine" THEN "problem" ELSE s

ReportAges(o) ==
    /\ status[o] = "fine"
    /\ status' = [status EXCEPT ![o] = Stale(@)]
    /\ rounds' = [g \in Goroutines |-> [rounds[g] EXCEPT !.held[o] = Stale(@)]]
    /\ UNCHANGED <<introducer, seats, joined, peerCap, ownVars, faults>>

(* A reply so late that its reports are old when they are applied.         *)
ReplyAges(g) ==
    /\ rounds[g].pc = "sink"
    /\ faults < MaxFaults
    /\ faults' = faults + 1
    /\ rounds' = [rounds EXCEPT ![g].held = [m \in Members |-> Stale(@[m])]]
    /\ UNCHANGED <<clusterVars, peerCap, ownVars>>

(* A new introducer, the same instance or another, reads nothing back.     *)
IntroducerRestarts ==
    /\ faults < MaxFaults
    /\ faults' = faults + 1
    /\ introducer' \in Introducers
    /\ joined' = {} /\ status' = NoStatus
    /\ UNCHANGED <<seats, peerCap, ownVars, rounds>>

-----------------------------------------------------------------------------

GoroutineStep(g) ==
    \/ Membership(g) \/ ReplyLost(g) \/ UpsertMember(g)
    \/ SnapshotTaken(g) \/ SnapshotRenamed(g) \/ MembershipApplied(g)

FollowerNext ==
    \/ \E g \in Goroutines : GoroutineStep(g) \/ ReplyAges(g)
    \/ \E o \in Members : Join(o) \/ AgedOut(o) \/ Reports(o) \/ ReportAges(o)
    \/ AgedOut("self")
    \/ IntroducerRestarts

(* The tickers never stop, not every request is lost, a reply comes or is  *)
(* given up after the client's timeout, and snapshotMu goes to a goroutine *)
(* that waits.                                                             *)
FollowerFairness ==
    \A g \in Goroutines :
        /\ WF_followerVars(GoroutineStep(g))
        /\ SF_followerVars(SnapshotTaken(g))

FollowerSpec == FollowerInit /\ [][FollowerNext]_followerVars /\ FollowerFairness

-----------------------------------------------------------------------------
(* Properties. *)

(* Registry.Snapshot names one of the peers with that role, the lowest, or *)
(* the follower itself when it knows none.                                 *)
NamedIntroducers ==
    IF known \cap Introducers = {} THEN {"self"} ELSE known \cap Introducers

(* Once a follower is introduced its registry names an introducer of its   *)
(* cluster, and the cap on peers, met by the members of one large reply,   *)
(* cannot crowd it out.  After a restart it may be the one before.         *)
IntroducerNamed == answered => "self" \notin NamedIntroducers

(* registry.json never goes back to an older registry, although two        *)
(* goroutines write it: SaveSnapshot takes the snapshot under the lock.    *)
SnapshotForward == [][file \subseteq file']_followerVars

(* A follower that has been introduced becomes a member again when the     *)
(* introducer has restarted, aged it out or refused it, because it keeps   *)
(* announcing itself, unless it finds the introducer full.                 *)
Rejoins ==
    answered /\ "self" \notin joined ~> "self" \in joined \/ Full

(* What the introducer last holds of a member is what the follower comes   *)
(* to show, unless it keeps changing: alerts and their end, a report that  *)
(* has become old, and the member's departure, whatever older replies are  *)
(* applied in between.                                                     *)
ViewConverges ==
    \A o \in Members : \/ []<><<status'[o] # status[o]>>_followerVars
                       \/ <>[](view[o] = status[o])

(* Lost requests, restarts of the introducer and replies applied out of    *)
(* order do no lasting harm: the follower is a member again, if there is a *)
(* seat, and shows what its cluster last said.                             *)
FollowerConverges ==
    /\ Rejoins
    /\ ViewConverges
=============================================================================
