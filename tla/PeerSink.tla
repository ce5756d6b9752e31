------------------------------ MODULE PeerSink ------------------------------
(***************************************************************************)
(* internal/federation/status.go: PeerStatusSink.  It writes what peers    *)
(* reported into the local health view as components named after the peer  *)
(* and remembers which peers it has written, to withdraw them later.  Its  *)
(* lock covers the map of owned peers and never the writes to the health   *)
(* view, so two calls of ApplyAll, or an ApplyAll and a Remove, interleave *)
(* between any two of their writes.                                        *)
(*                                                                         *)
(* Of the components of a peer the model keeps the roll-up, which is       *)
(* always the first and whose flag is "ok" or "alert".                     *)
(***************************************************************************)
EXTENDS Naturals

CONSTANTS
    Peers,      \* instance ids that may report
    Callers     \* goroutines that use the sink

NoPeer == "nobody"

ASSUME PeerSinkAssumption == NoPeer \notin Peers

RollUp == {"none", "ok", "alert"}

VARIABLES
    shown,      \* the roll-up component of each peer in the health view
    owned,      \* the peers in p.owned
    task        \* per caller, the rest of its call

sinkVars == <<shown, owned, task>>

(* What is left of a call: the names to withdraw, the peers to render, and *)
(* the peer whose component is set and not recorded in owned yet.          *)
Task == [gone : SUBSET Peers, input : [Peers -> RollUp], cur : Peers \cup {NoPeer}]

Nothing == [p \in Peers |-> "none"]
Rest == [gone |-> {}, input |-> Nothing, cur |-> NoPeer]

Reported(S) == {p \in Peers : S[p] # "none"}

SinkInit ==
    /\ shown = Nothing
    /\ owned = {}
    /\ task = [c \in Callers |-> Rest]

(* Mutant of ApplyBegin: keeps what it owned in the new map but forgets    *)
(* to withdraw.                                                            *)
ApplyDropsPrevious(c, S) ==
    /\ task[c] = Rest
    /\ owned' = {}
    /\ task' = [task EXCEPT ![c] = [gone |-> {}, input |-> S, cur |-> NoPeer]]
    /\ UNCHANGED shown

(* ApplyAll(S): swap p.owned for an empty map; the peers of the old one    *)
(* that are not in S will be withdrawn.                                    *)
ApplyBegin(c, S) ==
    /\ task[c] = Rest
    /\ owned' = {}
    /\ task' = [task EXCEPT ![c] = [gone |-> owned \ Reported(S),
                                    input |-> S, cur |-> NoPeer]]
    /\ UNCHANGED shown

(* Remove(p): what is not owned is not withdrawn.                          *)
RemoveBegin(c, p) ==
    /\ task[c] = Rest
    /\ owned' = owned \ {p}
    /\ task' = [task EXCEPT ![c].gone = owned \cap {p}]
    /\ UNCHANGED shown

Withdraw(c) ==
    \E p \in task[c].gone :
        /\ shown' = [shown EXCEPT ![p] = "none"]
        /\ task' = [task EXCEPT ![c].gone = @ \ {p}]
        /\ UNCHANGED owned

(* render: the health view first, ...                                      *)
Render(c) ==
    /\ task[c].gone = {}
    /\ task[c].cur = NoPeer
    /\ \E p \in Reported(task[c].input) :
        /\ shown' = [shown EXCEPT ![p] = task[c].input[p]]
        /\ task' = [task EXCEPT ![c].cur = p]
        /\ UNCHANGED owned

(* ... then p.owned, which by now may be the map of another call.          *)
Record(c) ==
    /\ task[c].cur # NoPeer
    /\ owned' = owned \cup {task[c].cur}
    /\ task' = [task EXCEPT ![c].input[task[c].cur] = "none", ![c].cur = NoPeer]
    /\ UNCHANGED shown

SinkStep(c) == Withdraw(c) \/ Render(c) \/ Record(c)

SinkNext ==
    \E c \in Callers :
        \/ \E S \in [Peers -> RollUp] : ApplyBegin(c, S)
        \/ \E p \in Peers : RemoveBegin(c, p)
        \/ SinkStep(c)

(* The sink as its callers see it: any calls, in any order, at any time.   *)
SinkSpec == SinkInit /\ [][SinkNext]_sinkVars

-----------------------------------------------------------------------------

SinkTypeOK ==
    /\ shown \in [Peers -> RollUp]
    /\ owned \in SUBSET Peers
    /\ task \in [Callers -> Task]

(* No roll-up is orphaned: one that is shown while no call is under way is *)
(* in p.owned, so that the next ApplyAll without the peer, or its Remove,  *)
(* withdraws it.                                                           *)
RollUpsOwned ==
    (\A c \in Callers : task[c] = Rest) =>
        \A p \in Peers : shown[p] # "none" => p \in owned
=============================================================================
