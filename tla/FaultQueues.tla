---------------------------- MODULE FaultQueues ----------------------------
(***************************************************************************)
(* internal/mcp_faults: what a flood of alarms passes through.  The        *)
(* bounded queues (fifo.go, class_queue.go), the rotation chain of an      *)
(* ingress (alarm_tumble.go), the Bloom filter of an epoch's rotations     *)
(* (rotation_filter.go), and the pads and pending requests of the          *)
(* committer (pad_stack.go, verdict.go).  The five share no state; device  *)
(* says which of them a behaviour is about.                                *)
(***************************************************************************)
EXTENDS Naturals, Sequences, SequencesExt, FiniteSets

CONSTANTS
    Capacity,   \* of the queues; NewFIFO makes it at least one
    MaxPushes,  \* bound on the items offered
    Senders,    \* claimants of an ingress
    Tolerance,  \* rotations an isotoped alarm may lag
    FilterBits, \* m
    Probes,     \* k
    RotationIds \* identities of rotations

ASSUME FaultQueuesAssumption ==
    /\ Capacity \in Nat \ {0} /\ MaxPushes \in Nat /\ Tolerance \in Nat
    /\ FilterBits \in Nat \ {0} /\ Probes \in Nat \ {0}

Classes == {"critical", "interactive", "bulk"}
Rank == [critical |-> 0, interactive |-> 1, bulk |-> 2]
Policies == {"DropNewest", "DropOldest"}
Layers == <<"ingress", "backup", "context">>

VARIABLES device, fifo, classed, tumble, filter, flow

queueVars == <<device, fifo, classed, tumble, filter, flow>>

(* FIFO items are numbered as they are offered.                            *)
NewFIFO(policy) == [policy |-> policy, items |-> <<>>, pushed |-> 0, dropped |-> 0,
                    served |-> <<>>, high |-> 0]

(* ClassedFIFO: items are [id, class]; out is the history of Pop.          *)
NewClassedFIFO(protect) ==
    [protect |-> protect, items |-> <<>>, pushed |-> 0, evicted |-> 0,
     dropped |-> [c \in Classes |-> 0], out |-> <<>>]

(* AlarmTumble, and per sender the chain position it holds, the kind of    *)
(* alarm it prepared and how often it was overtaken since.                 *)
NewAlarmTumble == [chain |-> 0, accepted |-> 0, refused |-> 0,
                   held |-> [s \in Senders |-> [ref |-> 0, kind |-> "none", passed |-> 0]],
                   last |-> [ok |-> TRUE, kind |-> "none", passed |-> 0]]

NewFilter(h1, h2) == [bits |-> {}, added |-> {}, h1 |-> h1, h2 |-> h2]

NewFlow == [stack |-> <<>>, pending |-> <<>>, accepted |-> 0, trusted |-> 0,
            untrusted |-> 0]

QueuesInit ==
    /\ device \in {"fifo", "classed", "tumble", "filter", "flow"}
    /\ \E policy \in IF device = "fifo" THEN Policies ELSE {"DropNewest"} :
            fifo = NewFIFO(policy)
    /\ \E protect \in IF device = "classed" THEN BOOLEAN ELSE {TRUE} :
            classed = NewClassedFIFO(protect)
    /\ tumble = NewAlarmTumble
    /\ \E h1, h2 \in IF device = "filter" THEN [RotationIds -> 0 .. FilterBits - 1]
                     ELSE {[r \in RotationIds |-> 0]} :
            filter = NewFilter(h1, h2)
    /\ flow = NewFlow
-----------------------------------------------------------------------------
(* FIFO.Push: a full queue refuses the newest or evicts the head.          *)
Pushed(q) ==
    LET id == q.pushed + 1
        room == Len(q.items) < Capacity
        items == IF room THEN Append(q.items, id)
                 ELSE IF q.policy = "DropOldest" THEN Append(Tail(q.items), id)
                 ELSE q.items
    IN  [q EXCEPT !.pushed = id, !.items = items,
                  !.dropped = IF room THEN @ ELSE @ + 1,
                  !.high = IF Len(items) > @ THEN Len(items) ELSE @]

FifoPush ==
    /\ device = "fifo" /\ fifo.pushed < MaxPushes
    /\ fifo' = Pushed(fifo)
    /\ UNCHANGED <<device, classed, tumble, filter, flow>>

FifoPop ==
    /\ device = "fifo" /\ fifo.items # <<>>
    /\ fifo' = [fifo EXCEPT !.items = Tail(@), !.served = Append(@, Head(fifo.items))]
    /\ UNCHANGED <<device, classed, tumble, filter, flow>>

(* ClassedFIFO.Push: a critical arrival at a full queue displaces the last *)
(* bulk item, if there is one.                                             *)
BulkAt(items) == {i \in DOMAIN items : items[i].class = "bulk"}
LastBulk(items) == CHOOSE i \in BulkAt(items) : \A j \in BulkAt(items) : j <= i
(* Mutant of ClassPushed: looks for a bulk item at the tail only.          *)
ClassPushedTail(q, c) ==
    LET item == [id |-> q.pushed + 1, class |-> c]
        p == [q EXCEPT !.pushed = @ + 1]
    IN  IF Len(q.items) < Capacity THEN [p EXCEPT !.items = Append(@, item)]
        ELSE IF c = "critical" /\ q.protect /\ Last(q.items).class = "bulk"
        THEN [p EXCEPT !.items = Append(Front(@), item), !.evicted = @ + 1]
        ELSE [p EXCEPT !.dropped[c] = @ + 1]

ClassPushed(q, c) ==
    LET item == [id |-> q.pushed + 1, class |-> c]
        p == [q EXCEPT !.pushed = @ + 1]
    IN  IF Len(q.items) < Capacity THEN [p EXCEPT !.items = Append(@, item)]
        ELSE IF c = "critical" /\ q.protect /\ BulkAt(q.items) # {}
        THEN [p EXCEPT !.items = Append(RemoveAt(@, LastBulk(q.items)), item),
                       !.evicted = @ + 1]
        ELSE [p EXCEPT !.dropped[c] = @ + 1]

ClassPush(c) ==
    /\ device = "classed" /\ classed.pushed < MaxPushes
    /\ classed' = ClassPushed(classed, c)
    /\ UNCHANGED <<device, fifo, tumble, filter, flow>>

(* Mutant of Best: the newest of its class.                                *)
BestNewest(items) ==
    CHOOSE i \in DOMAIN items : \A j \in DOMAIN items :
        \/ Rank[items[i].class] < Rank[items[j].class]
        \/ items[i].class = items[j].class /\ j <= i

(* Pop: the first of the most critical class.                              *)
Best(items) ==
    CHOOSE i \in DOMAIN items : \A j \in DOMAIN items :
        \/ Rank[items[i].class] < Rank[items[j].class]
        \/ items[i].class = items[j].class /\ i <= j

ClassPop ==
    /\ device = "classed" /\ classed.items # <<>>
    /\ classed' = [classed EXCEPT !.items = RemoveAt(@, Best(classed.items)),
                                  !.out = Append(@, classed.items[Best(classed.items)])]
    /\ UNCHANGED <<device, fifo, tumble, filter, flow>>

(* A sender reads Chain() and prepares an alarm; others may be quicker.    *)
Prepare(s, kind) ==
    /\ device = "tumble" /\ tumble.held[s].kind = "none"
    /\ tumble.accepted < MaxPushes
    /\ tumble' = [tumble EXCEPT !.held[s] = [ref |-> tumble.chain, kind |-> kind, passed |-> 0]]
    /\ UNCHANGED <<device, fifo, classed, filter, flow>>

(* Offer: an accepted alarm advances the chain, a refused one nothing.     *)
Allowed(kind) == IF kind = "plain" THEN 0 ELSE Tolerance
Accepts(ref, kind) == tumble.chain >= ref /\ tumble.chain - ref <= Allowed(kind)
Offer(s) ==
    /\ device = "tumble" /\ tumble.held[s].kind # "none"
    /\ LET a == tumble.held[s]
           ok == Accepts(a.ref, a.kind)
       IN  tumble' = [tumble EXCEPT
             !.chain = IF ok THEN @ + 1 ELSE @,
             !.accepted = IF ok THEN @ + 1 ELSE @,
             !.refused = IF ok THEN @ ELSE 1,
             !.held = [r \in Senders |->
                  IF r = s THEN [a EXCEPT !.kind = "none"]
                  ELSE IF ok THEN [tumble.held[r] EXCEPT !.passed = @ + 1]
                  ELSE tumble.held[r]],
             !.last = [ok |-> ok, kind |-> a.kind, passed |-> a.passed]]
    /\ UNCHANGED <<device, fifo, classed, filter, flow>>

(* RotationFilter: k probes, an odd step apart.                            *)
ProbesOf(f, id) == {(f.h1[id] + i * (2 * (f.h2[id] \div 2) + 1)) % FilterBits : i \in 0 .. Probes - 1}
Present(f, id) == ProbesOf(f, id) \subseteq f.bits

FilterAdd(id) ==
    /\ device = "filter" /\ id \notin filter.added
    /\ filter' = [filter EXCEPT !.bits = @ \cup ProbesOf(filter, id), !.added = @ \cup {id}]
    /\ UNCHANGED <<device, fifo, classed, tumble, flow>>

(* A request crosses the layers, each pushing its pad on the stack; under  *)
(* pressure the stack stops short (Truncate); the committer accepts it     *)
(* unseen and verifies its queue later.                                    *)
PushPad ==
    /\ device = "flow" /\ Len(flow.stack) < Len(Layers)
    /\ flow' = [flow EXCEPT !.stack =
                   Append(@, [layer |-> Layers[Len(@) + 1], seq |-> Len(@)])]
    /\ UNCHANGED <<device, fifo, classed, tumble, filter>>

Truncate(stack, n) == SubSeq(stack, 1, IF n > Len(stack) THEN Len(stack) ELSE n)

Enqueue(n) ==
    /\ device = "flow" /\ flow.accepted < Capacity /\ flow.stack # <<>>
    /\ flow' = [flow EXCEPT !.pending = Append(@, Truncate(flow.stack, n)),
                            !.accepted = @ + 1, !.stack = <<>>]
    /\ UNCHANGED <<device, fifo, classed, tumble, filter>>

(* Verify: the resolver decides every queued item, and the queue is empty. *)
Verify(good) ==
    /\ device = "flow" /\ flow.pending # <<>> /\ good \subseteq DOMAIN flow.pending
    /\ flow' = [flow EXCEPT !.trusted = @ + Cardinality(good),
                            !.untrusted = @ + Len(flow.pending) - Cardinality(good),
                            !.pending = <<>>]
    /\ UNCHANGED <<device, fifo, classed, tumble, filter>>

QueuesNext ==
    \/ FifoPush \/ FifoPop \/ ClassPop \/ PushPad
    \/ \E c \in Classes : ClassPush(c)
    \/ \E s \in Senders : Offer(s) \/ (\E kind \in {"plain", "isotoped"} : Prepare(s, kind))
    \/ \E id \in RotationIds : FilterAdd(id)
    \/ \E n \in 0 .. Len(Layers) : Enqueue(n)
    \/ \E good \in SUBSET (1 .. Capacity) : Verify(good)

QueuesSpec == QueuesInit /\ [][QueuesNext]_queueVars
-----------------------------------------------------------------------------
(* Every item offered to the queue was served, was counted as dropped or   *)
(* is still there, whichever policy; what is served and what waits is in   *)
(* the order of arrival; and the high mark is within the capacity.         *)
Increasing(s) == \A i, j \in DOMAIN s : i < j => s[i] < s[j]
FifoKeepsCount ==
    /\ fifo.pushed = Len(fifo.served) + fifo.dropped + Len(fifo.items)
    /\ Increasing(fifo.served \o fifo.items)
    /\ Len(fifo.items) <= fifo.high /\ fifo.high <= Capacity

(* The classed queue loses nothing uncounted and serves each class in the  *)
(* order it arrived, although it serves and evicts out of order.           *)
EachInOrder(s) ==
    \A i, j \in DOMAIN s : i < j /\ s[i].class = s[j].class => s[i].id < s[j].id
ClassOrder ==
    /\ classed.pushed = Len(classed.out) + Len(classed.items) + classed.evicted
          + (classed.dropped["critical"] + classed.dropped["interactive"] + classed.dropped["bulk"])
    /\ EachInOrder(classed.out \o classed.items)

(* Under protection a critical alarm is refused only by a queue that holds *)
(* no bulk item.                                                           *)
CriticalProtected ==
    [][classed'.dropped["critical"] > classed.dropped["critical"] /\ classed.protect
          => BulkAt(classed.items) = {} /\ Len(classed.items) = Capacity]_queueVars

(* An alarm is accepted exactly if no more alarms overtook it than its     *)
(* kind tolerates, and every rotation of the chain was an accepted alarm.  *)
TumbleFair ==
    /\ tumble.last.kind # "none"
          => tumble.last.ok = (tumble.last.passed <= Allowed(tumble.last.kind))
    /\ tumble.chain = tumble.accepted

(* A rotation that was added is always present, whatever the hashes.       *)
FilterAdmits == \A id \in filter.added : Present(filter, id)

(* Every pending request carries the bottom of the stack a quiet run gives *)
(* it, and every accepted one is decided once or still unexamined.         *)
PendingWellFormed ==
    /\ \A i \in DOMAIN flow.pending : \A j \in DOMAIN flow.pending[i] :
          flow.pending[i][j] = [layer |-> Layers[j], seq |-> j - 1]
    /\ flow.accepted = flow.trusted + flow.untrusted + Len(flow.pending)

(* At its limit a queue loses nothing uncounted and reorders nothing it    *)
(* should not; the filter denies no member; every verdict is of a request  *)
(* that was accepted.                                                      *)
QueuesSound ==
    /\ FifoKeepsCount
    /\ ClassOrder
    /\ TumbleFair
    /\ FilterAdmits
    /\ PendingWellFormed
=============================================================================
