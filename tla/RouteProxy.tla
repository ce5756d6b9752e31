----------------------------- MODULE RouteProxy -----------------------------
(***************************************************************************)
(* internal/mcp_faults: the tool proxies (tool_proxy.go), the schedule     *)
(* their route prefix is derived from (rotation_schedule.go), the ledger a *)
(* standby takes over and the announcement a mirror verifies               *)
(* (rotation_verify.go), and the counters of a cluster of proxies.         *)
(*                                                                         *)
(* A prefix is a MAC of (nonce, epoch): here the pair of the proxy that    *)
(* holds the nonce and the epoch, so two of them are equal only if both    *)
(* parts are.  A call is a prefix and whether the tool name after it is    *)
(* intact, or one of the three names that carry no prefix of ours.  Every  *)
(* exported method holds the proxy's mutex, so each is one step;           *)
(* AdoptLedger locks two proxies in turn and is two.  What a proxy records *)
(* of a call never changes its route (module ServerManager counts it); a   *)
(* call moves the route as every reader does, and the properties ask for   *)
(* its verdict (Reason) in every state.                                    *)
(***************************************************************************)
EXTENDS Integers, Sequences, FiniteSets, FiniteSetsExt

CONSTANTS
    Proxies,        \* proxies of a tool, replicas of one route
    Standby,        \* the one that takes over ledgers, possibly made by hand
    Skills,         \* names skills are issued to
    Period,         \* ClusterRotationPeriod
    MaxGrace,       \* DefaultGraceWindow, the ceiling of the policy
    Window,         \* RetiredEpochWindow
    RouteHorizon,   \* bound on the clock
    MaxTold,        \* bound on the rotations on instruction
    MaxStamps       \* bound on the stamps a proxy holds when one is issued

ASSUME RouteAssumption ==
    /\ Standby \in Proxies
    /\ Period \in Nat \ {0} /\ MaxGrace \in Nat /\ Window \in Nat \ {0}
    /\ RouteHorizon \in Nat /\ MaxTold \in Nat /\ MaxStamps \in Nat

Skew == 1           \* epochSkewTolerance
Never == -1         \* the zero time

VARIABLES
    clock,      \* the time
    px,         \* the proxies
    moving,     \* a ledger copied from a proxy and not yet adopted
    past        \* history: every prefix left, when it was due and when it was

routeVars == <<clock, px, moving, past>>

PrefixAt(p, e) == [of |-> p, epoch |-> e]

(* NewToolProxy; a proxy made by hand has a prefix and no schedule.  hand  *)
(* is history: the last BurnSkills.                                        *)
NewToolProxy(p, scheduled) ==
    [scheduled |-> scheduled, epoch |-> 0, prefix |-> PrefixAt(p, 0),
     base |-> 0, origin |-> 0, retired |-> <<>>, skills |-> <<>>,
     last |-> Never, hand |-> Never]

(* RouteSchedule.EpochAt and EpochEnd.                                     *)
EpochAt(t) == IF ~t.scheduled \/ clock < t.origin THEN t.base
              ELSE t.base + (clock - t.origin) \div Period
EpochEnd(t) == t.origin + (t.epoch - t.base + 1) * Period

(* EffectiveGrace(GraceWindow): no proxy here claims more than its policy. *)
EffectiveGrace(claimed) ==
    IF claimed <= 0 THEN 0 ELSE IF claimed > MaxGrace THEN MaxGrace ELSE claimed
WithinGrace(at) == clock - at <= EffectiveGrace(MaxGrace)

BurnSkillsAt(skills, at) ==
    [i \in DOMAIN skills |->
        IF skills[i].burned = Never THEN [skills[i] EXCEPT !.burned = at]
        ELSE skills[i]]

(* ensureSchedule: a proxy without one gets a nonce, based at its epoch.   *)
EnsureSchedule(t) ==
    IF t.scheduled THEN t
    ELSE [t EXCEPT !.scheduled = TRUE, !.base = t.epoch, !.origin = clock]

(* rotateTo: burn, retire (the ledger keeps the newest), open, re-base.    *)
RotateTo(p, t0, target, closing) ==
    LET t == EnsureSchedule(t0)
        closedAt == IF closing > clock THEN clock ELSE closing
        ledger == Append(t.retired, [epoch |-> t.epoch, prefix |-> t.prefix,
                                     at |-> closedAt])
    IN  [t EXCEPT !.skills = BurnSkillsAt(@, closedAt),
                  !.retired = IF Len(ledger) > Window
                              THEN SubSeq(ledger, Len(ledger) - Window + 1, Len(ledger))
                              ELSE ledger,
                  !.epoch = target, !.prefix = PrefixAt(p, target),
                  !.last = clock, !.base = target, !.origin = clock]

(* Mutant of SyncEpoch: the closure is dated when it is noticed.           *)
SyncEpochNoticed(p, t) ==
    IF t.scheduled /\ EpochAt(t) > t.epoch
    THEN RotateTo(p, t, EpochAt(t), clock) ELSE t

(* syncEpoch: lazily, when the schedule is ahead of the route.             *)
SyncEpoch(p, t) ==
    IF t.scheduled /\ EpochAt(t) > t.epoch
    THEN RotateTo(p, t, EpochAt(t), EpochEnd(t)) ELSE t

(* Calls: under a prefix of the schedule, with the tool name intact or     *)
(* not; or the bare name, or a name with or without an underscore.         *)
Unprefixed(kind) == [kind |-> kind, prefix |-> PrefixAt("nobody", 0), intact |-> FALSE]
PrefixedCalls ==
    [kind : {"prefixed"}, intact : BOOLEAN,
     prefix : UNION {{PrefixAt(p, e) : e \in 0 .. px[p].epoch + Skew + 1} : p \in Proxies}]
Prefixed(c) == c.kind = "prefixed"

(* attribute: an exact stamp first, else the prefix of the first stamp.    *)
Candidates(t, c) == {i \in DOMAIN t.skills : t.skills[i].prefix = c.prefix}
Attributed(t, c) == Prefixed(c) /\ Candidates(t, c) # {}
Attribute(t, c) == t.skills[Min(Candidates(t, c))]

(* retiredRoute: the newest ledger entry with the prefix.                  *)
RetiredRoutes(t, c) == {i \in DOMAIN t.retired : t.retired[i].prefix = c.prefix}
RetiredRoute(t, c) == t.retired[Max(RetiredRoutes(t, c))]

(* aheadRoute: the epochs just ahead of the route.                         *)
AheadRoute(p, t, c) ==
    t.scheduled /\ \E a \in 1 .. Skew : c.prefix = PrefixAt(p, t.epoch + a)

(* ValidateCall after the epoch is in step: "ok", or the reason.           *)
WithoutPrefix == [bare |-> "direct", guess |-> "fuzz", malformed |-> "other"]
StampVerdict(s, c) ==
    IF s.burned = Never THEN "mismatch"
    ELSE IF c.intact /\ WithinGrace(s.burned) THEN "ok" ELSE "burned"
Reason(p, t, c) ==
    IF c.prefix = t.prefix /\ c.intact THEN "ok"
    ELSE IF ~Prefixed(c) THEN WithoutPrefix[c.kind]
    ELSE IF Attributed(t, c) THEN StampVerdict(Attribute(t, c), c)
    ELSE IF RetiredRoutes(t, c) # {}
    THEN IF c.intact /\ WithinGrace(RetiredRoute(t, c).at) THEN "ok" ELSE "stale"
    ELSE IF AheadRoute(p, t, c) THEN "ahead" ELSE "fuzz"

(* The history of a route: a presented prefix, opened and left.            *)
Presented(p) == {h \in past : h.at = p}
Note(p, before, after, how) ==
    IF before.prefix = after.prefix THEN past
    ELSE past \cup {[prefix |-> before.prefix, at |-> p, how |-> how, left |-> clock,
                     due |-> IF before.scheduled THEN before.origin + Period ELSE clock,
                     rank |-> Cardinality(Presented(p))]}

NoLedger == [phase |-> "none"]

RouteInit ==
    /\ clock = 0
    /\ \E drawn \in SUBSET {Standby} :
            px = [p \in Proxies |-> NewToolProxy(p, p \notin drawn)]
    /\ moving = NoLedger
    /\ past = {}
-----------------------------------------------------------------------------
Tick ==
    /\ clock < RouteHorizon
    /\ clock' = clock + 1
    /\ UNCHANGED <<px, moving, past>>

SetProxy(p, t, how) ==
    /\ px' = [px EXCEPT ![p] = t]
    /\ past' = Note(p, px[p], t, how)

(* Rotate: the route of one node moves on an instruction.                  *)
Rotate(p) ==
    /\ Cardinality({h \in past : h.how = "told"}) < MaxTold
    /\ SetProxy(p, RotateTo(p, px[p], px[p].epoch + 1, clock), "told")
    /\ UNCHANGED <<clock, moving>>

(* IssueSkill: the stamp of the prefix in force.                           *)
IssueSkill(p, n) ==
    LET t == SyncEpoch(p, px[p])
    IN  /\ \A q \in Proxies : Len(px[q].skills) < MaxStamps
        /\ SetProxy(p, [t EXCEPT !.skills =
               Append(@, [name |-> n, prefix |-> t.prefix, epoch |-> t.epoch,
                          burned |-> Never])], "due")
        /\ UNCHANGED <<clock, moving>>

BurnSkills(p) ==
    /\ \E i \in DOMAIN px[p].skills : px[p].skills[i].burned = Never
    /\ SetProxy(p, [px[p] EXCEPT !.skills = BurnSkillsAt(@, clock), !.hand = clock], "due")
    /\ UNCHANGED <<clock, moving>>

(* PrefixedToolName, Key and ValidateCall read through the rotation clock. *)
ReadRoute(p) ==
    /\ SyncEpoch(p, px[p]) # px[p]
    /\ SetProxy(p, SyncEpoch(p, px[p]), "due")
    /\ UNCHANGED <<clock, moving>>

(* AdoptLedger(from): the ledger is copied under from's lock, ...          *)
CopyLedger(from) ==
    /\ moving = NoLedger
    /\ moving' = [phase |-> "copied", skills |-> px[from].skills,
                  last |-> px[from].last]
    /\ UNCHANGED <<clock, px, past>>

Stamps(skills) == {skills[i].prefix : i \in DOMAIN skills}

TakeOn(own, s) == IF s.prefix \in Stamps(own) THEN own ELSE Append(own, s)

(* The loop over the incoming stamps.                                      *)
Adopted(own, incoming) ==
    LET after[i \in 0 .. Len(incoming)] ==
            IF i = 0 THEN own ELSE TakeOn(after[i - 1], incoming[i])
    IN  after[Len(incoming)]

(* ... and taken on under the standby's: stamps it has are kept.           *)
AdoptLedger ==
    /\ moving # NoLedger
    /\ LET t == px[Standby]
       IN  px' = [px EXCEPT ![Standby] =
                  [t EXCEPT !.skills = Adopted(t.skills, moving.skills),
                            !.last = IF moving.last > @ THEN moving.last ELSE @]]
    /\ moving' = NoLedger
    /\ UNCHANGED <<clock, past>>

RouteNext ==
    \/ Tick
    \/ AdoptLedger
    \/ \E p \in Proxies : Rotate(p) \/ BurnSkills(p) \/ ReadRoute(p)
    \/ \E p \in Proxies, n \in Skills : IssueSkill(p, n)
    \/ \E from \in Proxies \ {Standby} : CopyLedger(from)

RouteSpec == RouteInit /\ [][RouteNext]_routeVars
-----------------------------------------------------------------------------
(* The ledger lists closed epochs in the order they closed, none ahead of  *)
(* the clock or of the epoch in force, at most Window of them: a lazy      *)
(* rotation dates a closure at the boundary and not when it was noticed.   *)
LedgerOrdered ==
    \A p \in Proxies : LET r == px[p].retired IN
        /\ Len(r) <= Window
        /\ \A i \in DOMAIN r : r[i].epoch < px[p].epoch /\ r[i].at <= clock
        /\ \A i, j \in DOMAIN r : i < j => r[i].epoch < r[j].epoch /\ r[i].at <= r[j].at

(* What a proxy would answer now to a call, and the prefixes it has left.  *)
Verdict(p, c) == Reason(p, SyncEpoch(p, px[p]), c)
Behind(p) == {h \in Note(p, px[p], SyncEpoch(p, px[p]), "due") : h.at = p}

(* A call under a prefix of the proxy's own is accepted only while that    *)
(* prefix is the route, or at most the cluster's grace after its epoch was *)
(* due to close, or was closed early, however late that was noticed.       *)
AcceptedInGrace ==
    \A p \in Proxies, c \in PrefixedCalls :
        c.prefix.of = p /\ Verdict(p, c) = "ok"
            => \/ c.prefix = SyncEpoch(p, px[p]).prefix
               \/ px[p].hand # Never /\ clock <= px[p].hand + MaxGrace
               \/ \E h \in Behind(p) :
                     /\ h.prefix = c.prefix
                     /\ clock <= (IF h.how = "due" THEN h.due ELSE h.left) + MaxGrace

(* A call under one of the last Window prefixes the proxy left is never    *)
(* booked as a guess, whatever rotations, burns and adoptions came between.*)
StaleIsNotAGuess ==
    \A p \in Proxies, c \in PrefixedCalls : \A h \in Behind(p) :
        h.prefix = c.prefix /\ h.rank >= Cardinality(Behind(p)) - Window
            => Verdict(p, c) # "fuzz"

(* A proxy nobody told to rotate is never ahead of the schedule it was     *)
(* created with, so a holder of it is at worst early.                      *)
Untold(p) == \A h \in Presented(p) : h.how = "due"
NeverAhead ==
    \A p \in Proxies : Untold(p) => SyncEpoch(p, px[p]).epoch <= clock \div Period

(* A holder of the schedule can compute where such a proxy's route is.     *)
ScheduleShared ==
    \A p \in Proxies : Untold(p) /\ px[p].scheduled
        => SyncEpoch(p, px[p]).epoch = clock \div Period

(* What a node announces as its last rotation is a rotation it performed.  *)
AnnouncesItsOwn ==
    \A p \in Proxies : px[p].last # Never => \E h \in Presented(p) : h.left = px[p].last

(* Adopting a ledger twice, or one that holds the adopter's own stamps,    *)
(* never lists a stamp of another proxy twice.                             *)
AdoptedOnce ==
    \A p \in Proxies : \A i, j \in DOMAIN px[p].skills :
        px[p].skills[i].prefix.of # p /\ i # j
            => px[p].skills[i].prefix # px[p].skills[j].prefix

(* Rotations by the clock and by hand, burns, adoptions and calls in any   *)
(* order keep a proxy's books: what it accepts, what it forgives, what it  *)
(* lists and what it adopted.                                              *)
RouteSound ==
    /\ LedgerOrdered
    /\ AcceptedInGrace
    /\ StaleIsNotAGuess
    /\ NeverAhead
    /\ AdoptedOnce
=============================================================================
