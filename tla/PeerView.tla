------------------------------ MODULE PeerView ------------------------------
(***************************************************************************)
(* internal/federation: the rows one peer contributes to the local health  *)
(* view (render and unhealthyFirst, status.go), and who may talk to the    *)
(* introducer (IsLoopbackAddr, RequireSharedSecret, CheckSharedSecret).    *)
(*                                                                         *)
(* A peer reports components, each healthy or not, and targets, each in    *)
(* some state, with a summary that counts the targets by state.            *)
(***************************************************************************)
EXTENDS Decision, FiniteSets, Functions

CONSTANTS
    MaxPeerComponents,  \* maxPeerComponents: rows of one peer
    MaxReported         \* components, and targets, of one report

ASSUME PeerViewAssumption == MaxPeerComponents \in Nat \ {0} /\ MaxReported \in Nat

ReportLists(V) == UNION {[1 .. k -> V] : k \in 0 .. MaxReported}
ReportedStates == {"healthy", "degraded", "unhealthy", "outage", "regression", "unknown"}
RenderInputs ==
    [components : ReportLists(BOOLEAN), targets : ReportLists(ReportedStates), stale : BOOLEAN]

Row(kind, index, healthy) == [kind |-> kind, index |-> index, healthy |-> healthy]
Rows(kind, healthy) == [i \in 1 .. Len(healthy) |-> Row(kind, i, healthy[i])]

(* Mutant of UnhealthyFirst: in the order of the report.                   *)
UnhealthyFirstAsIs(rows) == rows

(* unhealthyFirst: stable.                                                 *)
UnhealthyFirst(rows) ==
    Filter(rows, {r \in Range(rows) : ~r.healthy}) \o Filter(rows, {r \in Range(rows) : r.healthy})

(* The row of a target is healthy in one state only ...                    *)
Sound(targets) == [i \in 1 .. Len(targets) |-> targets[i] = "healthy"]

(* ... and the roll-up unless one is unhealthy or in outage.               *)
Up(targets) == \A i \in 1 .. Len(targets) : targets[i] \notin {"unhealthy", "outage"}
RollUp(targets) == Row("peer", 0, Up(targets))

(* One row after the other while there is room.                            *)
Trimmed(names, rows) ==
    names \o SubSeq(rows, 1, IF Len(names) >= MaxPeerComponents THEN 0
                             ELSE IF Len(rows) <= MaxPeerComponents - Len(names) THEN Len(rows)
                             ELSE MaxPeerComponents - Len(names))

(* Set again, over the roll-up, and past the limit.                        *)
Staleness(names, stale) == IF stale THEN Append(names, Row("peer", 0, FALSE)) ELSE names

(* render: the sink keeps the last row that was set under a name.          *)
Render(r) ==
    Staleness(Trimmed(Trimmed(<<RollUp(r.targets)>>, UnhealthyFirst(Rows("component", r.components))),
                      UnhealthyFirst(Rows("target", Sound(r.targets)))),
              r.stale)

(* -------------------------- authentication ----------------------------- *)
(* An address is written as a URL, as host and port, as a host or not at   *)
(* all; a host is loopback by name, by address, another one, or missing.   *)
Addresses ==
    [form : {"url", "host:port", "host"},
     host : {"localhost", "127.0.0.1", "::1", "10.0.0.5", "0.0.0.0", Blank}]
    \cup [form : {"garbage", Blank}, host : {Blank}]
Secrets == {Blank, "blank", "secret"}
DoorInputs == [addr : Addresses, secret : Secrets, token : {Blank, "blank", "secret", "wrong"}]

(* What cannot be parsed is not loopback.                                  *)
IsLoopbackAddr(a) ==
    a.form \notin {"garbage", Blank} /\ a.host \in {"localhost", "127.0.0.1", "::1"}

RequireSharedSecret(a, secret) == IsLoopbackAddr(a) \/ secret = "secret"

CheckSharedSecret(token, want) == want = Blank \/ token = want

(* Listening is refused without a secret, and then every request is asked  *)
(* for it.                                                                 *)
Door(d) ==
    [listens |-> RequireSharedSecret(d.addr, d.secret),
     admits |-> CheckSharedSecret(d.token, d.secret)]
-----------------------------------------------------------------------------
PeerViewAsk == Ask("render", RenderInputs) \/ Ask("door", DoorInputs)
PeerViewReply == Reply("render", Render(in)) \/ Reply("door", Door(in))
-----------------------------------------------------------------------------
Shown(kind) == {Answer[i].index : i \in {j \in 1 .. Len(Answer) : Answer[j].kind = kind}}

(* Trimming never drops an alert in favour of a healthy row of its kind:   *)
(* once an unhealthy component (or a target that is not healthy) is left   *)
(* out, no healthy one of the peer is shown.                               *)
AlertsOutliveHealthyRows ==
    Answered("render") => \A kind \in {"component", "target"} :
        LET healthy == IF kind = "component" THEN in.components ELSE Sound(in.targets)
        IN  \A i, j \in 1 .. Len(healthy) :
                ~healthy[i] /\ healthy[j] /\ j \in Shown(kind) => i \in Shown(kind)

(* The last word on a peer as a whole is always there, however many rows   *)
(* were trimmed: unhealthy when it is stale or one of its targets is       *)
(* unhealthy or in outage.  Other states leave the peer up, and their      *)
(* targets' own rows tell.  The rows stay within the limit (the stale row  *)
(* replaces the roll-up).                                                  *)
RollUpTellsAll ==
    Answered("render") =>
        LET last == CHOOSE i \in 1 .. Len(Answer) :
                        /\ Answer[i].kind = "peer"
                        /\ \A j \in i + 1 .. Len(Answer) : Answer[j].kind # "peer"
        IN  /\ Answer[last].healthy <=>
                  /\ ~in.stale
                  /\ \A i \in 1 .. Len(in.targets) : in.targets[i] \notin {"unhealthy", "outage"}
            /\ Cardinality({<<Answer[i].kind, Answer[i].index>> : i \in 1 .. Len(Answer)})
                  <= MaxPeerComponents

(* A row under a peer that is up may be a problem: it is one exactly when  *)
(* its component is unhealthy or its target in any state but healthy.      *)
RowsTell ==
    Answered("render") => \A p \in 1 .. Len(Answer) :
        /\ Answer[p].kind = "component" =>
              Answer[p].healthy = in.components[Answer[p].index]
        /\ Answer[p].kind = "target" =>
              Answer[p].healthy = (in.targets[Answer[p].index] = "healthy")

(* An introducer that other hosts can reach admits nobody without the      *)
(* shared secret: an address that cannot be understood fails closed.       *)
ReachableIsGuarded ==
    Answered("door") /\ Answer.listens /\ Answer.admits =>
        \/ in.token = "secret"
        \/ in.addr.host \in {"localhost", "127.0.0.1", "::1"}

(* Refuted, and of no run: unhealthy entries are kept first, across        *)
(* components and targets.                                                 *)
AlertsOutliveAll ==
    Answered("render") /\ (\E j \in 1 .. Len(in.components) :
                              in.components[j] /\ j \in Shown("component"))
        => \A i \in 1 .. Len(in.targets) : ~Sound(in.targets)[i] => i \in Shown("target")

(* Refuted, and of no run: "degraded alone is still up" (status.go:112).   *)
(* So is a peer whose targets have regressed, which the roll-up does not   *)
(* count.                                                                  *)
OnlyDegradedIsUp ==
    Answered("render") /\ Answer[1].healthy =>
        \A i \in 1 .. Len(in.targets) : in.targets[i] \in {"healthy", "degraded"}

(* What a peer reports reaches the view with its alerts first however much *)
(* is cut, never looks fresher than it is, and comes only through a        *)
(* guarded door.                                                           *)
PeerViewTells ==
    /\ AlertsOutliveHealthyRows
    /\ RollUpTellsAll
    /\ RowsTell
    /\ ReachableIsGuarded
=============================================================================
