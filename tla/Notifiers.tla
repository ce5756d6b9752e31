----------------------------- MODULE Notifiers -----------------------------
(***************************************************************************)
(* internal/alerts: the sinks of an alert (notifier.go, config.go).  The   *)
(* engine's workers call Notify of the group, each with an event; every    *)
(* sink filters by severity, remembers when it let a key through, and then *)
(* tells it; the desktop's command is external and may fail.  A sink reads *)
(* the clock before it takes its lock, so the times its callers judge by   *)
(* may come to it out of order.                                            *)
(***************************************************************************)
EXTENDS Integers, Sequences, FiniteSets

CONSTANTS
    Workers,        \* callers of Notify
    Keys,           \* dedupe keys: target, state, class, severity, message
    Loud,           \* the keys whose severity is at least "warn"
    DedupeWindow,   \* the dedupe window
    AlertHorizon    \* bound on the alertClock

ASSUME NotifierAssumption == DedupeWindow \in Nat \ {0} /\ AlertHorizon \in Nat /\ Loud \subseteq Keys

VARIABLES
    alertClock,
    last,       \* per sink and key: when it was let through, 0 before
    call,       \* per worker: the event, the sinks still to call, the time it read
    sent,       \* history: per sink, <<key, time, arrived>> let through
    deaf        \* history: per sink, the last <<key, time>> held back

notifierVars == <<alertClock, last, call, sent, deaf>>

Sinks == {"log", "desktop"}
NoCall == [key |-> "none", left |-> <<>>, now |-> 0]

NotifierInit ==
    /\ alertClock = 1 /\ last = [s \in Sinks |-> [k \in Keys |-> 0]]
    /\ call = [w \in Workers |-> NoCall]
    /\ sent = [s \in Sinks |-> {}] /\ deaf = [s \in Sinks |-> {}]

(* severityAllowed: the log takes "info" and up, the desktop "warn".       *)
SeverityAllowed(s, k) == s = "log" \/ k \in Loud

(* isDeduped, under the sink's lock: an event let through is remembered,   *)
(* and before it is told.                                                  *)
Recent(s, k, now) == last[s][k] > 0 /\ now - last[s][k] < DedupeWindow

(* Mutant of Remembered: the first time only.                              *)
RememberedFirst(s, k, now) ==
    IF last[s][k] = 0 THEN [last EXCEPT ![s][k] = now] ELSE last

Remembered(s, k, now) == IF Recent(s, k, now) THEN last ELSE [last EXCEPT ![s][k] = now]

(* NotifierGroup.Notify: the sinks one after the other.                    *)
NotifyGroup(w, k) ==
    /\ call[w] = NoCall
    /\ call' = [call EXCEPT ![w] = [key |-> k, left |-> <<"log", "desktop">>, now |-> 0]]
    /\ UNCHANGED <<alertClock, last, sent, deaf>>

(* isDeduped reads the clock, and may wait for the lock.                   *)
ReadNow(w) ==
    /\ call[w].left # <<>> /\ call[w].now = 0
    /\ call' = [call EXCEPT ![w].now = alertClock]
    /\ UNCHANGED <<alertClock, last, sent, deaf>>

(* Notify of a sink; an error is collected and the next sink is called.    *)
NotifySink(w) ==
    /\ call[w].left # <<>> /\ call[w].now # 0
    /\ LET s == Head(call[w].left)
           k == call[w].key
           now == call[w].now
       IN  /\ IF ~SeverityAllowed(s, k) THEN UNCHANGED <<last, sent, deaf>>
              ELSE /\ last' = Remembered(s, k, now)
                   /\ IF Recent(s, k, now)
                      THEN deaf' = [deaf EXCEPT ![s] = {<<k, now>>}] /\ UNCHANGED sent
                      ELSE /\ \E ok \in {TRUE} \cup (IF s = "desktop" THEN {FALSE} ELSE {}) :
                                sent' = [sent EXCEPT ![s] = @ \cup {<<k, now, ok>>}]
                           /\ UNCHANGED deaf
           /\ call' = [call EXCEPT ![w] = IF Len(@.left) = 1 THEN NoCall
                                          ELSE [key |-> k, left |-> Tail(@.left), now |-> 0]]
    /\ UNCHANGED alertClock

AlertTick == alertClock < AlertHorizon /\ alertClock' = alertClock + 1 /\ UNCHANGED <<last, call, sent, deaf>>

NotifierNext ==
    \/ AlertTick
    \/ \E w \in Workers : ReadNow(w) \/ NotifySink(w) \/ \E k \in Keys : NotifyGroup(w, k)

NotifierSpec == NotifierInit /\ [][NotifierNext]_notifierVars
-----------------------------------------------------------------------------
(* A sink repeats a key only after the window, whichever of the workers    *)
(* report it at the same time (isDeduped).                                 *)
ToldSpaced ==
    \A s \in Sinks : \A a, b \in sent[s] :
        a[1] = b[1] /\ a # b => a[2] - b[2] >= DedupeWindow \/ b[2] - a[2] >= DedupeWindow

(* A sink is silent only about what it let through less than a window      *)
(* before, or since the caller read the clock: a target that keeps failing *)
(* is told again, it is not silenced for good.                             *)
SilenceIsRecent ==
    \A s \in Sinks : \A d \in deaf[s] :
        \E a \in sent[s] : a[1] = d[1] /\ d[2] - a[2] < DedupeWindow

(* What a sink holds back did arrive: not so for the desktop, where an     *)
(* event is remembered although its command failed.                        *)
SilenceWasDelivered ==
    \A s \in Sinks : \A d \in deaf[s] :
        \E a \in sent[s] : a[1] = d[1] /\ d[2] - a[2] < DedupeWindow /\ a[3]

(* The window holds both ways: nothing is told twice within it, and        *)
(* nothing is held back beyond it.                                         *)
AlertsSpaced ==
    /\ ToldSpaced
    /\ SilenceIsRecent
=============================================================================
