---------------------------- MODULE HostedServer ----------------------------
(***************************************************************************)
(* internal/hosted/server.go: what its handlers share.  The callers' line  *)
(* (subscribers with a bounded channel each, posts fanned out to them),    *)
(* the ring of recent events, the sessions of the MCP transport, and the   *)
(* start and stop of the server.  net/http runs every handler in a         *)
(* goroutine of its own; its Server is a library.                          *)
(***************************************************************************)
EXTENDS Naturals, Sequences, SequencesExt, FiniteSets

CONSTANTS
    Streams,        \* requests that subscribe to a channel
    Posters,        \* requests that post to it
    Sessions,       \* ids of sessions
    ChannelSize,    \* capacity of a subscriber's channel (16)
    MaxEvents,      \* size of the ring (256)
    MaxPosts        \* bound on the messages

ASSUME HostedAssumption ==
    /\ ChannelSize \in Nat \ {0} /\ MaxEvents \in Nat \ {0} /\ MaxPosts \in Nat
    /\ "end" \notin Streams

VARIABLES
    subs,       \* s.callerSubs of a channel, in the order of subscription
    stream,     \* per stream: its step, its channel, what it was sent
    posted,     \* the number of messages posted; they are numbered
    fan,        \* per poster, its fan-out: the message and the channels left
    ring, told, \* s.events, and history: every event appended
    sessions,   \* s.sessions
    started,    \* s.started
    serving     \* Start: "no", the serve goroutine runs, ctx is done, ended

hostedVars == <<subs, stream, posted, fan, ring, told, sessions, started, serving>>
lineVars == <<subs, stream, posted, fan>>
eventVars == <<ring, told>>
lifeVars == <<started, serving>>

NoFan == [msg |-> 0, left |-> <<>>]
NewStream == [step |-> "new", buffer |-> <<>>, got |-> <<>>]

(* appendEvent: a full ring loses its oldest.                              *)
Appended(events, ev) ==
    IF Len(events) < MaxEvents THEN Append(events, ev) ELSE Append(Tail(events), ev)
AppendEvent(ev) ==
    /\ ring' = Appended(ring, ev)
    /\ told' = Append(told, ev)

(* recentEvents: the last n, all of them when n is zero or too large.      *)
RecentEvents(n) ==
    LET k == IF n = 0 \/ n > Len(ring) THEN Len(ring) ELSE n
    IN  SubSeq(ring, Len(ring) - k + 1, Len(ring))

HostedInit ==
    /\ subs = <<>> /\ stream = [s \in Streams |-> NewStream]
    /\ posted = 0 /\ fan = [q \in Posters |-> NoFan]
    /\ ring = <<>> /\ told = <<>>
    /\ sessions = {}
    /\ started = FALSE /\ serving = "no"
-----------------------------------------------------------------------------
(* callerMu: the fan-outs hold it for reading, so nobody subscribes or     *)
(* leaves during one.                                                      *)
LineFree == \A q \in Posters : fan[q] = NoFan

(* handleCallerSSE: make the channel and subscribe.                        *)
Subscribe(s) ==
    /\ stream[s].step = "new" /\ LineFree
    /\ subs' = Append(subs, s)
    /\ stream' = [stream EXCEPT ![s].step = "open"]
    /\ UNCHANGED <<posted, fan, eventVars, sessions, lifeVars>>

Receive(s) ==
    /\ stream[s].step = "open" /\ stream[s].buffer # <<>>
    /\ stream' = [stream EXCEPT ![s].got = Append(@, Head(stream[s].buffer)),
                                ![s].buffer = Tail(@)]
    /\ UNCHANGED <<subs, posted, fan, eventVars, sessions, lifeVars>>

(* Mutant of Unsubscribe: the list is left alone.                          *)
UnsubscribeLater(s) ==
    /\ stream[s].step = "open"
    /\ stream' = [stream EXCEPT ![s].step = "leaving"]
    /\ UNCHANGED <<subs, posted, fan, eventVars, sessions, lifeVars>>

(* The client is gone: unsubscribe under the lock, ...                     *)
Unsubscribe(s) ==
    /\ stream[s].step = "open" /\ LineFree
    /\ subs' = RemoveFirst(subs, s)
    /\ stream' = [stream EXCEPT ![s].step = "leaving"]
    /\ UNCHANGED <<posted, fan, eventVars, sessions, lifeVars>>

(* ... then close the channel.                                             *)
CloseChannel(s) ==
    /\ stream[s].step = "leaving"
    /\ stream' = [stream EXCEPT ![s].step = "closed"]
    /\ UNCHANGED <<subs, posted, fan, eventVars, sessions, lifeVars>>

(* handleCallerPost: take the list, ...                                    *)
Post(q) ==
    /\ fan[q] = NoFan /\ posted < MaxPosts
    /\ posted' = posted + 1
    /\ fan' = [fan EXCEPT ![q] = [msg |-> posted + 1, left |-> Append(subs, "end")]]
    /\ UNCHANGED <<subs, stream, eventVars, sessions, lifeVars>>

(* ... a send that drops when the subscriber is slow, ...                  *)
Send(q) ==
    /\ fan[q].left # <<>> /\ Head(fan[q].left) # "end"
    /\ LET s == Head(fan[q].left)
       IN  stream' = [stream EXCEPT ![s].buffer =
                         IF Len(@) < ChannelSize THEN Append(@, fan[q].msg) ELSE @]
    /\ fan' = [fan EXCEPT ![q].left = Tail(@)]
    /\ UNCHANGED <<subs, posted, eventVars, sessions, lifeVars>>

(* ... and the event.                                                      *)
PostEnd(q) ==
    /\ fan[q].left # <<>> /\ Head(fan[q].left) = "end"
    /\ fan' = [fan EXCEPT ![q] = NoFan]
    /\ AppendEvent([kind |-> "caller", of |-> fan[q].msg])
    /\ UNCHANGED <<subs, stream, posted, sessions, lifeVars>>

(* handleJSONRPC: initialize opens a session.                              *)
CreateSession(sid) ==
    /\ serving = "serving" /\ sid \notin sessions
    /\ \A i \in DOMAIN told : told[i] # [kind |-> "session", of |-> sid]
    /\ sessions' = sessions \cup {sid}
    /\ AppendEvent([kind |-> "session", of |-> sid])
    /\ UNCHANGED <<lineVars, lifeVars>>

(* DELETE.  The check and the delete are two critical sections; deleting   *)
(* what another request has deleted meanwhile changes nothing, so what the *)
(* sessions go through is this step.                                       *)
EndSession(sid) ==
    /\ sid \in sessions
    /\ sessions' = sessions \ {sid}
    /\ UNCHANGED <<lineVars, eventVars, lifeVars>>

(* Start: once; the serve goroutine, and the wait for ctx.                 *)
Start ==
    /\ ~started /\ serving = "no"
    /\ started' = TRUE /\ serving' = "serving"
    /\ UNCHANGED <<lineVars, eventVars, sessions>>

(* Shutdown, by Start when ctx is done and by the command's defer: the     *)
(* first of them finds started.                                            *)
Shutdown ==
    /\ started
    /\ started' = FALSE
    /\ serving' = "ended"
    /\ UNCHANGED <<lineVars, eventVars, sessions>>

HostedNext ==
    \/ Start \/ Shutdown
    \/ \E q \in Posters : Post(q) \/ Send(q) \/ PostEnd(q)
    \/ \E s \in Streams : Subscribe(s) \/ Receive(s) \/ Unsubscribe(s) \/ CloseChannel(s)
    \/ \E sid \in Sessions : CreateSession(sid) \/ EndSession(sid)

HostedSpec == HostedInit /\ [][HostedNext]_hostedVars
-----------------------------------------------------------------------------
(* No message is ever sent on a closed channel, which would bring the      *)
(* process down: a channel is closed only when no list and no fan-out      *)
(* holds it (handleCallerSSE's defer).                                     *)
NoSendOnClosed ==
    \A q \in Posters : \A i \in DOMAIN fan[q].left :
        fan[q].left[i] # "end" => stream[fan[q].left[i]].step # "closed"

(* A subscriber is handed a message at most once, and its channel never    *)
(* holds more than it can, however many post at a time and however slow it *)
(* is.                                                                     *)
DeliveredOnce ==
    \A s \in Streams : /\ IsInjective(stream[s].got \o stream[s].buffer)
                       /\ Len(stream[s].buffer) <= ChannelSize

(* The ring holds the newest events, in the order they were told.          *)
RingIsRecent ==
    /\ ring = SubSeq(told, Len(told) - Len(ring) + 1, Len(told))
    /\ Len(ring) = IF Len(told) < MaxEvents THEN Len(told) ELSE MaxEvents
    /\ \A n \in 0 .. MaxEvents + 1 : IsSuffix(RecentEvents(n), told)

(* Subscribers that come and go under a fan-out, and events at the ring's  *)
(* limit: no send on a closed channel, no message twice, the newest events *)
(* in order.                                                               *)
FanOutSafe ==
    /\ NoSendOnClosed
    /\ DeliveredOnce
    /\ RingIsRecent
=============================================================================
