--------------------------- MODULE AtomicBaseline ---------------------------
(***************************************************************************)
(* What the known-state store promises a reader of its file, free of how   *)
(* the file is written: observations go to memory, a save replaces what is *)
(* durable by exactly what memory holds in one step, and a restart resumes *)
(* from what is durable.                                                   *)
(***************************************************************************)
EXTENDS Baseline

CONSTANTS Targets, Outcomes

VARIABLES up, memory, durable

vars == <<up, memory, durable>>

NoBaseline == [t \in Targets |-> NoState]

(* durable = <<>> is "nothing saved", <<s>> is "snapshot s saved".         *)
Init ==
    /\ up = FALSE
    /\ memory = NoBaseline
    /\ durable = <<>>

Restart ==
    /\ ~up
    /\ up' = TRUE
    /\ memory' = IF durable = <<>> THEN NoBaseline ELSE durable[1]
    /\ UNCHANGED durable

Record(t, s) ==
    /\ up
    /\ memory' = [memory EXCEPT ![t] = Observe(@, s)]
    /\ UNCHANGED <<up, durable>>

Forget ==
    /\ up
    /\ memory' = NoBaseline
    /\ UNCHANGED <<up, durable>>

Persist ==
    /\ up
    /\ durable' = <<memory>>
    /\ UNCHANGED <<up, memory>>

Erase ==
    /\ up
    /\ durable' = <<>>
    /\ UNCHANGED <<up, memory>>

Die ==
    /\ up
    /\ up' = FALSE
    /\ memory' = NoBaseline
    /\ UNCHANGED durable

Next ==
    \/ Restart
    \/ \E t \in Targets, s \in Outcomes : Record(t, s)
    \/ Forget
    \/ Persist
    \/ Erase
    \/ Die

Spec == Init /\ [][Next]_vars
=============================================================================
