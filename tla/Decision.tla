------------------------------ MODULE Decision ------------------------------
(***************************************************************************)
(* The frame of the components that are functions of their input: a        *)
(* question on some topic is chosen, and one step answers it.  out is      *)
(* empty until then and holds one answer after.  The modules that extend   *)
(* this one define the inputs of a topic, the function the code computes   *)
(* and what must hold of an input and its answer.                          *)
(***************************************************************************)
EXTENDS Naturals, Sequences

(* A text that is not set.                                                 *)
Blank == ""

VARIABLES topic, in, out

decisionVars == <<topic, in, out>>

Ask(t, Inputs) == topic = t /\ in \in Inputs /\ out = <<>>

(* The step that answers with r; later steps change nothing.               *)
Reply(t, r) ==
    /\ topic = t /\ out = <<>>
    /\ out' = <<r>>
    /\ UNCHANGED <<topic, in>>

Answered(t) == topic = t /\ out # <<>>
Answer == out[1]

(* A loop over a list: step makes the next state of the loop from the      *)
(* current one and the entry.  (FoldLeft of the community modules, as a    *)
(* recursion over positions, which proofs can follow.)                     *)
Loop(step(_, _), base, s) ==
    LET f[i \in 0 .. Len(s)] == IF i = 0 THEN base ELSE step(f[i - 1], s[i])
    IN  f[Len(s)]

(* The loop that appends the entries of s that are in S.                   *)
Filter(s, S) == Loop(LAMBDA done, x : IF x \in S THEN Append(done, x) ELSE done, <<>>, s)
=============================================================================
