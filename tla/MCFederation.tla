---------------------------- MODULE MCFederation ----------------------------
(* The two ends of a federation, for TLC: the introducer or a follower,    *)
(* chosen in the initial state, moves; the other rests.  Of the two caps   *)
(* of a follower's cluster one is tight and the other is not, and the      *)
(* introducer that restarts is another instance only where the follower's  *)
(* own registry is the tight one.                                          *)
EXTENDS Introducer, Follower

VARIABLE part

allVars == <<part, vars, followerVars>>

AllInit ==
    /\ part \in {"introducer", "follower"}
    /\ Init
    /\ FollowerInit
    /\ introducer = "i1" /\ seats # peerCap
    /\ part # "follower" => peerCap = 1

AllNext ==
    /\ UNCHANGED part
    /\ \/ part = "introducer" /\ Next /\ UNCHANGED followerVars
       \/ /\ part = "follower" /\ FollowerNext /\ UNCHANGED vars
          /\ peerCap = 1 \/ introducer' = introducer

(* The fairness of the one that moves.                                     *)
AllSpec ==
    /\ AllInit /\ [][AllNext]_allVars
    /\ \/ part = "introducer" /\ Fairness
       \/ part = "follower" /\ FollowerFairness
=============================================================================
