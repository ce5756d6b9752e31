------------------------------ MODULE MCRules ------------------------------
(* The components that are functions of their input, for TLC: one question *)
(* of one of them is asked in the initial state and answered in a step.    *)
EXTENDS ConfigRules, FaultRules, HealthViews, Probers, Discovery, Targets, SafetyGate,
        Credentials, PeerView, OneShot

(* Below, at and above the limits of a port number.                        *)
PortSample == {-1, 0, 1, 100, 200, 65533, 65535, 65536}
(* Below, at and above the cap of every profile.                           *)
WorkerSample == {-1, 0, 1, 2, 3, 5, 9, 2049}
(* None, one the ceiling allows, and one above it.                         *)
GraceSample == {-1, 0, 1, 2}

RulesInit ==
    \/ ConfigAsk \/ VerdictAsk \/ ProfileAsk \/ ViewsAsk \/ ProbeAsk \/ DiscoveryAsk
    \/ TargetsAsk \/ SafetyAsk \/ AuthAsk \/ PeerViewAsk \/ OneShotAsk

RulesNext ==
    \/ ConfigReply \/ VerdictReply \/ ProfileReply
    \/ ViewsReply \/ ProbeReply \/ DiscoveryReply
    \/ TargetsReply \/ SafetyReply \/ AuthReply \/ PeerViewReply \/ OneShotReply

RulesSpec == RulesInit /\ [][RulesNext]_decisionVars
=============================================================================
