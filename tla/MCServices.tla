----------------------------- MODULE MCServices -----------------------------
(* The services around the engine, for TLC: one component, chosen in the   *)
(* initial state, moves; the others rest in an initial state of theirs.    *)
EXTENDS RouteProxy, ServerManager, FaultQueues, HealthServer, Readiness,
        HostedServer, Notifiers, Slots

VARIABLE part

allVars == <<part, routeVars, managerVars, queueVars, healthVars, readyVars,
             hostedVars, notifierVars, slotVars>>

AllInit ==
    /\ part \in {"route", "manager", "queues", "health", "ready", "hosted", "alerts", "slots"}
    /\ RouteInit /\ (part # "route" => px[Standby].scheduled)
    /\ QueuesInit /\ (part # "queues" => device = "tumble")
    /\ ManagerInit /\ HealthInit /\ ReadyInit /\ HostedInit /\ NotifierInit /\ SlotsInit

AllNext ==
    /\ UNCHANGED part
    /\ \/ /\ part = "route" /\ RouteNext
          /\ UNCHANGED <<managerVars, queueVars, healthVars, readyVars,
                         hostedVars, notifierVars, slotVars>>
       \/ /\ part = "manager" /\ ManagerNext
          /\ UNCHANGED <<routeVars, queueVars, healthVars, readyVars,
                         hostedVars, notifierVars, slotVars>>
       \/ /\ part = "queues" /\ QueuesNext
          /\ UNCHANGED <<routeVars, managerVars, healthVars, readyVars,
                         hostedVars, notifierVars, slotVars>>
       \/ /\ part = "health" /\ HealthNext
          /\ UNCHANGED <<routeVars, managerVars, queueVars, readyVars,
                         hostedVars, notifierVars, slotVars>>
       \/ /\ part = "ready" /\ ReadyNext
          /\ UNCHANGED <<routeVars, managerVars, queueVars, healthVars,
                         hostedVars, notifierVars, slotVars>>
       \/ /\ part = "hosted" /\ HostedNext
          /\ UNCHANGED <<routeVars, managerVars, queueVars, healthVars,
                         readyVars, notifierVars, slotVars>>
       \/ /\ part = "alerts" /\ NotifierNext
          /\ UNCHANGED <<routeVars, managerVars, queueVars, healthVars,
                         readyVars, hostedVars, slotVars>>
       \/ /\ part = "slots" /\ SlotsNext
          /\ UNCHANGED <<routeVars, managerVars, queueVars, healthVars,
                         readyVars, hostedVars, notifierVars>>

AllSpec == AllInit /\ [][AllNext]_allVars
=============================================================================
