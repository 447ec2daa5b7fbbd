--------------------------- MODULE MCGatewayServices ---------------------------
(***************************************************************************)
(* The services around the devices that share no state with each other, in *)
(* one run: the registry of the micro-services, the message bus, the       *)
(* clients of the user interface and the sessions of terminals.  A         *)
(* behaviour is one of the part it starts with.                            *)
(***************************************************************************)
EXTENDS ServiceRegistry, ServiceBus, UiClients, RTTYS

VARIABLE active     \* the part this behaviour exercises

serviceVars == <<active, registryVars, serviceBusVars, uiVars, rttyVars>>

OtherRegistry == UNCHANGED <<active, serviceBusVars, uiVars, rttyVars>>
OtherBus == UNCHANGED <<active, registryVars, uiVars, rttyVars>>
OtherClients == UNCHANGED <<active, registryVars, serviceBusVars, rttyVars>>
OtherTerminals == UNCHANGED <<active, registryVars, serviceBusVars, uiVars>>

InRegistry(A) == active = "registry" /\ A /\ OtherRegistry
InBus(A) == active = "bus" /\ A /\ OtherBus
InClients(A) == active = "clients" /\ A /\ OtherClients
InTerminals(A) == active = "terminals" /\ A /\ OtherTerminals

ServicesInit ==
    /\ active \in {"registry", "bus", "clients", "terminals"}
    /\ RegistryInit /\ ServiceBusInit /\ UiInit /\ RttyInit

ServicesNext ==
    \/ InRegistry(RegistryNext)
    \/ InBus(ServiceBusNext)
    \/ InClients(UiNext)
    \/ InTerminals(RttyNext)

\* What the specification of each part assumes.
ServicesFairness ==
    /\ \A p \in Peer : /\ WF_serviceVars(InRegistry(PeerKeepsAlive(p)))
                       /\ WF_serviceVars(InRegistry(PeerLeaves(p)))
                       /\ WF_serviceVars(InRegistry(BusMessageReceived(p)))
    /\ WF_serviceVars(InRegistry(OwnMessageReceived))
    /\ WF_serviceVars(InRegistry(Tick))
    /\ WF_serviceVars(InBus(StopProducer)) /\ WF_serviceVars(InBus(StopConsumer))
    /\ WF_serviceVars(InBus(Joined))
    /\ WF_serviceVars(InBus(ProducerTakes)) /\ WF_serviceVars(InBus(ProducerSends))
    /\ WF_serviceVars(InBus(CallBack)) /\ WF_serviceVars(InBus(ConsumerEnds))
    /\ WF_serviceVars(InClients(CleanerRuns))
    /\ WF_serviceVars(InTerminals(onTimer))
    /\ \A e \in EndPoint : WF_serviceVars(InTerminals(Age(e)))

ServicesSpec == ServicesInit /\ [][ServicesNext]_serviceVars /\ ServicesFairness

\* What has ended goes away: the threads of a stopped KafkaManager, a browser
\* that was disconnected, a terminal session that never came together.
EverythingEnds == StopReturns /\ EndedClientLeaves /\ StaleSessionLeaves
================================================================================
