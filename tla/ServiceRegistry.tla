---------------------------- MODULE ServiceRegistry ----------------------------
(***************************************************************************)
(* The list of micro services a gateway knows (MicroService::Services_),   *)
(* kept from the events on the service bus.                                *)
(*                                                                         *)
(* A peer is a private end point.  It runs as a succession of instances,   *)
(* each with an ID of its own; a new instance may start before the old one *)
(* has posted its LEAVE.  Each peer's events arrive in the order they were *)
(* posted.  Time is counted in periods of the keep-alive timer: an entry   *)
(* older than ZombieAge periods is a zombie.                               *)
(***************************************************************************)
EXTENDS Naturals, Sequences, FiniteSets

CONSTANTS
    Peer,           \* the private end points of the other services
    MaxInstance,    \* bound on the instances that ever start
    MaxWire         \* bound on the events of a peer that are under way

VARIABLES
    up,         \* up[p]: the instance that runs at p, 0 for none
    leaving,    \* leaving[p]: instances at p that have yet to post LEAVE
    started,    \* the number of instances started so far
    wire,       \* wire[p]: the events of p that are under way
    services,   \* Services_[p]: the instance listed at p, 0 for none
    age,        \* age[p]: periods since LastUpdate of p's entry
    departed        \* instances whose LEAVE was received

peerVars == <<up, leaving, started, wire>>
listVars == <<services, age, departed>>
registryVars == <<peerVars, listVars>>

ZombieAge == 2

RegistryInit ==
    /\ up = [p \in Peer |-> 0]
    /\ leaving = [p \in Peer |-> {}]
    /\ started = 0
    /\ wire = [p \in Peer |-> <<>>]
    /\ services = [p \in Peer |-> 0]
    /\ age = [p \in Peer |-> 0]
    /\ departed = {}

----------------------------------------------------------------------------
(* The peers: EventBusManager of another service *)

Room(p) == Len(wire[p]) < MaxWire

\* The event MakeSystemEventMessage builds.
Announce(p, e, i) == wire' = [wire EXCEPT ![p] = Append(@, [event |-> e, id |-> i])]

\* A service starts at p; its event bus posts JOIN first.
PeerStarts(p) ==
    /\ up[p] = 0 /\ started < MaxInstance /\ Room(p)
    /\ started' = started + 1
    /\ up' = [up EXCEPT ![p] = started + 1]
    /\ Announce(p, "JOIN", started + 1)
    /\ UNCHANGED <<leaving, listVars>>

\* Mutant: the bus goes on with its keep-alives while the service stops.
PeerKeepsAliveMutant(p) ==
    /\ Room(p)
    /\ \E i \in ({up[p]} \cup leaving[p] \cup departed) \ {0} :
           Announce(p, "KEEP_ALIVE", i)
    /\ UNCHANGED <<up, leaving, started, listVars>>

PeerKeepsAlive(p) ==
    /\ up[p] # 0 /\ Room(p)
    /\ Announce(p, "KEEP_ALIVE", up[p])
    /\ UNCHANGED <<up, leaving, started, listVars>>

\* A service at p begins to stop; its LEAVE follows.
PeerStops(p) ==
    /\ up[p] # 0
    /\ leaving' = [leaving EXCEPT ![p] = @ \cup {up[p]}]
    /\ up' = [up EXCEPT ![p] = 0]
    /\ UNCHANGED <<started, wire, listVars>>

PeerLeaves(p) ==
    /\ Room(p)
    /\ \E i \in leaving[p] :
        /\ leaving' = [leaving EXCEPT ![p] = @ \ {i}]
        /\ Announce(p, "LEAVE", i)
    /\ UNCHANGED <<up, started, listVars>>

\* A crash posts nothing.
PeerCrashes(p) ==
    /\ up[p] # 0
    /\ up' = [up EXCEPT ![p] = 0]
    /\ UNCHANGED <<leaving, started, wire, listVars>>

----------------------------------------------------------------------------
(* MicroService::BusMessageReceived *)

\* Mutant: the purge compares with the wrong end of the interval.
PurgedMutant(s, a) == s

\* The list without its zombies: the last thing every well-formed event does.
Purged(s, a) == [p \in Peer |-> IF a[p] > ZombieAge THEN 0 ELSE s[p]]

\* Mutant: only JOIN lists a service.
ListedMutant(s, p, e) ==
    CASE e.event = "LEAVE" -> [s EXCEPT ![p] = 0]
      [] e.event = "JOIN" -> [s EXCEPT ![p] = e.id]
      [] OTHER -> s

\* JOIN and KEEP_ALIVE list the sender's instance at its end point; LEAVE
\* removes whatever is listed there.
Listed(s, p, e) == [s EXCEPT ![p] = IF e.event = "LEAVE" THEN 0 ELSE e.id]

BusMessageReceived(p) ==
    /\ wire[p] # <<>>
    /\ LET e == Head(wire[p])
           refreshed == [age EXCEPT ![p] = IF e.event = "LEAVE" THEN @ ELSE 0]
       IN  /\ services' = Purged(Listed(services, p, e), refreshed)
           /\ age' = refreshed
           /\ departed' = IF e.event = "LEAVE" THEN departed \cup {e.id} ELSE departed
    /\ wire' = [wire EXCEPT ![p] = Tail(@)]
    /\ UNCHANGED <<up, leaving, started>>

\* An event of this gateway itself: nothing is listed, zombies go.
OwnMessageReceived ==
    /\ services' = Purged(services, age)
    /\ UNCHANGED <<peerVars, age, departed>>

\* One period of the keep-alive timer.
Tick ==
    /\ age' = [p \in Peer |-> IF age[p] > ZombieAge THEN age[p] ELSE age[p] + 1]
    /\ UNCHANGED <<peerVars, services, departed>>

----------------------------------------------------------------------------
RegistryNext ==
    \/ \E p \in Peer : \/ PeerStarts(p) \/ PeerKeepsAlive(p) \/ PeerStops(p)
                       \/ PeerLeaves(p) \/ PeerCrashes(p)
                       \/ BusMessageReceived(p)
    \/ OwnMessageReceived \/ Tick

RegistrySpec == RegistryInit /\ [][RegistryNext]_registryVars

\* Running services send their keep-alives and stopping ones their LEAVE, the
\* consumer thread receives what arrived, this gateway's own events among
\* them, and time passes.
RegistryFairness ==
    /\ \A p \in Peer : /\ WF_registryVars(PeerKeepsAlive(p))
                       /\ WF_registryVars(PeerLeaves(p))
                       /\ WF_registryVars(BusMessageReceived(p))
    /\ WF_registryVars(OwnMessageReceived)
    /\ WF_registryVars(Tick)

RegistryFairSpec == RegistrySpec /\ RegistryFairness

----------------------------------------------------------------------------
(* Properties *)

\* An instance that has left the system is never listed again: no keep-alive
\* follows its LEAVE.
LeftIsNotListed == \A p \in Peer : services[p] \notin departed

\* A service that has crashed is dropped from the list in the end, whatever
\* it last said.
DeadServiceLeaves ==
    \A p \in Peer : <>[](up[p] = 0) => <>[](services[p] = 0)

\* A running service is listed under its own instance again and again, even
\* when the LEAVE of the instance before it removed its entry.
LiveServiceListed ==
    \A p \in Peer : \A i \in 1..MaxInstance :
        <>[](up[p] = i) => []<>(services[p] = i)

\* The services map of MicroService comes to what the peers are, through lost
\* and late LEAVE messages, and never to one that is gone.
RegistryConverges == []LeftIsNotListed /\ DeadServiceLeaves /\ LiveServiceListed
================================================================================
