---------------------------- MODULE RadiusProxy ----------------------------
(***************************************************************************)
(* RADIUS_proxy_server and RADIUS_Destination: the configuration of the    *)
(* proxy, in memory and on disk, and the connections to the pools.  The    *)
(* server's functions hold Mutex_ from end to end and are one action each, *)
(* joining the threads of the destinations included; the thread of a       *)
(* destination takes its own steps in between.  The process may be killed  *)
(* in the middle of writing the file, and starts again.                    *)
(***************************************************************************)
EXTENDS Naturals, FiniteSets

CONSTANTS
    Ip,                 \* addresses, poolProxyIp
    Config,             \* configurations: sets of pools [ip, type, enabled]
    EnabledByProperty,  \* radius.proxy.enable
    NoFile, TornFile, NoDestination

Types == {"generic", "orion", "globalreach", "radsec"}

\* No two pools of a configuration have the same address.
ASSUME ConfigAssumption ==
    \A C \in Config : /\ C \subseteq [ip: Ip, type: STRING, enabled: BOOLEAN]
                      /\ \A p, q \in C : p.ip = q.ip => p = q

VARIABLES
    up,                    \* the process runs
    file,                  \* radius_pool_config.json
    PoolList_, Pools_,     \* what GetConfig shows; what Continue looks at
    Enabled_, Running_,
    RADIUS_Destinations_,  \* address -> destination
    ioFailed,              \* history: the last write or removal of the file failed
    dangling               \* handlers left in the reactor, of destinations that are gone

prxVars == <<up, file, PoolList_, Pools_, Enabled_, Running_, RADIUS_Destinations_,
             ioFailed, dangling>>

\* thread: asleep for the first five seconds, then in its loop, or in
\* Connect, or dead of an exception in the keep-alive.
Destination == [type: Types, thread: {"asleep", "loop", "connecting", "dead"},
                Connected_: BOOLEAN, once: BOOLEAN]

ASSUME ProxyAssumption ==
    /\ NoFile \notin Config /\ TornFile \notin Config /\ NoFile # TornFile
    /\ NoDestination \notin Destination

NewDestination(type) ==
    [type |-> type, thread |-> "asleep", Connected_ |-> FALSE, once |-> FALSE]

PrxInit ==
    /\ up = FALSE
    /\ file = NoFile
    /\ PoolList_ = {} /\ Pools_ = {}
    /\ Enabled_ = FALSE /\ Running_ = FALSE
    /\ RADIUS_Destinations_ = [a \in Ip |-> NoDestination]
    /\ ioFailed = FALSE
    /\ dangling = {}

----------------------------------------------------------------------------
(* The parts of starting and stopping. *)

Stored(f) == f \notin {NoFile, TornFile}

\* ParseConfig: a file that is missing or bad leaves both lists as they were.
ParsedPoolList(f, list) == IF Stored(f) THEN f ELSE list

\* Mutant: only what GetConfig shows is filled.
ParsedPoolsMutant(f, pools) == pools

ParsedPools(f, pools) == IF Stored(f) THEN f ELSE pools

\* Mutant: a disabled pool is started too.
StartRADIUSDestinationsMutant(list) ==
    [a \in Ip |-> IF \E p \in list : p.ip = a
                  THEN NewDestination((CHOOSE p \in list : p.ip = a).type)
                  ELSE NoDestination]

StartRADIUSDestinations(list) ==
    [a \in Ip |-> IF \E p \in list : p.ip = a /\ p.enabled
                  THEN NewDestination((CHOOSE p \in list : p.ip = a).type)
                  ELSE NoDestination]

NoDestinations == [a \in Ip |-> NoDestination]

\* Start, with a file f and a list of pools in memory; nothing is running.
Start(f, list, pools) ==
    IF ~EnabledByProperty /\ f = NoFile
    THEN /\ Enabled_' = FALSE
         /\ PoolList_' = list /\ Pools_' = pools
         /\ RADIUS_Destinations_' = NoDestinations
         /\ Running_' = Running_
    ELSE /\ Enabled_' = TRUE
         /\ PoolList_' = ParsedPoolList(f, list) /\ Pools_' = ParsedPools(f, pools)
         /\ RADIUS_Destinations_' = StartRADIUSDestinations(ParsedPoolList(f, list))
         /\ Running_' = TRUE

\* Mutant: Stop leaves the sockets alone.
DisconnectedMutant(D) == {}

\* The addresses whose destination Disconnect finds connected, when it is told to stop.
Disconnected(D) == {a \in D : RADIUS_Destinations_[a].Connected_}

Destinations == {a \in Ip : RADIUS_Destinations_[a] # NoDestination}

\* StopRADIUSDestinations: every thread is joined.  A thread that is in
\* Connect completes it first; Stop has by then looked at Connected_ and will
\* not disconnect what Connect has set up.
HandlersAfterStop ==
    LET inConnect == {a \in Destinations : RADIUS_Destinations_[a].thread = "connecting"}
    IN  {dangling \cup (Destinations \ (Disconnected(Destinations) \cup
                            {a \in Destinations : ~RADIUS_Destinations_[a].Connected_}))
                  \cup late : late \in SUBSET inConnect}

----------------------------------------------------------------------------
(* Operations. *)

StartProcess ==
    /\ ~up
    /\ up' = TRUE
    /\ Start(file, {}, {})
    /\ UNCHANGED <<file, ioFailed, dangling>>

\* What DoPut lets through, as far as it matters here.
Acceptable(C) == C # {} /\ \A p \in C : p.type \in Types

\* SetConfig ignores errors of the stream.  A disk that is full leaves a torn file.
SetConfig(C) ==
    /\ up
    /\ Acceptable(C)
    /\ \E f \in {C, TornFile} :
        /\ file' = f
        /\ ioFailed' = (f = TornFile)
        /\ IF Enabled_ /\ Running_ THEN dangling' \in HandlersAfterStop ELSE UNCHANGED dangling
        /\ Start(f, C, {})
    /\ UNCHANGED up

\* DeleteConfig ignores a removal that fails.
DeleteConfig ==
    /\ up
    /\ file' \in {NoFile, file}
    /\ ioFailed' = (file' # NoFile)
    /\ IF Enabled_ /\ Running_
       THEN /\ dangling' \in HandlersAfterStop
            /\ RADIUS_Destinations_' = NoDestinations
       ELSE UNCHANGED <<dangling, RADIUS_Destinations_>>
    /\ Running_' = FALSE
    /\ PoolList_' = {} /\ Pools_' = {}
    /\ UNCHANGED <<up, Enabled_>>

\* The process ends, at any time; in SetConfig the file was already truncated.
Killed ==
    /\ up
    /\ up' = FALSE
    /\ file' \in {file, TornFile}
    /\ ioFailed' = (ioFailed \/ file' = TornFile)
    /\ PoolList_' = {} /\ Pools_' = {}
    /\ Enabled_' = FALSE /\ Running_' = FALSE
    /\ RADIUS_Destinations_' = NoDestinations
    /\ dangling' = {}

----------------------------------------------------------------------------
(* A destination: its thread and its sockets. *)

Dest(a, f, v) == RADIUS_Destinations_' = [RADIUS_Destinations_ EXCEPT ![a] = [@ EXCEPT ![f] = v]]

DestUnchanged == UNCHANGED <<up, file, PoolList_, Pools_, Enabled_, Running_, ioFailed, dangling>>

InThread(a, t) == a \in Destinations /\ RADIUS_Destinations_[a].thread = t

WakeUp(a) ==
    /\ InThread(a, "asleep")
    /\ Dest(a, "thread", "loop")
    /\ DestUnchanged

\* Mutant: the thread connects once.
TriesMutant(d) == ~d.once

\* The loop tries to connect, after its delay.
Tries(d) == ~d.Connected_

BeginConnect(a) ==
    /\ InThread(a, "loop")
    /\ Tries(RADIUS_Destinations_[a])
    /\ Dest(a, "thread", "connecting")
    /\ DestUnchanged

\* Connect_Generic, Connect_Orion and Connect_GlobalReach, when one of the
\* servers accepts.  Connect_Radsec says that it has connected and has not.
ConnectSucceeds(a) ==
    /\ InThread(a, "connecting")
    /\ RADIUS_Destinations_' =
        [RADIUS_Destinations_ EXCEPT ![a] =
            IF @.type = "radsec" THEN [@ EXCEPT !.thread = "loop"]
            ELSE [@ EXCEPT !.thread = "loop", !.Connected_ = TRUE, !.once = TRUE]]
    /\ DestUnchanged

\* The certificate has expired or no server accepts.
ConnectFails(a) ==
    /\ InThread(a, "connecting")
    /\ RADIUS_Destinations_[a].type \in {"orion", "globalreach"}
    /\ Dest(a, "thread", "loop")
    /\ DestUnchanged

\* sendBytes throws in the keep-alive, and nobody catches it.
KeepAliveThrows(a) ==
    /\ InThread(a, "loop")
    /\ RADIUS_Destinations_[a].Connected_
    /\ RADIUS_Destinations_[a].type # "generic"
    /\ Dest(a, "thread", "dead")
    /\ DestUnchanged

\* Mutant: an error of a UDP socket disconnects too.
LosesMutant(d) == d.Connected_

\* Only the TLS connections have handlers that disconnect.
Loses(d) == d.Connected_ /\ d.type # "generic"

\* onError, onShutdown, or onData with a packet it cannot read.
ConnectionLost(a) ==
    /\ a \in Destinations
    /\ Loses(RADIUS_Destinations_[a])
    /\ Dest(a, "Connected_", FALSE)
    /\ DestUnchanged

\* SendRadiusDataAuthData and its like use the UDP sockets unchecked: before
\* the first Connect there is none, and the process ends.
NoSocketYet(a) ==
    /\ Running_ /\ Enabled_ /\ Pools_ # {}
    /\ a \in Destinations
    /\ RADIUS_Destinations_[a].type = "generic"
    /\ ~RADIUS_Destinations_[a].Connected_

PacketBeforeConnect(a) ==
    /\ NoSocketYet(a)
    /\ up' = FALSE
    /\ PoolList_' = {} /\ Pools_' = {}
    /\ Enabled_' = FALSE /\ Running_' = FALSE
    /\ RADIUS_Destinations_' = NoDestinations
    /\ dangling' = {}
    /\ UNCHANGED <<file, ioFailed>>

ThreadSteps(a) == WakeUp(a) \/ BeginConnect(a)

PrxNext ==
    \/ StartProcess
    \/ \E C \in Config : SetConfig(C)
    \/ DeleteConfig
    \/ Killed
    \/ \E a \in Ip :
        \/ WakeUp(a)
        \/ BeginConnect(a)
        \/ ConnectSucceeds(a)
        \/ ConnectFails(a)
        \/ KeepAliveThrows(a)
        \/ ConnectionLost(a)
        \/ PacketBeforeConnect(a)

PrxSpec == PrxInit /\ [][PrxNext]_prxVars

----------------------------------------------------------------------------
(* Properties. *)

PrxTypeOK ==
    /\ up \in BOOLEAN /\ Enabled_ \in BOOLEAN /\ Running_ \in BOOLEAN /\ ioFailed \in BOOLEAN
    /\ file \in Config \cup {NoFile, TornFile}
    /\ PoolList_ \in Config \cup {{}} /\ Pools_ \in Config \cup {{}}
    /\ RADIUS_Destinations_ \in [Ip -> Destination \cup {NoDestination}]
    /\ dangling \subseteq Ip

\* While no access to the file has failed, a restart changes nothing: what is
\* configured and what the destinations serve is what the file says.
RestartChangesNothing ==
    up /\ ~ioFailed =>
        /\ PoolList_ = IF Stored(file) THEN file ELSE {}
        /\ Pools_ = PoolList_
        /\ Destinations = {p.ip : p \in {q \in PoolList_ : q.enabled}}

\* Packets are only passed on for pools that are configured and enabled, even
\* after the file could not be written, read or removed.
ServesOnlyEnabledPools ==
    \A a \in Destinations :
        \E p \in PoolList_ : p.ip = a /\ p.enabled /\ p.type = RADIUS_Destinations_[a].type

\* A UDP socket is missing only before the first Connect of its destination.
NullSocketOnlyAtFirst ==
    \A a \in Ip : NoSocketYet(a) => ~RADIUS_Destinations_[a].once

\* A handler outlives its destination only if the destination was stopped
\* while its thread was in Connect.
StopLeavesNoHandler ==
    [][dangling' \ dangling \subseteq {a \in Ip : InThread(a, "connecting")}]_prxVars

Restarts ==
    StartProcess \/ DeleteConfig \/ Killed \/ (\E C \in Config : SetConfig(C))
        \/ (\E a \in Ip : PacketBeforeConnect(a))

\* A pool that loses its connection is connected again, unless its thread
\* died in the keep-alive or its type is the one that never connects, and
\* as long as the proxy is not started again and again.
Reconnects ==
    \/ []<><<Restarts>>_prxVars
    \/ \A a \in Ip :
        []<>(\/ a \notin Destinations
             \/ RADIUS_Destinations_[a].Connected_
             \/ RADIUS_Destinations_[a].thread = "dead"
             \/ RADIUS_Destinations_[a].type = "radsec")

\* Pools, file and destinations agree, across failures of the file and
\* destinations that stop and start.
PoolsAreServed ==
    ServesOnlyEnabledPools /\ RestartChangesNothing /\ NullSocketOnlyAtFirst

\* A destination is connected again when it loses its connection, and leaves no
\* handler in the reactor when it is stopped.
DestinationsRecover == StopLeavesNoHandler /\ Reconnects
=============================================================================
