------------------------------- MODULE RTTYS -------------------------------
(***************************************************************************)
(* The RTTY server: terminal sessions that join a connection of a device   *)
(* and a WebSocket of a browser.  A REST call creates an end point; device *)
(* and browser arrive in any order, on sockets whose descriptors are       *)
(* reused.  Every handler holds ServerMutex_ throughout, so every handler  *)
(* is one action; reading several messages in one go is the same as        *)
(* reading them one by one, because the data that is passed on in between  *)
(* leaves no trace in the server.                                          *)
(***************************************************************************)
EXTENDS Naturals, FiniteSets

CONSTANTS
    EndPoint,               \* ids of end points, each created at most once
    DeviceSocket,           \* descriptors of device sockets
    ClientSocket,           \* descriptors of browser sockets
    MTLS,                   \* the end points that ask for a certificate
    MaxConcurrentSessions,  \* rtty.maxsessions, 0 for no limit
    NoSocket, NoEndPoint

\* What a WebSocket becomes when it is closed under the client that had it.
Closed == "closed"

ASSUME RttyAssumption ==
    /\ NoSocket \notin DeviceSocket \cup ClientSocket
    /\ Closed \notin ClientSocket /\ Closed # NoSocket
    /\ NoEndPoint \notin EndPoint

VARIABLES
    EndPoints_,   \* ids of the end points that exist
    ep,           \* the end point objects, which may outlive their entry
    Sockets_,     \* device sockets: "none", or "plain" or "valid" by certificate
    Connected_,   \* device socket -> end point it registered for
    RttyClients_, \* browser socket -> end point
    asking,       \* browsers whose id was found valid, not yet a client
    claimed,      \* history: end points whose token came over this socket
    tried         \* history: end points for which a login was sent or failed

rttyVars == <<EndPoints_, ep, Sockets_, Connected_, RttyClients_, asking, claimed, tried>>

NewEndPoint ==
    [used |-> FALSE, DeviceIsAttached_ |-> FALSE, completed_ |-> FALSE, old |-> FALSE,
     Device_fd |-> NoSocket, DeviceSocket_ |-> NoSocket, WSSocket_ |-> NoSocket]

RttyInit ==
    /\ EndPoints_ = {}
    /\ ep = [e \in EndPoint |-> NewEndPoint]
    /\ Sockets_ = [s \in DeviceSocket |-> "none"]
    /\ Connected_ = [s \in DeviceSocket |-> NoEndPoint]
    /\ RttyClients_ = [c \in ClientSocket |-> NoEndPoint]
    /\ asking = {}
    /\ claimed = [s \in DeviceSocket |-> {}]
    /\ tried = {}

\* Somebody holds a shared pointer to the end point.
Referenced(e) ==
    \/ e \in EndPoints_
    \/ \E s \in DeviceSocket : Connected_[s] = e
    \/ \E c \in ClientSocket : RttyClients_[c] = e

\* A descriptor can be given to a new socket: nobody refers to the old one.
FreeDevice(s) ==
    /\ Sockets_[s] = "none"
    /\ \A e \in EndPoint : Referenced(e) => ep[e].DeviceSocket_ # s

FreeClient(c) ==
    \A e \in EndPoint : Referenced(e) => ep[e].WSSocket_ # c

\* Mutant: a browser that has only asked counts as a client.
HasClientMutant(e) == ep[e].WSSocket_ # NoSocket \/ e \in asking

\* The test that the handlers make.  A closed WebSocket passes it too.
HasClient(e) == ep[e].WSSocket_ # NoSocket

----------------------------------------------------------------------------
(* The end of a session. *)

\* RemoveClientEventHandlers, for the clients of E.
WithoutClientsMutant(E) == [c \in ClientSocket |-> RttyClients_[c]]

WithoutClients(E) ==
    [c \in ClientSocket |->
        IF \E e \in E : ep[e].WSSocket_ = c THEN NoEndPoint ELSE RttyClients_[c]]

ClientsClosed(E) ==
    [e \in EndPoint |->
        IF e \in E /\ HasClient(e) THEN [ep[e] EXCEPT !.WSSocket_ = Closed] ELSE ep[e]]

ForgetMutant(S) == Connected_

\* Connected_.erase
Forget(S) == [s \in DeviceSocket |-> IF s \in S THEN NoEndPoint ELSE Connected_[s]]

RemoveSocket(S) == [s \in DeviceSocket |-> IF s \in S THEN "none" ELSE Sockets_[s]]

\* EndConnection(Connection), for one end point or, from the timer, for several.
EndEndPoints(E) ==
    LET fds == {ep[e].Device_fd : e \in E} \ {NoSocket}
    IN  /\ Sockets_' = RemoveSocket(fds)
        /\ Connected_' = Forget(fds)
        /\ RttyClients_' = WithoutClients(E)
        /\ ep' = ClientsClosed(E)
        /\ EndPoints_' = EndPoints_ \ E

\* EndConnection(Socket): the end point is found through Connected_.
EndSocket(s) ==
    LET E == {Connected_[s]} \ {NoEndPoint}
    IN  /\ Sockets_' = RemoveSocket({s})
        /\ Connected_' = Forget({s})
        /\ RttyClients_' = WithoutClients(E)
        /\ ep' = ClientsClosed(E)
        /\ EndPoints_' = EndPoints_ \ E

----------------------------------------------------------------------------
(* The REST call, the browser and the timer. *)

CreateEndPoint(e) ==
    /\ ~ep[e].used
    /\ \/ MaxConcurrentSessions = 0
       \/ Cardinality(EndPoints_) # MaxConcurrentSessions
    /\ EndPoints_' = EndPoints_ \cup {e}
    /\ ep' = [ep EXCEPT ![e] = [NewEndPoint EXCEPT !.used = TRUE]]
    /\ UNCHANGED <<Sockets_, Connected_, RttyClients_, asking, claimed, tried>>

\* handleRequest of a browser: ValidId and CreateWSClient lock separately.
ValidId(e) ==
    /\ e \in EndPoints_
    /\ asking' = asking \cup {e}
    /\ UNCHANGED <<EndPoints_, ep, Sockets_, Connected_, RttyClients_, claimed, tried>>

\* Login: completed_ is set unless the send throws.
Login(e, o, sent) == IF sent THEN [o EXCEPT !.completed_ = TRUE] ELSE o

LoginWaitsMutant(e) == FALSE

\* CreateWSClient finds a device that waits for its client.
LoginWaits(e) ==
    /\ ep[e].DeviceIsAttached_ /\ ~ep[e].completed_
    /\ ep[e].Device_fd # NoSocket /\ Sockets_[ep[e].Device_fd] # "none"

\* The client is refused when the session is gone or has a client already.
CreateWSClientRefused(e) ==
    /\ e \in asking
    /\ e \notin EndPoints_ \/ HasClient(e)
    /\ asking' = asking \ {e}
    /\ UNCHANGED <<EndPoints_, ep, Sockets_, Connected_, RttyClients_, claimed, tried>>

CreateWSClient(e, c) ==
    /\ e \in asking /\ e \in EndPoints_ /\ ~HasClient(e)
    /\ FreeClient(c)
    /\ asking' = asking \ {e}
    /\ RttyClients_' = [RttyClients_ EXCEPT ![c] = e]
    /\ \E sent \in BOOLEAN :
        LET joined == [ep[e] EXCEPT !.WSSocket_ = c]
        IN  ep' = [ep EXCEPT ![e] = IF LoginWaits(e) THEN Login(e, joined, sent) ELSE joined]
    /\ tried' = IF LoginWaits(e) THEN tried \cup {e} ELSE tried
    /\ UNCHANGED <<EndPoints_, Sockets_, Connected_, claimed>>

\* Two minutes pass after the creation of an end point.
Age(e) ==
    /\ e \in EndPoints_ /\ ~ep[e].old
    /\ ep' = [ep EXCEPT ![e].old = TRUE]
    /\ UNCHANGED <<EndPoints_, Sockets_, Connected_, RttyClients_, asking, claimed, tried>>

StaleMutant(e) == ep[e].old /\ ~ep[e].completed_ /\ ~ep[e].DeviceIsAttached_

Stale(e) == ep[e].old /\ ~ep[e].completed_

onTimer ==
    /\ \E e \in EndPoints_ : Stale(e)
    /\ EndEndPoints({e \in EndPoints_ : Stale(e)})
    /\ UNCHANGED <<asking, claimed, tried>>

----------------------------------------------------------------------------
(* The device. *)

\* onDeviceAccept: the handshake needs no lock, only the last step does.
onDeviceAccept(s) ==
    /\ FreeDevice(s)
    /\ \E certificate \in {"plain", "valid"} :
        Sockets_' = [Sockets_ EXCEPT ![s] = certificate]
    /\ claimed' = [claimed EXCEPT ![s] = {}]
    /\ UNCHANGED <<EndPoints_, ep, Connected_, RttyClients_, asking, tried>>

\* do_msgTypeRegister: the checks before the device is let in.  A device that
\* presents no valid token is the case of an e that does not exist.
Accepts(s, e) ==
    /\ e \in EndPoints_
    /\ Sockets_[s] # "none"
    /\ e \in MTLS => Sockets_[s] = "valid"

\* The answer is sent, the device is attached, and logged in if its client waits.
Register(s, e) ==
    /\ Sockets_[s] # "none"
    /\ Accepts(s, e)
    /\ claimed' = [claimed EXCEPT ![s] = @ \cup {e}]
    /\ Connected_' = [Connected_ EXCEPT ![s] = e]
    /\ \E sent \in BOOLEAN :
        LET joined == [ep[e] EXCEPT !.Device_fd = s, !.DeviceIsAttached_ = TRUE,
                                    !.DeviceSocket_ = s]
        IN  ep' = [ep EXCEPT ![e] = IF HasClient(e) THEN Login(e, joined, sent) ELSE joined]
    /\ tried' = IF HasClient(e) THEN tried \cup {e} ELSE tried
    /\ UNCHANGED <<EndPoints_, Sockets_, RttyClients_, asking>>

\* The answer to the registration cannot be sent: Device_fd and Connected_ are
\* set already, and the end of the connection takes the end point with it.
RegisterUnanswered(s, e) ==
    /\ Sockets_[s] # "none"
    /\ Accepts(s, e)
    /\ Sockets_' = RemoveSocket({s})
    /\ Connected_' = Forget({s})
    /\ RttyClients_' = WithoutClients({e})
    /\ ep' = [ClientsClosed({e}) EXCEPT ![e].Device_fd = s]
    /\ EndPoints_' = EndPoints_ \ {e}
    /\ claimed' = [claimed EXCEPT ![s] = @ \cup {e}]
    /\ UNCHANGED <<asking, tried>>

\* do_msgTypeLogin and do_msgTypeTermData go on while the data have a client to
\* go to, do_msgTypeHeartbeat while the device is registered; do_msgTypeLogout and
\* an unknown type end the connection, the other messages are dropped.
do_msgTypeLogin(s) ==
    Connected_[s] # NoEndPoint /\ ep[Connected_[s]].WSSocket_ \in ClientSocket

do_msgTypeTermData(s) ==
    Connected_[s] # NoEndPoint /\ ep[Connected_[s]].WSSocket_ \in ClientSocket

do_msgTypeHeartbeat(s) == Connected_[s] # NoEndPoint

Dropped == {"winsize", "cmd", "file", "http", "ack", "max"}

DeviceMessages == Dropped \cup {"login", "logout", "termdata", "heartbeat", "unknown"}

Understood(s, m) ==
    \/ m \in Dropped
    \/ m = "login" /\ do_msgTypeLogin(s)
    \/ m = "termdata" /\ do_msgTypeTermData(s)
    \/ m = "heartbeat" /\ do_msgTypeHeartbeat(s)

onConnectedDeviceSocketReadable(s, m) ==
    /\ Sockets_[s] # "none"
    /\ IF Understood(s, m) THEN UNCHANGED <<EndPoints_, ep, Sockets_, Connected_, RttyClients_>>
       ELSE EndSocket(s)
    /\ UNCHANGED <<asking, claimed, tried>>

\* No data, an exception, a send that fails, a refused registration; shutdown and error.
DeviceGone(s) ==
    /\ Sockets_[s] # "none"
    /\ EndSocket(s)
    /\ UNCHANGED <<asking, claimed, tried>>

----------------------------------------------------------------------------
(* The browser. *)

\* KeyStrokes and WindowSize need the socket of an attached device.
KeyStrokes(e) == ep[e].DeviceSocket_ # NoSocket
WindowSize(e) == ep[e].DeviceSocket_ # NoSocket

ClientFrames == {"ping", "pong", "winsize", "keys", "close", "empty", "cont", "garbage"}

Forwards(e, m) ==
    \/ m \in {"ping", "pong"}
    \/ m = "keys" /\ KeyStrokes(e)
    \/ m = "winsize" /\ WindowSize(e)

onClientSocketReadable(c, m) ==
    /\ RttyClients_[c] # NoEndPoint
    /\ IF Forwards(RttyClients_[c], m)
       THEN UNCHANGED <<EndPoints_, ep, Sockets_, Connected_, RttyClients_>>
       ELSE EndEndPoints({RttyClients_[c]})
    /\ UNCHANGED <<asking, claimed, tried>>

\* A send that fails, an exception; onClientSocketShutdown, onClientSocketError.
ClientGone(c) ==
    /\ RttyClients_[c] # NoEndPoint
    /\ EndEndPoints({RttyClients_[c]})
    /\ UNCHANGED <<asking, claimed, tried>>

RttyNext ==
    \/ \E e \in EndPoint :
        \/ CreateEndPoint(e) \/ ValidId(e) \/ CreateWSClientRefused(e) \/ Age(e)
        \/ \E c \in ClientSocket : CreateWSClient(e, c)
        \/ \E s \in DeviceSocket : Register(s, e) \/ RegisterUnanswered(s, e)
    \/ \E s \in DeviceSocket :
        \/ onDeviceAccept(s) \/ DeviceGone(s)
        \/ \E m \in DeviceMessages : onConnectedDeviceSocketReadable(s, m)
    \/ \E c \in ClientSocket :
        \/ ClientGone(c)
        \/ \E m \in ClientFrames : onClientSocketReadable(c, m)
    \/ onTimer

RttySpec == RttyInit /\ [][RttyNext]_rttyVars

\* The timer fires and two minutes pass; nobody else owes anything.
RttyFairness == WF_rttyVars(onTimer) /\ \A e \in EndPoint : WF_rttyVars(Age(e))

RttyFairSpec == RttySpec /\ RttyFairness

----------------------------------------------------------------------------
\* A descriptor that a new device reuses inherits no registration: what a socket
\* is connected to (EmptyBuffer sends its data there) and what an end point types
\* into (KeyStrokes) belong to a connection that presented the token itself, with
\* a certificate where the end point asks for one.
SessionIsolation ==
    /\ \A s \in DeviceSocket :
        Connected_[s] # NoEndPoint =>
            /\ Sockets_[s] # "none"
            /\ Connected_[s] \in claimed[s]
            /\ Connected_[s] \in MTLS => Sockets_[s] = "valid"
    /\ \A e \in EndPoint :
        Referenced(e) /\ ep[e].DeviceSocket_ # NoSocket => e \in claimed[ep[e].DeviceSocket_]

\* EndConnection erases the iterator that find(Id_) returns without comparing it
\* with end(): whatever Clients_ refers to must still be in EndPoints_, and a
\* browser socket that was closed must be in no map when its descriptor is reused.
ClientsAreSessions ==
    \A c \in ClientSocket : RttyClients_[c] # NoEndPoint =>
        RttyClients_[c] \in EndPoints_ /\ ep[RttyClients_[c]].WSSocket_ = c

\* onTimer never removes an end point that is completed_: it needs a browser whose
\* departure will remove it, or it would count against rtty.maxsessions for ever.
CompletedHasClient ==
    \A e \in EndPoints_ : ep[e].completed_ => \E c \in ClientSocket : RttyClients_[c] = e

\* Device and browser arrive in any order and one of the two handlers sees both:
\* when both are there, and the socket of the device has served no other session
\* since, a login has been sent to the device.
BothMeansLogin ==
    \A e \in EndPoints_ :
        /\ ep[e].DeviceIsAttached_ /\ HasClient(e)
        /\ Connected_[ep[e].Device_fd] = e
        => e \in tried

\* A session for which device and browser never come together is removed.
StaleSessionLeaves ==
    \A e \in EndPoint : e \in EndPoints_ ~> (e \notin EndPoints_ \/ ep[e].completed_)

\* Device and browser of a session find each other, and nobody else does, in
\* whatever order the two reach RTTYS_server and leave it.
TerminalsMeet ==
    SessionIsolation /\ ClientsAreSessions /\ CompletedHasClient /\ BothMeansLogin
============================================================================
