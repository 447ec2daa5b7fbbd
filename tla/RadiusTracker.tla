--------------------------- MODULE RadiusTracker ---------------------------
(***************************************************************************)
(* RADIUSSessionTracker: which accounting sessions a device has open.  The *)
(* handler of a device's message forwards the packet to the RADIUS server  *)
(* and queues a copy for the tracker; the end of a connection queues a     *)
(* disconnection, and the tracker's thread then closes every session of    *)
(* the device at the server.  The packets that a device sends keep being   *)
(* handled while another thread ends its connection.  The server's own     *)
(* books (server) are external: it follows the packets it accepts.         *)
(***************************************************************************)
EXTENDS Naturals, Sequences, FiniteSets, SequencesExt

CONSTANTS
    Device,
    Session,         \* accounting session id + multi-session id
    Radsec,          \* the destination's pool is of a RADSEC type, not generic
    MaxConnections,  \* bound: connections that a device makes
    MaxQueue,        \* bound: length of the queue
    NoEntry, NoMessage

ASSUME TrackerAssumption == \A S \in SUBSET Session : S # NoEntry

VARIABLES
    live,                 \* device -> its connections whose end was not yet noticed
    connections,          \* device -> how many connections it has made
    handling,             \* device -> message being handled by its reactor thread
    SessionMessageQueue_,
    AccountingSessions_,  \* device -> its sessions; NoEntry if it is not a key
    aged,                 \* device -> sessions without a transaction for SessionTimeout_
    route,                \* what the proxy does with a packet, see Routes
    server,               \* external: device -> sessions open at the RADIUS server
    unclosed              \* history: sessions that were let go without a stop

trkVars == <<live, connections, handling, SessionMessageQueue_, AccountingSessions_,
             aged, route, server, unclosed>>

\* Neither the tracker nor the server tells an interim update from a start.
Statuses == {"start", "stop"}

\* "off": the proxy is not running.  "unknown": no destination has the address.
\* "down": the destination's RADSEC connection is down.
Routes == {"off", "unknown", "up"} \cup (IF Radsec THEN {"down"} ELSE {})

Sessions(d) == IF AccountingSessions_[d] = NoEntry THEN {} ELSE AccountingSessions_[d]

TrkInit ==
    /\ live = [d \in Device |-> {}]
    /\ connections = [d \in Device |-> 0]
    /\ handling = [d \in Device |-> NoMessage]
    /\ SessionMessageQueue_ = <<>>
    /\ AccountingSessions_ = [d \in Device |-> NoEntry]
    /\ aged = [d \in Device |-> {}]
    /\ route = "up"
    /\ server = [d \in Device |-> {}]
    /\ unclosed = [d \in Device |-> {}]

Queue(n) == SessionMessageQueue_' = Append(SessionMessageQueue_, n)

----------------------------------------------------------------------------
(* The device. *)

Connect(d) ==
    /\ connections[d] < MaxConnections
    /\ connections' = [connections EXCEPT ![d] = @ + 1]
    /\ live' = [live EXCEPT ![d] = @ \cup {connections[d] + 1}]
    /\ UNCHANGED <<handling, SessionMessageQueue_, AccountingSessions_, aged, route,
                   server, unclosed>>

\* ProcessIncomingRadiusData, for accounting, is entered ...
Receive(d, s, type) ==
    /\ live[d] # {}
    /\ handling[d] = NoMessage
    /\ handling' = [handling EXCEPT ![d] = [s |-> s, type |-> type]]
    /\ UNCHANGED <<live, connections, SessionMessageQueue_, AccountingSessions_, aged,
                   route, server, unclosed>>

\* The RADIUS server accepts a packet.
Accepted(d, s, type) ==
    IF type = "stop" THEN server[d] \ {s} ELSE server[d] \cup {s}

\* ... and SendAccountingData is made to the end: without a destination, or
\* with one that is down, the tracker is told nevertheless.
SendAccountingData(d) ==
    /\ handling[d] # NoMessage
    /\ Len(SessionMessageQueue_) < MaxQueue
    /\ LET m == handling[d]
       IN  /\ IF route = "off" THEN UNCHANGED SessionMessageQueue_
              ELSE Queue([kind |-> "acct", d |-> d, s |-> m.s, type |-> m.type])
           /\ server' = IF route = "up" THEN [server EXCEPT ![d] = Accepted(d, m.s, m.type)]
                        ELSE server
           /\ unclosed' =
                [unclosed EXCEPT ![d] = CASE route = "up" -> @ \ {m.s}
                                          [] route # "up" /\ m.type = "stop" -> @ \cup {m.s}
                                          [] OTHER -> @]
    /\ handling' = [handling EXCEPT ![d] = NoMessage]
    /\ UNCHANGED <<live, connections, AccountingSessions_, aged, route>>

\* DeviceDisconnectionCleanup.  A device that has connected again has two
\* connections, and either may end first.
DeviceDisconnect(d) ==
    /\ Len(SessionMessageQueue_) < MaxQueue
    /\ \E c \in live[d] : live' = [live EXCEPT ![d] = @ \ {c}]
    /\ Queue([kind |-> "disc", d |-> d])
    /\ UNCHANGED <<connections, handling, AccountingSessions_, aged, route, server, unclosed>>

----------------------------------------------------------------------------
(* The tracker's thread. *)

Next_(kind) ==
    /\ SessionMessageQueue_ # <<>>
    /\ Head(SessionMessageQueue_).kind = kind
    /\ SessionMessageQueue_' = Tail(SessionMessageQueue_)

\* A stop removes the session it knows.
Stopped(m) == Sessions(m.d) \ {m.s}

ProcessAccountingSession ==
    /\ Next_("acct")
    /\ LET m == Head(SessionMessageQueue_)
       IN  /\ AccountingSessions_' =
                [AccountingSessions_ EXCEPT ![m.d] =
                    IF m.type = "stop" THEN Stopped(m) ELSE Sessions(m.d) \cup {m.s}]
           /\ aged' = [aged EXCEPT ![m.d] = @ \ {m.s}]
    /\ UNCHANGED <<live, connections, handling, route, server, unclosed>>

\* Mutant: the table is cleared and no stop sent.
CloseMutant(d) == {}

\* The sessions for which a stop is sent, from the last packet of each.
Close(d) == Sessions(d)

\* RouteAndSendAccountingPacket for a stop that the tracker made: the
\* authenticator is only computed again for a RADSEC destination, so another
\* server finds the one of the packet that the stop was made from.
Closes(d) == IF route = "up" /\ Radsec THEN Close(d) ELSE {}

DisconnectSession ==
    /\ Next_("disc")
    /\ LET d == Head(SessionMessageQueue_).d
       IN  /\ server' = [server EXCEPT ![d] = @ \ Closes(d)]
           /\ unclosed' = [unclosed EXCEPT ![d] = IF route = "up" /\ Radsec THEN @
                                                   ELSE @ \cup Sessions(d)]
           /\ AccountingSessions_' = [AccountingSessions_ EXCEPT ![d] = NoEntry]
           /\ aged' = [aged EXCEPT ![d] = {}]
    /\ UNCHANGED <<live, connections, handling, route>>

----------------------------------------------------------------------------
(* Time and the rest of the system. *)

Age(d) ==
    /\ \E s \in Sessions(d) \ aged[d] : aged' = [aged EXCEPT ![d] = @ \cup {s}]
    /\ UNCHANGED <<live, connections, handling, SessionMessageQueue_,
                   AccountingSessions_, route, server, unclosed>>

\* Mutant: a device whose last session timed out keeps its empty entry.
CollectedMutant(d) ==
    IF AccountingSessions_[d] = NoEntry THEN NoEntry ELSE Sessions(d) \ aged[d]

\* What is left of a device's entry.
Collected(d) ==
    IF Sessions(d) \subseteq aged[d] THEN NoEntry ELSE Sessions(d) \ aged[d]

\* No stop is sent for a session that has timed out.
GarbageCollection ==
    /\ \E d \in Device : aged[d] # {} \/ AccountingSessions_[d] = {}
    /\ AccountingSessions_' = [d \in Device |-> Collected(d)]
    /\ aged' = [d \in Device |-> {}]
    /\ unclosed' = [d \in Device |-> unclosed[d] \cup aged[d]]
    /\ UNCHANGED <<live, connections, handling, SessionMessageQueue_, route, server>>

\* The proxy is configured, or a destination connects or disconnects.
RouteChanges ==
    /\ route' \in Routes \ {route}
    /\ UNCHANGED <<live, connections, handling, SessionMessageQueue_,
                   AccountingSessions_, aged, server, unclosed>>

TrkNext ==
    \/ \E d \in Device :
        \/ Connect(d)
        \/ \E s \in Session, type \in Statuses : Receive(d, s, type)
        \/ SendAccountingData(d)
        \/ DeviceDisconnect(d)
        \/ Age(d)
    \/ ProcessAccountingSession
    \/ DisconnectSession
    \/ GarbageCollection
    \/ RouteChanges

TrkSpec == TrkInit /\ [][TrkNext]_trkVars

\* The tracker's thread runs, and the timer fires.
TrackerSteps == ProcessAccountingSession \/ DisconnectSession

----------------------------------------------------------------------------
(* Properties. *)

TrkTypeOK ==
    /\ connections \in [Device -> 0..MaxConnections]
    /\ live \in [Device -> SUBSET (1..MaxConnections)]
    /\ handling \in [Device -> {NoMessage} \cup [s: Session, type: Statuses]]
    /\ \A i \in 1..Len(SessionMessageQueue_) :
        SessionMessageQueue_[i] \in [kind: {"acct"}, d: Device, s: Session, type: Statuses]
                                    \cup [kind: {"disc"}, d: Device]
    /\ AccountingSessions_ \in [Device -> {NoEntry} \cup SUBSET Session]
    /\ \A d \in Device : aged[d] \subseteq Sessions(d)
    /\ route \in Routes
    /\ server \in [Device -> SUBSET Session]
    /\ unclosed \in [Device -> SUBSET Session]

\* A packet for the session waits in the queue that will put it in the table.
Coming(d, s) ==
    \E i \in 1..Len(SessionMessageQueue_) :
        LET m == SessionMessageQueue_[i]
        IN  m.kind = "acct" /\ m.d = d /\ m.s = s /\ m.type # "stop"

\* The gateway never loses sight of a session that is open at the server:
\* it knows it or is about to learn of it, unless the session timed out or its
\* stop could not be delivered.  Packets of the device, the end of its
\* connection and the tracker's thread are in any order.
OpenIsTracked ==
    \A d \in Device : \A s \in server[d] \ unclosed[d] : s \in Sessions(d) \/ Coming(d, s)

\* A device that has left for good leaves no session behind: what arrives
\* after its last disconnection is collected.
LeavesNothing ==
    \A d \in Device :
        [](live[d] = {} /\ handling[d] = NoMessage /\ connections[d] = MaxConnections
            => <>(AccountingSessions_[d] = NoEntry))
=============================================================================
