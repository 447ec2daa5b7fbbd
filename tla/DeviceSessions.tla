--------------------------- MODULE DeviceSessions ---------------------------
(***************************************************************************)
(* The life of a device connection in the gateway: AP_WS_Server (the map   *)
(* of sessions that have not identified themselves, the map of devices by  *)
(* serial number, the cleanup queue and its thread, the garbage collector) *)
(* and AP_WS_Connection (creation, validation, the connect message, the    *)
(* end of the connection, the destructor).                                 *)
(*                                                                         *)
(* The actors are the HTTP server threads that accept an upgrade, the      *)
(* reactor thread that runs a connection's handlers, the cleanup thread,   *)
(* the garbage collector and the REST threads that disconnect a device.    *)
(* Every critical section of the code (one map, one lock) is one action;   *)
(* StartSession, EndSession and Disconnect use two locks one after the     *)
(* other and are two actions or more.                                      *)
(*                                                                         *)
(* A connection is owned by shared pointers: the two maps, the local       *)
(* variables of the function that is creating, moving or disconnecting it. *)
(* Its destructor runs in the thread that drops the last one.  The event   *)
(* handlers own no pointer, the destructor waits for a running handler     *)
(* through ConnectionMutex_.                                               *)
(***************************************************************************)
EXTENDS Integers, Sequences, FiniteSets

CONSTANTS
    Conn,        \* the connections that upgrade requests may create
    Serial,      \* device serial numbers (SerialNumberInt_, never 0)
    NoSerial,    \* SerialNumberInt_ = 0: nothing is known of the device yet
    NoConn,      \* the null pointer
    GCBacklog    \* bound: the garbage collector leaves a longer queue alone

ASSUME SessionAssumption ==
    /\ NoSerial \notin Serial
    /\ NoConn \notin Conn
    /\ GCBacklog \in Nat

VARIABLES
    session_id_,       \* counter of the request handler factory
    stage,             \* how far handleRequest has come for the connection
    sessionId,         \* State_.sessionId
    Sessions_,         \* connections in Sessions_; the key is the sessionId
    SerialNumbers_,    \* serial number -> connection
    CleanupSessions_,  \* queue of [session, serial]
    cleanup,           \* the entry that the cleanup thread works on
    cleanupPc,         \* which lock its EndSession takes next
    serial,            \* SerialNumberInt_
    DeviceValidated_,
    Dead_,
    Connected,         \* State_.Connected
    handler,           \* what the reactor thread is doing for the connection
    moving,            \* the local pointer of the StartSession in progress
    disconnecting,     \* what the Disconnect that holds the connection does
    gone,              \* destroyed
    NumberOfConnectedDevices_,
    announced,         \* a connection message went out with this uuid_
    retired,           \* number of disconnection messages with this uuid_
    doomed             \* history: some actor decided that it must end

ownerVars   == <<stage, Sessions_, SerialNumbers_, moving, disconnecting>>
deathVars   == <<gone, Dead_, retired, CleanupSessions_,
                 NumberOfConnectedDevices_>>
cleanupVars == <<cleanup, cleanupPc>>
deviceVars  == <<serial, DeviceValidated_, Connected, announced>>
idVars      == <<session_id_, sessionId>>
vars == <<ownerVars, deathVars, cleanupVars, deviceVars, idVars,
          handler, doomed>>

Stage   == {"absent", "counted", "built", "added", "open"}
Entry   == [session : Nat, serial : Serial \cup {NoSerial}]

NoEntry == [session |-> 0, serial |-> NoSerial]

Built(c) == stage[c] \in {"built", "added", "open"}
Live(c)  == Built(c) /\ c \notin gone

(* A shared_ptr to the connection exists. *)
Owned(c) ==
    \/ stage[c] \in {"built", "added"}
    \/ c \in Sessions_
    \/ \E s \in Serial : SerialNumbers_[s] = c
    \/ \E d \in Conn : moving[d] = c
    \/ disconnecting[c] # "no"

Init ==
    /\ session_id_ = 0
    /\ stage = [c \in Conn |-> "absent"]
    /\ sessionId = [c \in Conn |-> 0]
    /\ Sessions_ = {}
    /\ SerialNumbers_ = [s \in Serial |-> NoConn]
    /\ CleanupSessions_ = <<>>
    /\ cleanup = NoEntry
    /\ cleanupPc = "wait"
    /\ serial = [c \in Conn |-> NoSerial]
    /\ DeviceValidated_ = [c \in Conn |-> FALSE]
    /\ Dead_ = [c \in Conn |-> FALSE]
    /\ Connected = [c \in Conn |-> FALSE]
    /\ handler = [c \in Conn |-> "none"]
    /\ moving = [c \in Conn |-> NoConn]
    /\ disconnecting = [c \in Conn |-> "no"]
    /\ gone = {}
    /\ NumberOfConnectedDevices_ = 0
    /\ announced = [c \in Conn |-> FALSE]
    /\ retired = [c \in Conn |-> 0]
    /\ doomed = {}

-----------------------------------------------------------------------------
(* The end of a connection. *)

(* The compare-and-exchange of EndConnection: only the caller that finds   *)
(* Dead_ unset goes on to post the disconnection and queue the cleanup.    *)
MustEndMutant(c) == TRUE
MustEnd(c) == ~Dead_[c]

AddCleanupSessionSwapped(id, s) ==
    CleanupSessions_' = Append(CleanupSessions_, [session |-> s, serial |-> id])
AddCleanupSessionLost(id, s) == UNCHANGED CleanupSessions_
AddCleanupSession(id, s) ==
    CleanupSessions_' = Append(CleanupSessions_, [session |-> id, serial |-> s])

(* EndConnection, with s the connection's serial number at the call. *)
EndConnection(c, s) ==
    IF MustEnd(c)
    THEN /\ Dead_' = [Dead_ EXCEPT ![c] = TRUE]
         /\ retired' = [retired EXCEPT ![c] =
                            IF s = NoSerial THEN @ ELSE @ + 1]
         /\ AddCleanupSession(sessionId[c], s)
    ELSE UNCHANGED <<Dead_, retired, CleanupSessions_>>

(* The destructor locks ConnectionMutex_, a recursive mutex that a running *)
(* handler of the connection holds: only the handler itself gets past it.  *)
ConnectionMutexIgnored(c, self) == TRUE
ConnectionMutexFree(c, self) == handler[c] = "none" \/ c = self

Destroy(c, self) ==
    /\ ConnectionMutexFree(c, self)
    /\ gone' = gone \cup {c}
    /\ NumberOfConnectedDevices_' = NumberOfConnectedDevices_ - 1
    /\ EndConnection(c, serial[c])

(* A pointer to c went away; self is the connection whose handler did it.  *)
(* (c is a bound variable at every use: Owned(c)' primes what c stands for.) *)
Drop(c, self) ==
    IF Owned(c)' THEN UNCHANGED deathVars ELSE Destroy(c, self)

-----------------------------------------------------------------------------
(* HTTP server threads: createRequestHandler and handleRequest. *)

(* session_id_++, then a second access reads the value to use. *)
CountSession(c) ==
    /\ stage[c] = "absent"
    /\ session_id_' = session_id_ + 1
    /\ stage' = [stage EXCEPT ![c] = "counted"]
    /\ UNCHANGED <<sessionId, Sessions_, SerialNumbers_, moving,
                   disconnecting, deathVars, cleanupVars, deviceVars,
                   handler, doomed>>

CreateConnection(c) ==
    /\ stage[c] = "counted"
    /\ sessionId' = [sessionId EXCEPT ![c] = session_id_]
    /\ stage' = [stage EXCEPT ![c] = "built"]
    /\ NumberOfConnectedDevices_' = NumberOfConnectedDevices_ + 1
    /\ UNCHANGED <<session_id_, Sessions_, SerialNumbers_, moving,
                   disconnecting, gone, Dead_, retired, CleanupSessions_,
                   cleanupVars, deviceVars, handler, doomed>>

AddConnection(c) ==
    /\ stage[c] = "built"
    /\ stage' = [stage EXCEPT ![c] = "added"]
    /\ Sessions_' = IF \E d \in Sessions_ : sessionId[d] = sessionId[c]
                    THEN Sessions_ ELSE Sessions_ \cup {c}
    /\ UNCHANGED <<SerialNumbers_, moving, disconnecting, deathVars,
                   cleanupVars, deviceVars, idVars, handler, doomed>>

(* Start registers the handlers; then handleRequest returns and its local  *)
(* pointer goes away.                                                      *)
StartConnection(c) ==
    /\ stage[c] = "added"
    /\ stage' = [stage EXCEPT ![c] = "open"]
    /\ UNCHANGED <<Sessions_, SerialNumbers_, moving, disconnecting>>
    /\ Drop(c, NoConn)
    /\ UNCHANGED <<cleanupVars, deviceVars, idVars, handler, doomed>>

-----------------------------------------------------------------------------
(* Reactor threads: the handlers of a connection run one at a time. *)

CanHandle(c) == stage[c] = "open" /\ c \notin gone /\ handler[c] = "none"

(* OnSocketShutdown, OnSocketError. *)
OnSocketGone(c) ==
    /\ CanHandle(c)
    /\ EndConnection(c, serial[c])
    /\ doomed' = doomed \cup {c}
    /\ UNCHANGED <<ownerVars, gone, NumberOfConnectedDevices_, cleanupVars,
                   deviceVars, idVars, handler>>

(* OnSocketReadable does nothing on a dead connection.  The other frames   *)
(* (ping, state, log, an answer...) change nothing here.                   *)
Readable(c) == CanHandle(c) /\ ~Dead_[c]

(* A frame is looked at only once ValidatedDevice has accepted the device. *)
AcceptsAnyFrame(c) == TRUE
AcceptsFrames(c) == DeviceValidated_[c]

(* ValidatedDevice finds a certificate for serial number s and accepts it. *)
ValidateDevice(c, s) ==
    /\ Readable(c)
    /\ ~DeviceValidated_[c]
    /\ serial' = [serial EXCEPT ![c] = s]
    /\ DeviceValidated_' = [DeviceValidated_ EXCEPT ![c] = TRUE]
    /\ UNCHANGED <<ownerVars, deathVars, cleanupVars, Connected, announced,
                   idVars, handler, doomed>>

(* ValidatedDevice refuses: s is NoSerial when it did so before it learned *)
(* the serial number, else the simulator or blacklist check refused it.    *)
RejectDevice(c, s) ==
    /\ Readable(c)
    /\ ~DeviceValidated_[c]
    /\ serial' = [serial EXCEPT ![c] = IF s = NoSerial THEN @ ELSE s]
    /\ EndConnection(c, serial'[c])
    /\ doomed' = doomed \cup {c}
    /\ UNCHANGED <<ownerVars, gone, NumberOfConnectedDevices_, cleanupVars,
                   DeviceValidated_, Connected, announced, idVars, handler>>

(* A close frame, an exception, a blacklisted device, too many errors. *)
KillFrame(c) ==
    /\ Readable(c)
    /\ AcceptsFrames(c)
    /\ EndConnection(c, serial[c])
    /\ doomed' = doomed \cup {c}
    /\ UNCHANGED <<ownerVars, gone, NumberOfConnectedDevices_, cleanupVars,
                   deviceVars, idVars, handler>>

(* A connect message for serial number s, up to the call of StartSession.  *)
ConnectFrame(c, s) ==
    /\ Readable(c)
    /\ AcceptsFrames(c)
    /\ serial' = [serial EXCEPT ![c] = s]
    /\ handler' = [handler EXCEPT ![c] = "connect"]
    /\ UNCHANGED <<ownerVars, deathVars, cleanupVars, DeviceValidated_,
                   Connected, announced, idVars, doomed>>

(* The session that StartSession moves leaves Sessions_. *)
SessionsKeeping(m) == Sessions_
SessionsWithout(m) == Sessions_ \ {m}

(* StartSession under the session lock: takes the pointer out of Sessions_ *)
(* or returns when the session is not there.                               *)
StartSessionTake(c) ==
    /\ handler[c] = "connect"
    /\ \/ \E m \in Sessions_ :
            /\ sessionId[m] = sessionId[c]
            /\ Sessions_' = SessionsWithout(m)
            /\ moving' = [moving EXCEPT ![c] = m]
            /\ handler' = [handler EXCEPT ![c] = "register"]
       \/ /\ \A m \in Sessions_ : sessionId[m] # sessionId[c]
          /\ handler' = [handler EXCEPT ![c] = "provision"]
          /\ UNCHANGED <<Sessions_, moving>>
    /\ UNCHANGED <<stage, SerialNumbers_, disconnecting, deathVars,
                   cleanupVars, deviceVars, idVars, doomed>>

(* Its new place replaces whatever was there. *)
RegisteredIfAbsent(s, m) ==
    IF SerialNumbers_[s] = NoConn
    THEN [SerialNumbers_ EXCEPT ![s] = m] ELSE SerialNumbers_
Registered(s, m) == [SerialNumbers_ EXCEPT ![s] = m]

(* StartSession under the serial number lock: an earlier connection of the *)
(* same device loses its place.                                            *)
StartSessionRegister(c) ==
    /\ handler[c] = "register"
    /\ SerialNumbers_' = Registered(serial[c], moving[c])
    /\ moving' = [moving EXCEPT ![c] = NoConn]
    /\ handler' = [handler EXCEPT ![c] = "provision"]
    /\ UNCHANGED <<stage, Sessions_, disconnecting>>
    /\ \/ /\ SerialNumbers_[serial[c]] = NoConn
          /\ UNCHANGED <<deathVars, doomed>>
       \/ \E old \in Conn :
            /\ SerialNumbers_[serial[c]] = old
            /\ doomed' = doomed \cup {old}
            /\ Drop(old, c)
    /\ UNCHANGED <<cleanupVars, deviceVars, idVars>>

(* The rest of Process_connect has four ways out. *)
ProvisionOK(c) ==
    /\ handler[c] = "provision"
    /\ handler' = [handler EXCEPT ![c] = "none"]
    /\ Connected' = [Connected EXCEPT ![c] = TRUE]
    /\ announced' = [announced EXCEPT ![c] = TRUE]
    /\ UNCHANGED <<ownerVars, deathVars, cleanupVars, serial,
                   DeviceValidated_, idVars, doomed>>

(* The firmware is too old: the upgrade is sent and the handler returns.   *)
ProvisionMustUpgrade(c) ==
    /\ handler[c] = "provision"
    /\ handler' = [handler EXCEPT ![c] = "none"]
    /\ UNCHANGED <<ownerVars, deathVars, cleanupVars, deviceVars, idVars, doomed>>

(* The device is unknown and may not be created (Connected stays), or its  *)
(* serial number does not match the certificate (Connected is set before). *)
ProvisionRefused(c) ==
    /\ handler[c] = "provision"
    /\ handler' = [handler EXCEPT ![c] = "none"]
    /\ \E b \in {TRUE, Connected[c]} : Connected' = [Connected EXCEPT ![c] = b]
    /\ EndConnection(c, serial[c])
    /\ doomed' = doomed \cup {c}
    /\ UNCHANGED <<ownerVars, gone, NumberOfConnectedDevices_, cleanupVars,
                   serial, DeviceValidated_, announced, idVars>>

-----------------------------------------------------------------------------
(* The garbage collector.  A bucket whose lock stays busy is left out of a *)
(* sweep, so any order of visits is possible.                              *)
(*                                                                         *)
(* It queues the connections that are dead and those whose LastContact_ is *)
(* older than SessionTimeOut_.  There is no clock here: any connection may *)
(* have been silent for that long, and one that was added and not started  *)
(* yet has a LastContact_ of 0.  What matters is that the connection may   *)
(* be active again when the cleanup thread gets to the entry.              *)

Collect(c) ==
    /\ Len(CleanupSessions_) < GCBacklog
    /\ AddCleanupSession(sessionId[c], serial[c])
    /\ doomed' = doomed \cup {c}
    /\ UNCHANGED <<ownerVars, gone, Dead_, retired,
                   NumberOfConnectedDevices_, cleanupVars, deviceVars,
                   idVars, handler>>

CollectSerial(s) == SerialNumbers_[s] # NoConn /\ Collect(SerialNumbers_[s])
CollectSession(c) == c \in Sessions_ /\ Collect(c)

-----------------------------------------------------------------------------
(* The cleanup thread: EndSession on every entry of the queue. *)

TakeCleanup ==
    /\ cleanupPc = "wait"
    /\ CleanupSessions_ # <<>>
    /\ cleanup' = Head(CleanupSessions_)
    /\ CleanupSessions_' = Tail(CleanupSessions_)
    /\ cleanupPc' = "session"
    /\ UNCHANGED <<ownerVars, gone, Dead_, retired,
                   NumberOfConnectedDevices_, deviceVars, idVars,
                   handler, doomed>>

(* Under the session lock. *)
EndSessionFirst ==
    /\ cleanupPc = "session"
    /\ cleanupPc' = "serial"
    /\ UNCHANGED <<stage, SerialNumbers_, moving, disconnecting>>
    /\ \/ \E c \in Sessions_ :
            /\ sessionId[c] = cleanup.session
            /\ Sessions_' = Sessions_ \ {c}
            /\ Drop(c, NoConn)
       \/ /\ \A c \in Sessions_ : sessionId[c] # cleanup.session
          /\ UNCHANGED <<Sessions_, deathVars>>
    /\ UNCHANGED <<cleanup, deviceVars, idVars, handler, doomed>>

(* The device's entry is still the one of the session that ended. *)
AnySession(c, e) == c # NoConn
SameSession(c, e) == c # NoConn /\ sessionId[c] = e.session

(* Under the serial number lock. *)
EndSessionSecond ==
    /\ cleanupPc = "serial"
    /\ cleanupPc' = "wait" /\ cleanup' = NoEntry
    /\ UNCHANGED <<stage, Sessions_, moving, disconnecting>>
    /\ \/ \E s \in Serial, c \in Conn :
            /\ cleanup.serial = s /\ SerialNumbers_[s] = c
            /\ SameSession(c, cleanup)
            /\ SerialNumbers_' = [SerialNumbers_ EXCEPT ![s] = NoConn]
            /\ Drop(c, NoConn)
       \/ /\ \A s \in Serial : cleanup.serial = s
                => ~SameSession(SerialNumbers_[s], cleanup)
          /\ UNCHANGED <<SerialNumbers_, deathVars>>
    /\ UNCHANGED <<deviceVars, idVars, handler, doomed>>

-----------------------------------------------------------------------------
(* REST threads: Disconnect, when a device is deleted. *)

DisconnectSerial(s) ==
    LET c == SerialNumbers_[s]
    IN  /\ c # NoConn
        /\ disconnecting' = [disconnecting EXCEPT ![c] = "session"]
        /\ SerialNumbers_' = [SerialNumbers_ EXCEPT ![s] = NoConn]
        /\ doomed' = doomed \cup {c}
        /\ UNCHANGED <<stage, Sessions_, moving, deathVars, cleanupVars,
                       deviceVars, idVars, handler>>

(* The session lock: what Sessions_ holds under that id is erased. *)
DisconnectSession(c) ==
    /\ disconnecting[c] = "session"
    /\ disconnecting' = [disconnecting EXCEPT ![c] = "return"]
    /\ UNCHANGED <<stage, SerialNumbers_, moving>>
    /\ \/ \E d \in Sessions_ :
            /\ sessionId[d] = sessionId[c]
            /\ Sessions_' = Sessions_ \ {d}
            /\ Drop(d, NoConn)
       \/ /\ \A d \in Sessions_ : sessionId[d] # sessionId[c]
          /\ UNCHANGED <<Sessions_, deathVars>>
    /\ UNCHANGED <<cleanupVars, deviceVars, idVars, handler, doomed>>

(* Disconnect returns and its local pointer goes away. *)
DisconnectReturn(c) ==
    /\ disconnecting[c] = "return"
    /\ disconnecting' = [disconnecting EXCEPT ![c] = "no"]
    /\ UNCHANGED <<stage, Sessions_, SerialNumbers_, moving>>
    /\ Drop(c, NoConn)
    /\ UNCHANGED <<cleanupVars, deviceVars, idVars, handler, doomed>>

-----------------------------------------------------------------------------
HandleRequest(c) ==
    CountSession(c) \/ CreateConnection(c) \/ AddConnection(c)
        \/ StartConnection(c)

ConnectStep(c) ==
    \/ StartSessionTake(c)
    \/ StartSessionRegister(c)
    \/ ProvisionOK(c)
    \/ ProvisionMustUpgrade(c)
    \/ ProvisionRefused(c)

Handler(c) ==
    \/ OnSocketGone(c)
    \/ \E s \in Serial : ValidateDevice(c, s)
    \/ \E s \in Serial \cup {NoSerial} : RejectDevice(c, s)
    \/ KillFrame(c)
    \/ \E s \in Serial : ConnectFrame(c, s)
    \/ ConnectStep(c)

Cleanup == TakeCleanup \/ EndSessionFirst \/ EndSessionSecond

GarbageCollector ==
    \/ \E s \in Serial : CollectSerial(s)
    \/ \E c \in Conn : CollectSession(c)

Disconnect ==
    \/ \E s \in Serial : DisconnectSerial(s)
    \/ \E c \in Conn : DisconnectSession(c) \/ DisconnectReturn(c)

Next ==
    \/ \E c \in Conn : HandleRequest(c) \/ Handler(c)
    \/ Cleanup
    \/ GarbageCollector
    \/ Disconnect

Spec == Init /\ [][Next]_vars

(***************************************************************************)
(* The threads keep running: a request or a handler that was started goes  *)
(* on and the cleanup thread comes round again.  The fairness is strong    *)
(* where a destructor may have to wait for ConnectionMutex_: the handlers  *)
(* hold it for one frame at a time.  Nothing obliges a device to send, an  *)
(* operator to act or the garbage collector to find a bucket unlocked.     *)
(***************************************************************************)
Fairness ==
    /\ SF_vars(Cleanup)
    /\ \A c \in Conn :
         /\ WF_vars(stage[c] # "absent" /\ HandleRequest(c))
         /\ SF_vars(ConnectStep(c))
         /\ SF_vars(DisconnectSession(c) \/ DisconnectReturn(c))

FairSpec == Spec /\ Fairness
-----------------------------------------------------------------------------
(* Properties. *)

TypeOK ==
    /\ session_id_ \in Nat
    /\ stage \in [Conn -> Stage]
    /\ sessionId \in [Conn -> Nat]
    /\ Sessions_ \subseteq Conn
    /\ SerialNumbers_ \in [Serial -> Conn \cup {NoConn}]
    /\ CleanupSessions_ \in Seq(Entry)
    /\ cleanup \in Entry
    /\ cleanupPc \in {"wait", "session", "serial"}
    /\ serial \in [Conn -> Serial \cup {NoSerial}]
    /\ DeviceValidated_ \in [Conn -> BOOLEAN]
    /\ Dead_ \in [Conn -> BOOLEAN]
    /\ Connected \in [Conn -> BOOLEAN]
    /\ handler \in [Conn -> {"none", "connect", "register", "provision"}]
    /\ moving \in [Conn -> Conn \cup {NoConn}]
    /\ disconnecting \in [Conn -> {"no", "session", "return"}]
    /\ gone \subseteq Conn
    /\ NumberOfConnectedDevices_ \in Int
    /\ announced \in [Conn -> BOOLEAN]
    /\ retired \in [Conn -> Nat]
    /\ doomed \subseteq Conn

(* session_id_ is incremented and read by two separate accesses, so that   *)
(* two requests may use the same session id.  The properties that need an  *)
(* id of its own say so.                                                   *)
OwnSession(c) ==
    \A d \in Conn \ {c} : Built(d) => sessionId[d] # sessionId[c]

(* A connection is destroyed only if its own end, the garbage collector, a *)
(* newer connection of the device or an operator asked for it: no late     *)
(* EndSession of an older session takes down the one that replaced it.     *)
OnlyDoomedDestroyed ==
    \A c \in gone : OwnSession(c) => c \in doomed

(* A device that completed its connect is found under some serial number   *)
(* as long as nobody decided to end its connection.                        *)
ConnectedIsReachable ==
    \A c \in Conn :
        /\ Live(c) /\ OwnSession(c) /\ c \notin doomed
        /\ Connected[c]
        => \E s \in Serial : SerialNumbers_[s] = c

(* What is registered under a serial number went through ValidatedDevice.  *)
RegisteredIsValidated ==
    \A s \in Serial :
        LET c == SerialNumbers_[s]
        IN  c # NoConn /\ OwnSession(c) => DeviceValidated_[c]

(* SerialNumbers_ can be relied on: every REST call and every frame to a   *)
(* device goes through it.                                                 *)
RegistrationIsSound == ConnectedIsReachable /\ RegisteredIsValidated

(* One disconnection message per connection, whoever ends it and however   *)
(* often, and none is missing when an announced connection is destroyed.   *)
RetiredOnce ==
    \A c \in Conn :
        /\ retired[c] <= 1
        /\ c \in gone /\ announced[c] => retired[c] = 1

(* After the disconnection message of a connection no connection message   *)
(* with the same uuid_ follows: the destructor waits for the handler.      *)
NoConnectAfterDisconnect ==
    [][\A c \in Conn :
          OwnSession(c) /\ retired[c] > 0 => announced'[c] = announced[c]]_vars

(* No destroyed connection is left in a map or in a local pointer, and     *)
(* the maps never hold a connection twice.                                 *)
NoDanglingPointer ==
    \A c \in Conn :
        /\ c \in gone => ~Owned(c)
        /\ c \in Sessions_ => \A s \in Serial : SerialNumbers_[s] # c
        /\ \A s, t \in Serial :
             SerialNumbers_[s] = c /\ SerialNumbers_[t] = c => s = t

(* The connection was registered under one serial number and then sent a   *)
(* connect message for another: StartSession does not move it.             *)
Misfiled(c) == \E s \in Serial : SerialNumbers_[s] = c /\ serial[c] # s

(* A dead connection is eventually destroyed: the cleanup queue alone sees *)
(* to it, without the help of the garbage collector.  The exceptions are a *)
(* misfiled connection (the entries name a serial number it is not         *)
(* registered under) and one whose session id is not its own.              *)
DeadIsDestroyed ==
    \A c \in Conn :
        Dead_[c] ~> (c \in gone \/ Misfiled(c) \/ ~OwnSession(c))
=============================================================================
