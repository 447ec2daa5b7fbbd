------------------------------ MODULE Telemetry ------------------------------
(***************************************************************************)
(* Telemetry of one device: the reference counts of its connection         *)
(* (AP_WS_Connection), the telemetry command of the REST API, the packets  *)
(* that the device sends (Process_telemetry), and the WebSocket clients    *)
(* that read them (TelemetryStream, TelemetryClient).                      *)
(*                                                                         *)
(* An interval is on or off here, and a life time has passed or has not.   *)
(* A device that comes back has a new connection, with counts of its own.  *)
(* Packets carry data; the adhoc ones, which go to Kafka whatever the      *)
(* counts are, are left out.                                               *)
(***************************************************************************)
EXTENDS Integers, Sequences, FiniteSets

CONSTANTS
    Client,        \* UUIDs of telemetry commands
    MaxKafka,      \* bound: references for Kafka
    MaxStops,      \* bound: telemetry stopped by an operator
    MaxFails,      \* bound: frames that Send could not send
    MaxReconnects, \* bound: connections of the device
    MaxPackets     \* bound: messages waiting in a queue

ASSUME TelemetryAssumption ==
    /\ IsFiniteSet(Client)
    /\ MaxKafka \in Nat /\ MaxStops \in Nat /\ MaxFails \in Nat
    /\ MaxReconnects \in Nat /\ MaxPackets \in Nat

VARIABLES
    TelemetryWebSocketRefCount_,
    TelemetryKafkaRefCount_,
    TelemetryReporting_,
    TelemetryWebSocketTimer_,  \* is the life time still running?
    TelemetryKafkaTimer_,
    connected,                 \* does the server know a connection?
    toDevice,                  \* "start" and "stop" on their way
    deviceOn,                  \* does the device send telemetry?
    packets,                   \* packets that wait for the handler
    handler,                   \* where Process_telemetry is
    Clients_,                  \* UUID -> state of its client
    SerialNumbers_,            \* the UUIDs that get the device's packets
    MsgQueue_,                 \* of TelemetryStream
    debt,                      \* history: references taken from live clients
    fails, left                \* what is left of the bounds

countVars  == <<TelemetryWebSocketRefCount_, TelemetryKafkaRefCount_,
                TelemetryReporting_, TelemetryWebSocketTimer_,
                TelemetryKafkaTimer_>>
streamVars == <<Clients_, SerialNumbers_, MsgQueue_>>
vars == <<countVars, connected, toDevice, deviceOn, packets, handler,
          streamVars, debt, fails, left>>

(* asked: the count is up, the endpoint not created yet; closed: the       *)
(* socket is gone, the entry not yet.                                      *)
ClientState == {"none", "asked", "endpoint", "open", "closed", "gone"}
Live == {u \in Client : Clients_[u] \in {"asked", "endpoint", "open"}}

Data == "data"

Signal == {"start", "stop"}

Init ==
    /\ TelemetryWebSocketRefCount_ = 0 /\ TelemetryKafkaRefCount_ = 0
    /\ TelemetryReporting_ = FALSE
    /\ TelemetryWebSocketTimer_ = FALSE /\ TelemetryKafkaTimer_ = FALSE
    /\ connected = TRUE
    /\ toDevice = <<>>
    /\ deviceOn \in BOOLEAN
    /\ packets = 0
    /\ handler = "idle"
    /\ Clients_ = [u \in Client |-> "none"]
    /\ SerialNumbers_ = {}
    /\ MsgQueue_ = <<>>
    /\ debt = 0
    /\ fails = MaxFails
    /\ left = [stops |-> MaxStops, reconnects |-> MaxReconnects]

-----------------------------------------------------------------------------
(* The connection. *)

(* Send, of which nobody looks at the result. *)
Send(m) ==
    \/ toDevice' = Append(toDevice, m) /\ UNCHANGED fails
    \/ fails > 0 /\ fails' = fails - 1 /\ UNCHANGED toDevice

(* SetWebSocketTelemetryReporting and SetKafkaTelemetryReporting, apart    *)
(* from their count and timer.                                             *)
StartReporting ==
    /\ TelemetryReporting_' = TRUE
    /\ IF TelemetryReporting_ THEN UNCHANGED <<toDevice, fails>> ELSE Send("start")

(* StopTelemetry clears the timers, too. *)
StopTelemetry ==
    /\ TelemetryWebSocketTimer_' = FALSE /\ TelemetryKafkaTimer_' = FALSE
    /\ Send("stop")

UnusedMutant(ws, kafka) == kafka = 0
Unused(ws, kafka) == ws = 0 /\ kafka = 0

(* StopWebSocketTelemetry and StopKafkaTelemetry, with the new counts. *)
StopReporting(ws, kafka) ==
    /\ TelemetryWebSocketRefCount_' = ws /\ TelemetryKafkaRefCount_' = kafka
    /\ IF Unused(ws, kafka)
       THEN TelemetryReporting_' = FALSE /\ StopTelemetry
       ELSE UNCHANGED <<TelemetryReporting_, TelemetryWebSocketTimer_,
                        TelemetryKafkaTimer_, toDevice, fails>>

DecrementMutant(n) == n - 1
Decrement(n) == IF n > 0 THEN n - 1 ELSE 0

StopWebSocketTelemetry ==
    StopReporting(Decrement(TelemetryWebSocketRefCount_), TelemetryKafkaRefCount_)
StopKafkaTelemetry ==
    StopReporting(TelemetryWebSocketRefCount_, Decrement(TelemetryKafkaRefCount_))

(* A reference that is dropped by somebody else than its client. *)
Owed == debt' = IF TelemetryWebSocketRefCount_ > 0 THEN debt + 1 ELSE debt

-----------------------------------------------------------------------------
(* The telemetry command.  The server looks the connection up, and does    *)
(* nothing without one.                                                    *)

IncrementMutant(n) == IF TelemetryReporting_ THEN n ELSE n + 1
Increment(n) == n + 1

SetWebSocketTelemetryReporting(u) ==
    /\ Clients_[u] = "none"
    /\ Clients_' = [Clients_ EXCEPT ![u] = "asked"]
    /\ \/ /\ connected
          /\ TelemetryWebSocketRefCount_' = Increment(TelemetryWebSocketRefCount_)
          /\ TelemetryWebSocketTimer_' = TRUE
          /\ StartReporting
          /\ UNCHANGED debt
       \/ /\ ~connected
          /\ debt' = debt + 1
          /\ UNCHANGED <<TelemetryWebSocketRefCount_, TelemetryWebSocketTimer_,
                         TelemetryReporting_, toDevice, fails>>
    /\ UNCHANGED <<TelemetryKafkaRefCount_, TelemetryKafkaTimer_, connected,
                   deviceOn, packets, handler, SerialNumbers_, MsgQueue_, left>>

CreateEndpoint(u) ==
    /\ Clients_[u] = "asked"
    /\ Clients_' = [Clients_ EXCEPT ![u] = "endpoint"]
    /\ SerialNumbers_' = SerialNumbers_ \cup {u}
    /\ UNCHANGED <<countVars, connected, toDevice, deviceOn, packets, handler,
                   MsgQueue_, debt, fails, left>>

OperatorStops ==
    /\ connected
    /\ left.stops > 0
    /\ left' = [left EXCEPT !.stops = @ - 1]
    /\ StopWebSocketTelemetry
    /\ Owed
    /\ UNCHANGED <<connected, deviceOn, packets, handler, streamVars>>

SetKafkaTelemetryReporting ==
    /\ connected
    /\ TelemetryKafkaRefCount_ < MaxKafka
    /\ TelemetryKafkaRefCount_' = Increment(TelemetryKafkaRefCount_)
    /\ TelemetryKafkaTimer_' = TRUE
    /\ StartReporting
    /\ UNCHANGED <<TelemetryWebSocketRefCount_, TelemetryWebSocketTimer_,
                   connected, deviceOn, packets, handler, streamVars, debt, left>>

OperatorStopsKafka ==
    /\ connected
    /\ left.stops > 0
    /\ left' = [left EXCEPT !.stops = @ - 1]
    /\ StopKafkaTelemetry
    /\ UNCHANGED <<connected, deviceOn, packets, handler, streamVars, debt>>

-----------------------------------------------------------------------------
(* WebSocket clients. *)

(* IsValidEndPoint, NewClient.  The entry of a client that is closing is   *)
(* still valid: the new client has no reference of its own.                *)
NewClient(u) ==
    /\ Clients_[u] \in {"endpoint", "open", "closed"}
    /\ u \in SerialNumbers_
    /\ Clients_' = [Clients_ EXCEPT ![u] = "open"]
    /\ debt' = IF Clients_[u] = "closed" THEN debt + 1 ELSE debt
    /\ UNCHANGED <<countVars, connected, toDevice, deviceOn, packets, handler,
                   SerialNumbers_, MsgQueue_, fails, left>>

(* SendTelemetryShutdown *)
SendTelemetryShutdown(u) ==
    /\ Clients_[u] = "open"
    /\ Len(MsgQueue_) < MaxPackets
    /\ Clients_' = [Clients_ EXCEPT ![u] = "closed"]
    /\ MsgQueue_' = Append(MsgQueue_, u)
    /\ IF connected THEN StopWebSocketTelemetry
       ELSE UNCHANGED <<countVars, toDevice, fails>>
    /\ UNCHANGED <<connected, deviceOn, packets, handler, SerialNumbers_, debt,
                   left>>

(* TelemetryStream::run: a packet is sent to the open clients, an          *)
(* unregistered client is destroyed, whatever its state.                   *)
Notify ==
    /\ MsgQueue_ # <<>>
    /\ MsgQueue_' = Tail(MsgQueue_)
    /\ LET m == Head(MsgQueue_)
       IN  \/ m = Data /\ UNCHANGED <<Clients_, SerialNumbers_>>
          \/ /\ m # Data /\ Clients_[m] # "gone"
             /\ Clients_' = [Clients_ EXCEPT ![m] = "gone"]
             /\ SerialNumbers_' = SerialNumbers_ \ {m}
          \/ /\ m # Data /\ Clients_[m] = "gone"
             /\ UNCHANGED <<Clients_, SerialNumbers_>>
    /\ UNCHANGED <<countVars, connected, toDevice, deviceOn, packets, handler,
                   debt, fails, left>>

-----------------------------------------------------------------------------
(* Process_telemetry: what it reads is read without TelemetryMutex_.       *)

ReadPacket ==
    /\ handler = "idle" /\ packets > 0
    /\ packets' = packets - 1
    /\ handler' = IF TelemetryReporting_ THEN "websocket" ELSE "runaway"
    /\ UNCHANGED <<countVars, connected, toDevice, deviceOn, streamVars, debt,
                   fails, left>>

StopRunawayMutant ==
    /\ handler = "runaway"
    /\ handler' = "idle"
    /\ UNCHANGED <<countVars, connected, toDevice, deviceOn, packets, streamVars,
                   debt, fails, left>>
StopRunaway ==
    /\ handler = "runaway"
    /\ handler' = "idle"
    /\ StopTelemetry
    /\ UNCHANGED <<TelemetryWebSocketRefCount_, TelemetryKafkaRefCount_,
                   TelemetryReporting_, connected, deviceOn, packets, streamVars,
                   debt, left>>

ForWebSocket ==
    /\ handler = "websocket"
    /\ \/ /\ TelemetryWebSocketRefCount_ = 0
          /\ handler' = "kafka" /\ UNCHANGED MsgQueue_
       \/ /\ TelemetryWebSocketRefCount_ > 0 /\ TelemetryWebSocketTimer_
          /\ Len(MsgQueue_) < MaxPackets
          /\ MsgQueue_' = Append(MsgQueue_, Data)
          /\ handler' = "kafka"
       \/ /\ TelemetryWebSocketRefCount_ > 0 /\ ~TelemetryWebSocketTimer_
          /\ handler' = "expireWebSocket" /\ UNCHANGED MsgQueue_
    /\ UNCHANGED <<countVars, connected, toDevice, deviceOn, packets, Clients_,
                   SerialNumbers_, debt, fails, left>>

ExpireWebSocket ==
    /\ handler = "expireWebSocket"
    /\ handler' = "kafka"
    /\ StopWebSocketTelemetry
    /\ Owed
    /\ UNCHANGED <<connected, deviceOn, packets, streamVars, left>>

ForKafka ==
    /\ handler = "kafka"
    /\ handler' = IF TelemetryKafkaRefCount_ > 0 /\ ~TelemetryKafkaTimer_
                  THEN "expireKafka" ELSE "idle"
    /\ UNCHANGED <<countVars, connected, toDevice, deviceOn, packets, streamVars,
                   debt, fails, left>>

ExpireKafka ==
    /\ handler = "expireKafka"
    /\ handler' = "idle"
    /\ StopKafkaTelemetry
    /\ UNCHANGED <<connected, deviceOn, packets, streamVars, debt, left>>

LifeTimePasses ==
    /\ TelemetryWebSocketTimer_ \/ TelemetryKafkaTimer_
    /\ \/ TelemetryWebSocketTimer_' = FALSE /\ UNCHANGED TelemetryKafkaTimer_
       \/ TelemetryKafkaTimer_' = FALSE /\ UNCHANGED TelemetryWebSocketTimer_
    /\ UNCHANGED <<TelemetryWebSocketRefCount_, TelemetryKafkaRefCount_,
                   TelemetryReporting_, connected, toDevice, deviceOn, packets,
                   handler, streamVars, debt, fails, left>>

-----------------------------------------------------------------------------
(* The device. *)

DeviceReceives ==
    /\ toDevice # <<>>
    /\ toDevice' = Tail(toDevice)
    /\ deviceOn' = (Head(toDevice) = "start")
    /\ UNCHANGED <<countVars, connected, packets, handler, streamVars, debt,
                   fails, left>>

DeviceSends ==
    /\ connected /\ deviceOn
    /\ packets + Len(toDevice) < MaxPackets
    /\ packets' = packets + 1
    /\ UNCHANGED <<countVars, connected, toDevice, deviceOn, handler, streamVars,
                   debt, fails, left>>

(* The connection goes, with its counts; its handler has returned. *)
Disconnect ==
    /\ connected /\ handler = "idle"
    /\ left.reconnects > 0
    /\ left' = [left EXCEPT !.reconnects = @ - 1]
    /\ connected' = FALSE
    /\ TelemetryWebSocketRefCount_' = 0 /\ TelemetryKafkaRefCount_' = 0
    /\ TelemetryReporting_' = FALSE
    /\ TelemetryWebSocketTimer_' = FALSE /\ TelemetryKafkaTimer_' = FALSE
    /\ toDevice' = <<>> /\ packets' = 0
    /\ debt' = debt + TelemetryWebSocketRefCount_
    /\ UNCHANGED <<deviceOn, handler, streamVars, fails>>

Connect ==
    /\ ~connected
    /\ connected' = TRUE
    /\ deviceOn' \in {deviceOn, FALSE}
    /\ UNCHANGED <<countVars, toDevice, packets, handler, streamVars, debt,
                   fails, left>>

-----------------------------------------------------------------------------
Process_telemetry ==
    \/ ReadPacket \/ StopRunaway \/ ForWebSocket \/ ExpireWebSocket
    \/ ForKafka \/ ExpireKafka

Next ==
    \/ \E u \in Client : \/ SetWebSocketTelemetryReporting(u) \/ CreateEndpoint(u)
                          \/ NewClient(u) \/ SendTelemetryShutdown(u)
    \/ OperatorStops \/ SetKafkaTelemetryReporting \/ OperatorStopsKafka
    \/ Notify \/ Process_telemetry \/ LifeTimePasses
    \/ DeviceReceives \/ DeviceSends \/ Disconnect \/ Connect

Spec == Init /\ [][Next]_vars

(***************************************************************************)
(* The handler and the notifier thread run, a device that has telemetry on *)
(* sends packets and reads what it gets, and life times pass.              *)
(***************************************************************************)
Fairness ==
    /\ WF_vars(Process_telemetry) /\ WF_vars(Notify) /\ WF_vars(LifeTimePasses)
    /\ WF_vars(DeviceReceives) /\ WF_vars(DeviceSends)

FairSpec == Spec /\ Fairness

-----------------------------------------------------------------------------
(* Properties. *)

TypeOK ==
    /\ TelemetryWebSocketRefCount_ \in Nat /\ TelemetryKafkaRefCount_ \in Nat
    /\ TelemetryReporting_ \in BOOLEAN
    /\ TelemetryWebSocketTimer_ \in BOOLEAN /\ TelemetryKafkaTimer_ \in BOOLEAN
    /\ connected \in BOOLEAN /\ deviceOn \in BOOLEAN
    /\ toDevice \in Seq(Signal)
    /\ packets \in Nat
    /\ handler \in {"idle", "runaway", "websocket", "expireWebSocket", "kafka",
                    "expireKafka"}
    /\ Clients_ \in [Client -> ClientState]
    /\ SerialNumbers_ \subseteq Client
    /\ MsgQueue_ \in Seq(Client \cup {Data})
    /\ debt \in Nat /\ fails \in Nat
    /\ left \in [stops : Nat, reconnects : Nat]

(* The reference counts cover the live clients: a client loses its         *)
(* reference through an operator, an expired life time or a connection     *)
(* that is lost, never through another client.                             *)
ClientsCounted == Cardinality(Live) <= TelemetryWebSocketRefCount_ + debt

(* Telemetry is on as long as somebody counts on it, be it through the     *)
(* WebSocket or through Kafka: no stop for one of them ends the other.     *)
ReportingIsCounted ==
    TelemetryReporting_ <=> TelemetryWebSocketRefCount_ + TelemetryKafkaRefCount_ > 0

(* A device whose telemetry nobody reads stops sending, even if the frame  *)
(* that stops it is lost: its next packet makes Process_telemetry send     *)
(* another one.                                                            *)
RunawayStops == []<>(deviceOn /\ connected => TelemetryReporting_)
=============================================================================
