---------------------------- MODULE StreamsProofs ----------------------------
(***************************************************************************)
(* Proofs about what the gateway relays from a device to a browser, for    *)
(* any clients, end points, sockets and bounds: the telemetry (Telemetry)  *)
(* is type correct, its report flag agrees with its reference counts and   *)
(* the counts cover the live clients; the two ends of a terminal meet      *)
(* (RTTYS).  The two parts share no state.                                 *)
(***************************************************************************)
EXTENDS Telemetry, RTTYS, TLAPS, FiniteSetTheorems

-----------------------------------------------------------------------------
(* The telemetry. *)

(* What a frame that is sent, or not, leaves behind. *)
LEMMA SendType ==
    ASSUME NEW m \in Signal, TypeOK, Send(m)
    PROVE  toDevice' \in Seq(Signal) /\ fails' \in Nat
<1>1. toDevice \in Seq(Signal) /\ fails \in Nat
  BY DEF TypeOK
<1>2. Append(toDevice, m) \in Seq(Signal)
  BY <1>1
<1> QED BY <1>1, <1>2 DEF Send

(* Starting to report keeps the types. *)
LEMMA StartType ==
    ASSUME TypeOK, StartReporting
    PROVE  /\ TelemetryReporting_' = TRUE
           /\ toDevice' \in Seq(Signal) /\ fails' \in Nat
<1>1. "start" \in Signal
  BY DEF Signal
<1> QED BY <1>1, SendType DEF StartReporting, TypeOK

(* StopReporting keeps the types, and reports on exactly when a reference  *)
(* is left.                                                                *)
LEMMA StopType ==
    ASSUME NEW ws \in Nat, NEW kafka \in Nat, TypeOK, StopReporting(ws, kafka),
           ws + kafka > 0 => TelemetryReporting_
    PROVE  /\ TelemetryWebSocketRefCount_' = ws /\ TelemetryKafkaRefCount_' = kafka
           /\ TelemetryReporting_' \in BOOLEAN
           /\ (TelemetryReporting_' <=> ws + kafka > 0)
           /\ TelemetryWebSocketTimer_' \in BOOLEAN
           /\ TelemetryKafkaTimer_' \in BOOLEAN
           /\ toDevice' \in Seq(Signal) /\ fails' \in Nat
<1>1. CASE Unused(ws, kafka)
  <2>1. TelemetryReporting_' = FALSE /\ StopTelemetry
    BY <1>1 DEF StopReporting
  <2>2. toDevice' \in Seq(Signal) /\ fails' \in Nat
    BY <2>1, "stop" \in Signal, SendType DEF StopTelemetry, Signal
  <2>3. ~(ws + kafka > 0)
    BY <1>1 DEF Unused
  <2>4. ~TelemetryReporting_' /\ TelemetryReporting_' \in BOOLEAN
    BY <2>1
  <2> QED BY <2>1, <2>2, <2>3, <2>4 DEF StopReporting, StopTelemetry
<1>2. CASE ~Unused(ws, kafka)
  <2>1. ws + kafka > 0
    BY <1>2 DEF Unused
  <2> QED BY <1>2, <2>1 DEF StopReporting, TypeOK
<1> QED BY <1>1, <1>2

(* Taking one from what is left of a bound keeps its type. *)
LEMMA StopsType ==
    ASSUME NEW l \in [stops : Nat, reconnects : Nat], l.stops > 0
    PROVE  [l EXCEPT !.stops = @ - 1] \in [stops : Nat, reconnects : Nat]
<1>1. l.stops \in Nat /\ l.stops - 1 \in Nat
  OBVIOUS
<1> QED BY <1>1

LEMMA ReconnectsType ==
    ASSUME NEW l \in [stops : Nat, reconnects : Nat], l.reconnects > 0
    PROVE  [l EXCEPT !.reconnects = @ - 1] \in [stops : Nat, reconnects : Nat]
<1>1. l.reconnects \in Nat /\ l.reconnects - 1 \in Nat
  OBVIOUS
<1> QED BY <1>1

(* The two are inductive together: that a count never falls below zero     *)
(* and that the flag follows the counts need each other's state.           *)
IInv == TypeOK /\ ReportingIsCounted

LEMMA StopWebSocketType ==
    ASSUME IInv, StopWebSocketTelemetry
    PROVE  /\ TelemetryWebSocketRefCount_' = Decrement(TelemetryWebSocketRefCount_)
           /\ TelemetryWebSocketRefCount_' \in Nat /\ TelemetryKafkaRefCount_' \in Nat
           /\ TelemetryReporting_' \in BOOLEAN
           /\ (TelemetryReporting_' <=>
                TelemetryWebSocketRefCount_' + TelemetryKafkaRefCount_' > 0)
           /\ TelemetryWebSocketTimer_' \in BOOLEAN
           /\ TelemetryKafkaTimer_' \in BOOLEAN
           /\ toDevice' \in Seq(Signal) /\ fails' \in Nat
<1> DEFINE ws == Decrement(TelemetryWebSocketRefCount_)
           kafka == TelemetryKafkaRefCount_
<1>1. ws \in Nat /\ kafka \in Nat
  BY DEF IInv, TypeOK, Decrement
<1>2. ws + kafka > 0 => TelemetryReporting_
  <2>1. ws <= TelemetryWebSocketRefCount_
    BY DEF IInv, TypeOK, Decrement
  <2> QED BY <1>1, <2>1 DEF IInv, TypeOK, ReportingIsCounted
<1>3. StopReporting(ws, kafka)
  BY DEF StopWebSocketTelemetry
<1>4. TypeOK
  BY DEF IInv
<1> HIDE DEF ws, kafka
<1>5. /\ TelemetryWebSocketRefCount_' = ws /\ TelemetryKafkaRefCount_' = kafka
      /\ TelemetryReporting_' \in BOOLEAN
      /\ (TelemetryReporting_' <=> ws + kafka > 0)
      /\ TelemetryWebSocketTimer_' \in BOOLEAN
      /\ TelemetryKafkaTimer_' \in BOOLEAN
      /\ toDevice' \in Seq(Signal) /\ fails' \in Nat
  BY <1>1, <1>2, <1>3, <1>4, StopType
<1> QED BY <1>1, <1>5 DEF ws

LEMMA StopKafkaType ==
    ASSUME IInv, StopKafkaTelemetry
    PROVE  /\ TelemetryWebSocketRefCount_' = TelemetryWebSocketRefCount_
           /\ TelemetryWebSocketRefCount_' \in Nat /\ TelemetryKafkaRefCount_' \in Nat
           /\ TelemetryReporting_' \in BOOLEAN
           /\ (TelemetryReporting_' <=>
                TelemetryWebSocketRefCount_' + TelemetryKafkaRefCount_' > 0)
           /\ TelemetryWebSocketTimer_' \in BOOLEAN
           /\ TelemetryKafkaTimer_' \in BOOLEAN
           /\ toDevice' \in Seq(Signal) /\ fails' \in Nat
<1> DEFINE ws == TelemetryWebSocketRefCount_
           kafka == Decrement(TelemetryKafkaRefCount_)
<1>1. ws \in Nat /\ kafka \in Nat
  BY DEF IInv, TypeOK, Decrement
<1>2. ws + kafka > 0 => TelemetryReporting_
  BY DEF IInv, TypeOK, Decrement, ReportingIsCounted
<1>3. StopReporting(ws, kafka)
  BY DEF StopKafkaTelemetry
<1>4. TypeOK
  BY DEF IInv
<1> HIDE DEF ws, kafka
<1>5. /\ TelemetryWebSocketRefCount_' = ws /\ TelemetryKafkaRefCount_' = kafka
      /\ TelemetryReporting_' \in BOOLEAN
      /\ (TelemetryReporting_' <=> ws + kafka > 0)
      /\ TelemetryWebSocketTimer_' \in BOOLEAN
      /\ TelemetryKafkaTimer_' \in BOOLEAN
      /\ toDevice' \in Seq(Signal) /\ fails' \in Nat
  BY <1>1, <1>2, <1>3, <1>4, StopType
<1> QED BY <1>1, <1>5 DEF ws

(* What countVars and streamVars say when they do not change. *)
LEMMA Untouched ==
    ASSUME IInv, UNCHANGED countVars
    PROVE  /\ TelemetryWebSocketRefCount_' \in Nat /\ TelemetryKafkaRefCount_' \in Nat
           /\ TelemetryReporting_' \in BOOLEAN
           /\ TelemetryWebSocketTimer_' \in BOOLEAN
           /\ TelemetryKafkaTimer_' \in BOOLEAN
           /\ ReportingIsCounted'
BY DEF IInv, TypeOK, countVars, ReportingIsCounted

LEMMA Initially == Init => IInv
<1> SUFFICES ASSUME Init PROVE IInv
  OBVIOUS
<1>1. toDevice \in Seq(Signal) /\ MsgQueue_ \in Seq(Client \cup {Data})
  BY DEF Init
<1>2. left \in [stops : Nat, reconnects : Nat]
  BY TelemetryAssumption DEF Init
<1>3. TypeOK
  BY <1>1, <1>2, TelemetryAssumption DEF Init, TypeOK, ClientState
<1>4. ReportingIsCounted
  BY DEF Init, ReportingIsCounted
<1> QED BY <1>3, <1>4 DEF IInv

(* Every action keeps the types, and the flag equal to what the counts     *)
(* say.                                                                    *)
LEMMA Inductive == IInv /\ [Next]_vars => IInv'
<1> SUFFICES ASSUME IInv, [Next]_vars PROVE IInv'
  OBVIOUS
<1> USE DEF IInv
<1>1. ASSUME NEW u \in Client, SetWebSocketTelemetryReporting(u) PROVE IInv'
  <2>1. CASE connected
    <3>1. StartReporting /\ UNCHANGED debt
          /\ TelemetryWebSocketRefCount_' = TelemetryWebSocketRefCount_ + 1
          /\ TelemetryWebSocketTimer_' = TRUE
      BY <1>1, <2>1 DEF SetWebSocketTelemetryReporting, Increment
    <3>2. /\ TelemetryReporting_' = TRUE
          /\ toDevice' \in Seq(Signal) /\ fails' \in Nat
      BY <3>1, StartType
    <3>3. TypeOK'
      BY <1>1, <3>1, <3>2 DEF SetWebSocketTelemetryReporting, TypeOK, ClientState
    <3>4. TelemetryWebSocketRefCount_' + TelemetryKafkaRefCount_' > 0
      BY <1>1, <3>1 DEF SetWebSocketTelemetryReporting, TypeOK
    <3> QED BY <3>2, <3>3, <3>4 DEF ReportingIsCounted
  <2>2. CASE ~connected
    <3>1. TypeOK'
      BY <1>1, <2>2 DEF SetWebSocketTelemetryReporting, TypeOK, ClientState
    <3> QED BY <1>1, <2>2, <3>1 DEF SetWebSocketTelemetryReporting,
                                    ReportingIsCounted
  <2> QED BY <2>1, <2>2
<1>2. ASSUME NEW u \in Client, CreateEndpoint(u) PROVE IInv'
  BY <1>2, Untouched DEF CreateEndpoint, TypeOK, ClientState
<1>3. ASSUME NEW u \in Client, NewClient(u) PROVE IInv'
  BY <1>3, Untouched DEF NewClient, TypeOK, ClientState
<1>4. ASSUME NEW u \in Client, SendTelemetryShutdown(u) PROVE IInv'
  <2>1. MsgQueue_' \in Seq(Client \cup {Data})
    BY <1>4 DEF SendTelemetryShutdown, TypeOK
  <2>2. CASE connected
    <3>1. StopWebSocketTelemetry
      BY <1>4, <2>2 DEF SendTelemetryShutdown
    <3> QED BY <1>4, <2>1, <3>1, StopWebSocketType
            DEF SendTelemetryShutdown, TypeOK, ClientState, ReportingIsCounted
  <2>3. CASE ~connected
    BY <1>4, <2>1, <2>3, Untouched DEF SendTelemetryShutdown, TypeOK, ClientState
  <2> QED BY <2>2, <2>3
<1>5. CASE OperatorStops
  <2>1. debt' \in Nat
    BY <1>5 DEF OperatorStops, Owed, TypeOK
  <2>2. left' \in [stops : Nat, reconnects : Nat]
    BY <1>5, StopsType DEF OperatorStops, TypeOK
  <2> QED BY <1>5, <2>1, <2>2, StopWebSocketType
          DEF OperatorStops, TypeOK, ReportingIsCounted, streamVars
<1>6. CASE SetKafkaTelemetryReporting
  <2>1. /\ TelemetryReporting_' = TRUE
        /\ toDevice' \in Seq(Signal) /\ fails' \in Nat
    BY <1>6, StartType DEF SetKafkaTelemetryReporting
  <2>2. TypeOK'
    BY <1>6, <2>1 DEF SetKafkaTelemetryReporting, TypeOK, Increment, streamVars
  <2>3. TelemetryWebSocketRefCount_' + TelemetryKafkaRefCount_' > 0
    BY <1>6 DEF SetKafkaTelemetryReporting, TypeOK, Increment
  <2> QED BY <2>1, <2>2, <2>3 DEF ReportingIsCounted
<1>7. CASE OperatorStopsKafka
  <2>1. left' \in [stops : Nat, reconnects : Nat]
    BY <1>7, StopsType DEF OperatorStopsKafka, TypeOK
  <2> QED BY <1>7, <2>1, StopKafkaType
          DEF OperatorStopsKafka, TypeOK, ReportingIsCounted, streamVars
<1>8. CASE Notify
  <2>1. MsgQueue_' \in Seq(Client \cup {Data})
    BY <1>8 DEF Notify, TypeOK
  <2>2. Clients_' \in [Client -> ClientState] /\ SerialNumbers_' \subseteq Client
    BY <1>8 DEF Notify, TypeOK, ClientState
  <2> QED BY <1>8, <2>1, <2>2, Untouched DEF Notify, TypeOK
<1>9. CASE ReadPacket
  BY <1>9, Untouched DEF ReadPacket, TypeOK, streamVars
<1>10. CASE StopRunaway
  <2>1. toDevice' \in Seq(Signal) /\ fails' \in Nat
    BY <1>10, "stop" \in Signal, SendType DEF StopRunaway, StopTelemetry, Signal
  <2> QED BY <1>10, <2>1 DEF StopRunaway, StopTelemetry, TypeOK,
                             ReportingIsCounted, streamVars
<1>11. CASE ForWebSocket
  <2>1. MsgQueue_' \in Seq(Client \cup {Data})
    <3>1. MsgQueue_ \in Seq(Client \cup {Data}) /\ Data \in Client \cup {Data}
      BY DEF TypeOK
    <3>2. Append(MsgQueue_, Data) \in Seq(Client \cup {Data})
      BY <3>1
    <3>3. MsgQueue_' = MsgQueue_ \/ MsgQueue_' = Append(MsgQueue_, Data)
      BY <1>11 DEF ForWebSocket
    <3> QED BY <3>1, <3>2, <3>3
  <2>2. handler' \in {"kafka", "expireWebSocket"}
    BY <1>11 DEF ForWebSocket
  <2>3. UNCHANGED <<countVars, connected, toDevice, deviceOn, packets, Clients_,
                    SerialNumbers_, debt, fails, left>>
    BY <1>11 DEF ForWebSocket
  <2> QED BY <2>1, <2>2, <2>3, Untouched DEF TypeOK
<1>12. CASE ExpireWebSocket
  <2>1. debt' \in Nat
    BY <1>12 DEF ExpireWebSocket, Owed, TypeOK
  <2> QED BY <1>12, <2>1, StopWebSocketType
          DEF ExpireWebSocket, TypeOK, ReportingIsCounted, streamVars
<1>13. CASE ForKafka
  BY <1>13, Untouched DEF ForKafka, TypeOK, streamVars
<1>14. CASE ExpireKafka
  BY <1>14, StopKafkaType DEF ExpireKafka, TypeOK, ReportingIsCounted, streamVars
<1>15. CASE LifeTimePasses
  BY <1>15 DEF LifeTimePasses, TypeOK, ReportingIsCounted, streamVars
<1>16. CASE DeviceReceives
  <2>1. toDevice' \in Seq(Signal)
    BY <1>16 DEF DeviceReceives, TypeOK
  <2> QED BY <1>16, <2>1, Untouched DEF DeviceReceives, TypeOK, streamVars
<1>17. CASE DeviceSends
  BY <1>17, Untouched DEF DeviceSends, TypeOK, streamVars
<1>18. CASE Disconnect
  <2>0. left' \in [stops : Nat, reconnects : Nat]
    BY <1>18, ReconnectsType DEF Disconnect, TypeOK
  <2>1. left' \in [stops : Nat, reconnects : Nat] /\ toDevice' \in Seq(Signal)
    BY <1>18, <2>0 DEF Disconnect, TypeOK
  <2>2. debt' \in Nat
    BY <1>18 DEF Disconnect, TypeOK
  <2>3. /\ TelemetryWebSocketRefCount_' = 0 /\ TelemetryKafkaRefCount_' = 0
        /\ TelemetryReporting_' = FALSE
        /\ TelemetryWebSocketTimer_' = FALSE /\ TelemetryKafkaTimer_' = FALSE
        /\ connected' = FALSE /\ packets' = 0
        /\ UNCHANGED <<deviceOn, handler, streamVars, fails>>
    BY <1>18 DEF Disconnect
  <2>4. TypeOK'
    BY <2>1, <2>2, <2>3 DEF TypeOK, streamVars
  <2> QED BY <2>3, <2>4 DEF ReportingIsCounted
<1>19. CASE Connect
  BY <1>19, Untouched DEF Connect, TypeOK, streamVars
<1>20. CASE UNCHANGED vars
  BY <1>20, Untouched DEF vars, countVars, streamVars, TypeOK
<1> QED BY <1>1, <1>2, <1>3, <1>4, <1>5, <1>6, <1>7, <1>8, <1>9, <1>10, <1>11,
           <1>12, <1>13, <1>14, <1>15, <1>16, <1>17, <1>18, <1>19, <1>20
        DEF Next, Process_telemetry

(* The states of Telemetry are what its declarations say, whatever the     *)
(* interleaving: no reference count of AP_WS_Connection falls below zero,  *)
(* although operators, clients and expired life times all decrement it.    *)
THEOREM TelemetryTypeCorrect == Spec => []TypeOK
<1>1. IInv => TypeOK
  BY DEF IInv
<1> QED BY Initially, Inductive, <1>1, PTL DEF Spec

(* Telemetry is reported exactly as long as the WebSocket or Kafka holds a *)
(* reference (TelemetryReporting_ and its counts, all under                *)
(* TelemetryMutex_), whoever starts and stops it, in whatever order.       *)
THEOREM ReportingFollowsCounts == Spec => []ReportingIsCounted
<1>1. IInv => ReportingIsCounted
  BY DEF IInv
<1> QED BY Initially, Inductive, <1>1, PTL DEF Spec

-----------------------------------------------------------------------------
(* The clients that count are finitely many. *)
LEMMA LiveFinite == IsFiniteSet(Live) /\ Cardinality(Live) \in Nat
<1>1. Live \subseteq Client
  BY DEF Live
<1>2. IsFiniteSet(Live)
  BY <1>1, TelemetryAssumption, FS_Subset
<1> QED BY <1>2, FS_CardinalityType

(* As long as no client changes its state, neither does the set. *)
LEMMA LiveSame == Clients_' = Clients_ => Live' = Live
BY DEF Live

(* A client that becomes live is one more, a client that closes is one     *)
(* less.                                                                   *)
LEMMA LiveGrows ==
    ASSUME NEW u \in Client, NEW s \in {"asked", "open"}, TypeOK, u \notin Live,
           Clients_' = [Clients_ EXCEPT ![u] = s]
    PROVE  Cardinality(Live') = Cardinality(Live) + 1
<1>1. Live' = Live \cup {u}
  BY DEF Live, TypeOK
<1>2. Cardinality(Live \cup {u}) = Cardinality(Live) + 1
  BY LiveFinite, FS_AddElement
<1> QED BY <1>1, <1>2

LEMMA LiveShrinks ==
    ASSUME NEW u \in Client, NEW s \in {"closed", "gone"}, TypeOK,
           Clients_' = [Clients_ EXCEPT ![u] = s]
    PROVE  Cardinality(Live') = IF u \in Live THEN Cardinality(Live) - 1
                                ELSE Cardinality(Live)
<1>1. Live' = Live \ {u}
  BY DEF Live, TypeOK
<1>2. Cardinality(Live \ {u}) = IF u \in Live THEN Cardinality(Live) - 1
                                ELSE Cardinality(Live)
  BY LiveFinite, FS_RemoveElement
<1> QED BY <1>1, <1>2

(* What a StopWebSocketTelemetry takes, debt or a client gives. *)
LEMMA StopCounts ==
    ASSUME IInv, StopWebSocketTelemetry
    PROVE  TelemetryWebSocketRefCount_' =
             IF TelemetryWebSocketRefCount_ > 0
             THEN TelemetryWebSocketRefCount_ - 1 ELSE 0
BY StopWebSocketType DEF Decrement

(* The counts cover the live clients after every step, if they did before. *)
LEMMA Covered == IInv /\ ClientsCounted /\ [Next]_vars => ClientsCounted'
<1> SUFFICES ASSUME IInv, ClientsCounted, [Next]_vars PROVE ClientsCounted'
  OBVIOUS
<1>1. /\ TypeOK
      /\ TelemetryWebSocketRefCount_ \in Nat /\ debt \in Nat
      /\ Clients_ \in [Client -> ClientState]
  BY DEF IInv, TypeOK
<1>2. /\ Cardinality(Live) \in Nat
      /\ Cardinality(Live) <= TelemetryWebSocketRefCount_ + debt
  BY LiveFinite DEF ClientsCounted
<1>3. ASSUME UNCHANGED <<Clients_, TelemetryWebSocketRefCount_, debt>>
      PROVE  ClientsCounted'
  BY <1>2, <1>3, LiveSame DEF ClientsCounted
<1>4. ASSUME NEW u \in Client, SetWebSocketTelemetryReporting(u)
      PROVE  ClientsCounted'
  <2>1. u \notin Live /\ Clients_' = [Clients_ EXCEPT ![u] = "asked"]
    BY <1>4 DEF SetWebSocketTelemetryReporting, Live
  <2>2. Cardinality(Live') = Cardinality(Live) + 1
    BY <1>1, <2>1, LiveGrows
  <2>3. \/ /\ TelemetryWebSocketRefCount_' = TelemetryWebSocketRefCount_ + 1
           /\ debt' = debt
        \/ /\ TelemetryWebSocketRefCount_' = TelemetryWebSocketRefCount_
           /\ debt' = debt + 1
    BY <1>4 DEF SetWebSocketTelemetryReporting, Increment
  <2> QED BY <1>1, <1>2, <2>2, <2>3 DEF ClientsCounted
<1>5. ASSUME NEW u \in Client, CreateEndpoint(u) PROVE ClientsCounted'
  <2>1. Live' = Live
    BY <1>1, <1>5 DEF CreateEndpoint, Live
  <2> QED BY <1>2, <1>5, <2>1 DEF CreateEndpoint, ClientsCounted, countVars
<1>6. ASSUME NEW u \in Client, NewClient(u) PROVE ClientsCounted'
  <2>1. TelemetryWebSocketRefCount_' = TelemetryWebSocketRefCount_
    BY <1>6 DEF NewClient, countVars
  <2>2. CASE Clients_[u] = "closed"
    <3>1. u \notin Live /\ Clients_' = [Clients_ EXCEPT ![u] = "open"]
          /\ debt' = debt + 1
      BY <1>6, <2>2 DEF NewClient, Live
    <3>2. Cardinality(Live') = Cardinality(Live) + 1
      BY <1>1, <3>1, LiveGrows
    <3> QED BY <1>1, <1>2, <2>1, <3>1, <3>2 DEF ClientsCounted
  <2>3. CASE Clients_[u] # "closed"
    <3>1. Live' = Live /\ debt' = debt
      BY <1>1, <1>6, <2>3 DEF NewClient, Live
    <3> QED BY <1>2, <2>1, <3>1 DEF ClientsCounted
  <2> QED BY <2>2, <2>3
<1>7. ASSUME NEW u \in Client, SendTelemetryShutdown(u) PROVE ClientsCounted'
  <2>1. u \in Live /\ Clients_' = [Clients_ EXCEPT ![u] = "closed"]
        /\ debt' = debt
    BY <1>7 DEF SendTelemetryShutdown, Live
  <2>2. Cardinality(Live') = Cardinality(Live) - 1
    BY <1>1, <2>1, LiveShrinks
  <2>3. TelemetryWebSocketRefCount_' \in {TelemetryWebSocketRefCount_,
          IF TelemetryWebSocketRefCount_ > 0
          THEN TelemetryWebSocketRefCount_ - 1 ELSE 0}
    BY <1>7, StopCounts DEF SendTelemetryShutdown, countVars
  <2> QED BY <1>1, <1>2, <2>1, <2>2, <2>3 DEF ClientsCounted
<1>8. ASSUME StopWebSocketTelemetry, Owed, Clients_' = Clients_
      PROVE  ClientsCounted'
  <2>1. TelemetryWebSocketRefCount_' + debt' = TelemetryWebSocketRefCount_ + debt
    BY <1>1, <1>8, StopCounts DEF Owed
  <2> QED BY <1>2, <1>8, <2>1, LiveSame DEF ClientsCounted
<1>9. CASE OperatorStops
  BY <1>8, <1>9 DEF OperatorStops, streamVars
<1>10. CASE ExpireWebSocket
  BY <1>8, <1>10 DEF ExpireWebSocket, streamVars
<1>11. CASE SetKafkaTelemetryReporting
  BY <1>3, <1>11 DEF SetKafkaTelemetryReporting, streamVars
<1>12. CASE OperatorStopsKafka
  <2>1. TelemetryWebSocketRefCount_' = TelemetryWebSocketRefCount_
    BY <1>12, StopKafkaType DEF OperatorStopsKafka
  <2> QED BY <1>3, <1>12, <2>1 DEF OperatorStopsKafka, streamVars
<1>13. CASE ExpireKafka
  <2>1. TelemetryWebSocketRefCount_' = TelemetryWebSocketRefCount_
    BY <1>13, StopKafkaType DEF ExpireKafka
  <2> QED BY <1>3, <1>13, <2>1 DEF ExpireKafka, streamVars
<1>14. CASE Notify
  <2>1. UNCHANGED <<TelemetryWebSocketRefCount_, debt>>
    BY <1>14 DEF Notify, countVars
  <2>2. CASE Clients_' = Clients_
    BY <1>3, <2>1, <2>2
  <2>3. CASE Clients_' # Clients_
    <3> DEFINE m == Head(MsgQueue_)
    <3>1. m # Data /\ Clients_' = [Clients_ EXCEPT ![m] = "gone"]
      BY <1>14, <2>3 DEF Notify
    <3>2. m \in Client \cup {Data}
      BY <1>14 DEF Notify, IInv, TypeOK
    <3>3. m \in Client
      BY <3>1, <3>2
    <3> HIDE DEF m
    <3>4. Cardinality(Live') = IF m \in Live THEN Cardinality(Live) - 1
                               ELSE Cardinality(Live)
      BY <1>1, <3>1, <3>3, LiveShrinks
    <3> QED BY <1>1, <1>2, <2>1, <3>4 DEF ClientsCounted
  <2> QED BY <2>2, <2>3
<1>15. CASE ReadPacket \/ ForWebSocket \/ ForKafka
  BY <1>3, <1>15 DEF ReadPacket, ForWebSocket, ForKafka, countVars, streamVars
<1>16. CASE StopRunaway \/ LifeTimePasses
  BY <1>3, <1>16 DEF StopRunaway, LifeTimePasses, streamVars
<1>17. CASE DeviceReceives \/ DeviceSends \/ Connect
  BY <1>3, <1>17 DEF DeviceReceives, DeviceSends, Connect, countVars, streamVars
<1>18. CASE Disconnect
  <2>1. TelemetryWebSocketRefCount_' + debt' = TelemetryWebSocketRefCount_ + debt
    BY <1>1, <1>18 DEF Disconnect
  <2> QED BY <1>2, <1>18, <2>1, LiveSame DEF Disconnect, ClientsCounted, streamVars
<1>19. CASE UNCHANGED vars
  BY <1>3, <1>19 DEF vars, countVars, streamVars
<1> QED BY <1>4, <1>5, <1>6, <1>7, <1>9, <1>10, <1>11, <1>12, <1>13, <1>14,
           <1>15, <1>16, <1>17, <1>18, <1>19 DEF Next, Process_telemetry

(* No WebSocket client loses its reference to another one: the count of    *)
(* the connection and what operators, expired life times and lost          *)
(* connections took cover the live clients of TelemetryStream, however     *)
(* many there are.                                                         *)
THEOREM ClientsAreCounted == Spec => []ClientsCounted
<1>1. Init => ClientsCounted
  <2> SUFFICES ASSUME Init PROVE ClientsCounted
    OBVIOUS
  <2>1. Live = {}
    BY DEF Init, Live
  <2>2. Cardinality(Live) = 0
    BY <2>1, FS_EmptySet
  <2> QED BY <2>2 DEF Init, ClientsCounted
<1> QED BY Initially, Inductive, Covered, <1>1, PTL DEF Spec

-----------------------------------------------------------------------------
(* The terminals. *)

EndPointObject ==
    [used : BOOLEAN, DeviceIsAttached_ : BOOLEAN, completed_ : BOOLEAN,
     old : BOOLEAN, Device_fd : DeviceSocket \cup {NoSocket},
     DeviceSocket_ : DeviceSocket \cup {NoSocket},
     WSSocket_ : ClientSocket \cup {NoSocket, Closed}]

RttyTypeOK ==
    /\ EndPoints_ \subseteq EndPoint
    /\ ep \in [EndPoint -> EndPointObject]
    /\ Sockets_ \in [DeviceSocket -> {"none", "plain", "valid"}]
    /\ Connected_ \in [DeviceSocket -> EndPoint \cup {NoEndPoint}]
    /\ RttyClients_ \in [ClientSocket -> EndPoint \cup {NoEndPoint}]
    /\ asking \subseteq EndPoint
    /\ claimed \in [DeviceSocket -> SUBSET EndPoint]
    /\ tried \subseteq EndPoint

(* End point and browser socket name each other, an end point that exists  *)
(* has no closed client, and one that was never created does not exist.    *)
Paired ==
    /\ \A e \in EndPoint, c \in ClientSocket :
         ep[e].WSSocket_ = c => RttyClients_[c] = e
    /\ \A e \in EndPoints_ : ep[e].used /\ ep[e].WSSocket_ # Closed
    /\ \A e \in EndPoint : ep[e].DeviceIsAttached_ => ep[e].Device_fd # NoSocket

RttyInv == RttyTypeOK /\ Paired /\ TerminalsMeet

-----------------------------------------------------------------------------
(* The end of sessions. *)

(* What EndConnection leaves is in order, whichever sockets S it removes   *)
(* and whichever end points E it ends.                                     *)
LEMMA EndingKeepsOrder ==
    ASSUME RttyInv,
           NEW E \in SUBSET EndPoint, NEW S \in SUBSET DeviceSocket,
           Sockets_' = RemoveSocket(S), Connected_' = Forget(S),
           RttyClients_' = WithoutClients(E), EndPoints_' = EndPoints_ \ E,
           ep' \in [EndPoint -> EndPointObject],
           \A e \in EndPoint :
              /\ ep'[e].WSSocket_ = ClientsClosed(E)[e].WSSocket_
              /\ ep'[e].DeviceSocket_ = ep[e].DeviceSocket_
              /\ ep'[e].DeviceIsAttached_ => ep'[e].Device_fd # NoSocket
              /\ e \notin E => ep'[e] = ep[e],
           claimed' \in [DeviceSocket -> SUBSET EndPoint],
           \A s \in DeviceSocket : claimed[s] \subseteq claimed'[s],
           UNCHANGED <<asking, tried>>
    PROVE  RttyInv'
<1> USE RttyAssumption DEF RttyInv
<1>1. RttyTypeOK'
    BY DEF RttyTypeOK, RemoveSocket, Forget, WithoutClients
<1>2. \A e \in EndPoint : ep'[e].WSSocket_ = IF e \in E /\ HasClient(e) THEN Closed
                                             ELSE ep[e].WSSocket_
    BY DEF ClientsClosed, RttyTypeOK, EndPointObject
<1>3. \A c \in ClientSocket : RttyClients_'[c] # NoEndPoint =>
          RttyClients_'[c] = RttyClients_[c] /\ RttyClients_'[c] \notin E
    <2> SUFFICES ASSUME NEW c \in ClientSocket, RttyClients_'[c] # NoEndPoint
                 PROVE  RttyClients_'[c] = RttyClients_[c] /\ RttyClients_'[c] \notin E
        OBVIOUS
    <2>1. RttyClients_'[c] = RttyClients_[c] /\ ~\E e \in E : ep[e].WSSocket_ = c
        BY DEF WithoutClients
    <2>2. ep[RttyClients_[c]].WSSocket_ = c
        BY <2>1 DEF TerminalsMeet, ClientsAreSessions
    <2> QED BY <2>1, <2>2
<1>4. \A e \in EndPoint, c \in ClientSocket :
          ep[e].WSSocket_ = c /\ e \notin E => RttyClients_'[c] = e
    BY DEF WithoutClients, RttyTypeOK, Paired
<1>5. \A s \in DeviceSocket : Connected_'[s] # NoEndPoint =>
          s \notin S /\ Connected_'[s] = Connected_[s] /\ Sockets_'[s] = Sockets_[s]
    BY DEF Forget, RemoveSocket, RttyTypeOK
<1>6. Paired'
    <2>1. \A e \in EndPoint, c \in ClientSocket :
             ep'[e].WSSocket_ = c => RttyClients_'[c] = e
        BY <1>2, <1>4 DEF HasClient
    <2> QED BY <2>1 DEF Paired, RttyTypeOK
<1>7. SessionIsolation'
    <2>1. \A e \in EndPoint : Referenced(e)' => Referenced(e)
        BY <1>3, <1>5 DEF Referenced
    <2> QED BY <1>5, <2>1 DEF SessionIsolation, TerminalsMeet, RttyTypeOK, EndPointObject
<1>8. ClientsAreSessions'
    BY <1>3 DEF ClientsAreSessions, TerminalsMeet, RttyTypeOK
<1>9. CompletedHasClient'
    <2> SUFFICES ASSUME NEW e \in EndPoints_ \ E, ep[e].completed_
                 PROVE  \E c \in ClientSocket : RttyClients_'[c] = e
        BY DEF CompletedHasClient, RttyTypeOK
    <2>1. PICK c \in ClientSocket : RttyClients_[c] = e
        BY DEF TerminalsMeet, CompletedHasClient
    <2>2. ep[e].WSSocket_ = c
        BY <2>1 DEF TerminalsMeet, ClientsAreSessions, RttyTypeOK
    <2> QED BY <1>4, <2>2 DEF RttyTypeOK
<1>10. BothMeansLogin'
    <2> SUFFICES ASSUME NEW e \in EndPoints_ \ E, ep[e].DeviceIsAttached_,
                        HasClient(e), Connected_'[ep[e].Device_fd] = e
                 PROVE  e \in tried
        BY DEF BothMeansLogin, HasClient, RttyTypeOK
    <2>1. ep[e].Device_fd \in DeviceSocket /\ e # NoEndPoint
        BY DEF Paired, RttyTypeOK, EndPointObject
    <2>2. Connected_[ep[e].Device_fd] = e
        BY <1>5, <2>1
    <2> QED BY <2>2 DEF TerminalsMeet, BothMeansLogin
<1> QED BY <1>1, <1>6, <1>7, <1>8, <1>9, <1>10 DEF TerminalsMeet

LEMMA EndEndPointsKeeps ==
    ASSUME RttyInv, NEW E \in SUBSET EndPoint, EndEndPoints(E),
           UNCHANGED <<asking, claimed, tried>>
    PROVE  RttyInv'
<1> DEFINE fds == {ep[e].Device_fd : e \in E} \ {NoSocket}
<1>1. fds \in SUBSET DeviceSocket
    BY DEF RttyInv, RttyTypeOK, EndPointObject
<1>2. /\ Sockets_' = RemoveSocket(fds) /\ Connected_' = Forget(fds)
      /\ RttyClients_' = WithoutClients(E) /\ EndPoints_' = EndPoints_ \ E
      /\ ep' = ClientsClosed(E)
    BY DEF EndEndPoints
<1>3. /\ ep' \in [EndPoint -> EndPointObject]
      /\ \A e \in EndPoint :
            /\ ep'[e].WSSocket_ = ClientsClosed(E)[e].WSSocket_
            /\ ep'[e].DeviceSocket_ = ep[e].DeviceSocket_
            /\ ep'[e].DeviceIsAttached_ => ep'[e].Device_fd # NoSocket
            /\ e \notin E => ep'[e] = ep[e]
    BY <1>2 DEF ClientsClosed, RttyInv, Paired, RttyTypeOK, EndPointObject
<1>4. claimed' \in [DeviceSocket -> SUBSET EndPoint]
    BY DEF RttyInv, RttyTypeOK
<1> HIDE DEF fds
<1> QED BY <1>1, <1>2, <1>3, <1>4, EndingKeepsOrder

LEMMA EndSocketKeeps ==
    ASSUME RttyInv, NEW s \in DeviceSocket, EndSocket(s),
           UNCHANGED <<asking, claimed, tried>>
    PROVE  RttyInv'
<1> DEFINE E == {Connected_[s]} \ {NoEndPoint}
<1>1. E \in SUBSET EndPoint
    BY DEF RttyInv, RttyTypeOK
<1>2. /\ Sockets_' = RemoveSocket({s}) /\ Connected_' = Forget({s})
      /\ RttyClients_' = WithoutClients(E) /\ EndPoints_' = EndPoints_ \ E
      /\ ep' = ClientsClosed(E)
    BY DEF EndSocket
<1>3. /\ ep' \in [EndPoint -> EndPointObject]
      /\ \A e \in EndPoint :
            /\ ep'[e].WSSocket_ = ClientsClosed(E)[e].WSSocket_
            /\ ep'[e].DeviceSocket_ = ep[e].DeviceSocket_
            /\ ep'[e].DeviceIsAttached_ => ep'[e].Device_fd # NoSocket
            /\ e \notin E => ep'[e] = ep[e]
    BY <1>2 DEF ClientsClosed, RttyInv, Paired, RttyTypeOK, EndPointObject
<1>4. claimed' \in [DeviceSocket -> SUBSET EndPoint]
    BY DEF RttyInv, RttyTypeOK
<1> HIDE DEF E
<1> QED BY <1>1, <1>2, <1>3, <1>4, EndingKeepsOrder

LEMMA UnansweredKeeps ==
    ASSUME RttyInv, NEW s \in DeviceSocket, NEW e \in EndPoint, RegisterUnanswered(s, e)
    PROVE  RttyInv'
<1>1. /\ Sockets_' = RemoveSocket({s}) /\ Connected_' = Forget({s})
      /\ RttyClients_' = WithoutClients({e}) /\ EndPoints_' = EndPoints_ \ {e}
      /\ ep' = [ClientsClosed({e}) EXCEPT ![e].Device_fd = s]
      /\ claimed' = [claimed EXCEPT ![s] = @ \cup {e}]
      /\ UNCHANGED <<asking, tried>>
    BY DEF RegisterUnanswered
<1>2. /\ ClientsClosed({e}) \in [EndPoint -> EndPointObject]
      /\ \A d \in EndPoint :
            /\ ClientsClosed({e})[d].DeviceSocket_ = ep[d].DeviceSocket_
            /\ d # e => ClientsClosed({e})[d] = ep[d]
    BY DEF ClientsClosed, RttyInv, RttyTypeOK, EndPointObject
<1> DEFINE closed == ClientsClosed({e})
<1>3. /\ closed \in [EndPoint -> EndPointObject]
      /\ ep' = [closed EXCEPT ![e].Device_fd = s]
      /\ \A d \in EndPoint : closed[d].DeviceSocket_ = ep[d].DeviceSocket_
      /\ \A d \in EndPoint : d # e => closed[d] = ep[d]
    BY <1>1, <1>2
<1> HIDE DEF closed
<1>4. /\ closed[e] \in EndPointObject
      /\ ep' = [closed EXCEPT ![e] = [closed[e] EXCEPT !.Device_fd = s]]
    BY <1>3
<1>5. [closed[e] EXCEPT !.Device_fd = s] \in EndPointObject
    BY <1>4 DEF EndPointObject
<1>6. /\ ep' \in [EndPoint -> EndPointObject]
      /\ ep'[e] = [closed[e] EXCEPT !.Device_fd = s]
      /\ \A d \in EndPoint : d # e => ep'[d] = ep[d]
    BY <1>3, <1>4, <1>5
<1>7. /\ ep'[e].WSSocket_ = closed[e].WSSocket_
      /\ ep'[e].DeviceSocket_ = ep[e].DeviceSocket_
      /\ ep'[e].Device_fd # NoSocket
    BY <1>3, <1>4, <1>6, RttyAssumption DEF EndPointObject
<1>8. \A d \in EndPoint :
          /\ ep'[d].WSSocket_ = closed[d].WSSocket_
          /\ ep'[d].DeviceSocket_ = ep[d].DeviceSocket_
          /\ ep'[d].DeviceIsAttached_ => ep'[d].Device_fd # NoSocket
          /\ d \notin {e} => ep'[d] = ep[d]
    BY <1>3, <1>6, <1>7 DEF RttyInv, Paired
<1>9. claimed' \in [DeviceSocket -> SUBSET EndPoint]
    BY <1>1 DEF RttyInv, RttyTypeOK
<1>10. \A t \in DeviceSocket : claimed[t] \subseteq claimed'[t]
    <2>1. claimed \in [DeviceSocket -> SUBSET EndPoint]
        BY DEF RttyInv, RttyTypeOK
    <2> QED BY <1>1, <2>1
<1>11. \A d \in EndPoint :
          /\ ep'[d].WSSocket_ = ClientsClosed({e})[d].WSSocket_
          /\ ep'[d].DeviceSocket_ = ep[d].DeviceSocket_
          /\ ep'[d].DeviceIsAttached_ => ep'[d].Device_fd # NoSocket
          /\ d \notin {e} => ep'[d] = ep[d]
    BY <1>8 DEF closed
<1>12. {e} \in SUBSET EndPoint /\ {s} \in SUBSET DeviceSocket
    OBVIOUS
<1>13. ep' \in [EndPoint -> EndPointObject]
    BY <1>6
<1> QED BY ONLY RttyInv, <1>1, <1>9, <1>10, <1>11, <1>12, <1>13, EndingKeepsOrder

-----------------------------------------------------------------------------
(* The steps that begin a session. *)

(* What a browser socket that may be given out is not. *)
LEMMA FreeClientIsFresh ==
    ASSUME RttyInv, NEW c \in ClientSocket, FreeClient(c)
    PROVE  RttyClients_[c] = NoEndPoint /\ \A e \in EndPoint : ep[e].WSSocket_ # c
<1> USE RttyAssumption DEF RttyInv
<1>1. RttyClients_[c] = NoEndPoint
    BY DEF FreeClient, Referenced, RttyTypeOK, TerminalsMeet, ClientsAreSessions
<1> QED BY <1>1 DEF Paired

LEMMA CreateEndPointKeeps ==
    ASSUME RttyInv, NEW e \in EndPoint, CreateEndPoint(e)
    PROVE  RttyInv'
<1> USE RttyAssumption DEF RttyInv
<1>1. /\ EndPoints_' = EndPoints_ \cup {e}
      /\ ep' = [ep EXCEPT ![e] = [NewEndPoint EXCEPT !.used = TRUE]]
      /\ UNCHANGED <<Sockets_, Connected_, RttyClients_, asking, claimed, tried>>
    BY DEF CreateEndPoint
<1>2. [NewEndPoint EXCEPT !.used = TRUE] \in EndPointObject
    BY DEF NewEndPoint, EndPointObject
<1>3. /\ ep' \in [EndPoint -> EndPointObject]
      /\ ep'[e] = [NewEndPoint EXCEPT !.used = TRUE]
      /\ \A d \in EndPoint : d # e => ep'[d] = ep[d]
    BY <1>1, <1>2 DEF RttyTypeOK
<1>4. /\ ep'[e].used /\ ~ep'[e].completed_ /\ ~ep'[e].DeviceIsAttached_
      /\ ep'[e].WSSocket_ = NoSocket /\ ep'[e].DeviceSocket_ = NoSocket
    BY <1>3 DEF NewEndPoint
<1>5. e \notin EndPoints_ /\ \A c \in ClientSocket : RttyClients_[c] # e
    BY DEF CreateEndPoint, Paired, TerminalsMeet, ClientsAreSessions
<1>6. RttyTypeOK'
    BY <1>1, <1>3 DEF RttyTypeOK
<1>7. Paired'
    BY <1>1, <1>3, <1>4 DEF Paired, RttyTypeOK
<1>8. SessionIsolation'
    <2>1. \A d \in EndPoint : d # e /\ Referenced(d)' => Referenced(d)
        BY <1>1 DEF Referenced
    <2> QED BY <1>1, <1>3, <1>4, <2>1 DEF SessionIsolation, TerminalsMeet
<1>9. ClientsAreSessions'
    BY <1>1, <1>3, <1>5 DEF ClientsAreSessions, TerminalsMeet, RttyTypeOK
<1>10. CompletedHasClient'
    BY <1>1, <1>3, <1>4 DEF CompletedHasClient, TerminalsMeet, RttyTypeOK
<1>11. BothMeansLogin'
    BY <1>1, <1>3, <1>4 DEF BothMeansLogin, HasClient, TerminalsMeet, RttyTypeOK
<1> QED BY <1>6, <1>7, <1>8, <1>9, <1>10, <1>11 DEF TerminalsMeet

(* A browser that asks, and one that is refused, leave everything else. *)
LEMMA AskingKeeps ==
    ASSUME RttyInv, asking' \subseteq EndPoint,
           UNCHANGED <<EndPoints_, ep, Sockets_, Connected_, RttyClients_, claimed, tried>>
    PROVE  RttyInv'
  BY DEF RttyInv, RttyTypeOK, Paired, TerminalsMeet, SessionIsolation, Referenced,
         ClientsAreSessions, CompletedHasClient, BothMeansLogin, HasClient

LEMMA AgeKeeps ==
    ASSUME RttyInv, NEW e \in EndPoint, Age(e)
    PROVE  RttyInv'
<1> USE DEF RttyInv
<1>1. /\ ep' = [ep EXCEPT ![e].old = TRUE]
      /\ UNCHANGED <<EndPoints_, Sockets_, Connected_, RttyClients_, asking, claimed, tried>>
    BY DEF Age
<1>2. /\ ep' \in [EndPoint -> EndPointObject]
      /\ \A d \in EndPoint :
            /\ ep'[d].used = ep[d].used
            /\ ep'[d].DeviceIsAttached_ = ep[d].DeviceIsAttached_
            /\ ep'[d].completed_ = ep[d].completed_
            /\ ep'[d].Device_fd = ep[d].Device_fd
            /\ ep'[d].DeviceSocket_ = ep[d].DeviceSocket_
            /\ ep'[d].WSSocket_ = ep[d].WSSocket_
    <2> DEFINE o == [ep[e] EXCEPT !.old = TRUE]
    <2>1. ep \in [EndPoint -> EndPointObject] /\ ep[e] \in EndPointObject
        BY DEF RttyTypeOK
    <2>2. /\ o \in EndPointObject
          /\ o.used = ep[e].used /\ o.completed_ = ep[e].completed_
          /\ o.DeviceIsAttached_ = ep[e].DeviceIsAttached_
          /\ o.Device_fd = ep[e].Device_fd /\ o.DeviceSocket_ = ep[e].DeviceSocket_
          /\ o.WSSocket_ = ep[e].WSSocket_
        BY <2>1 DEF EndPointObject
    <2>3. ep' = [ep EXCEPT ![e] = o]
        BY <1>1, <2>1
    <2> HIDE DEF o
    <2> QED BY <2>1, <2>2, <2>3
<1>3. RttyTypeOK' /\ Paired'
    BY <1>1, <1>2 DEF RttyTypeOK, Paired
<1>4. SessionIsolation'
    BY <1>1, <1>2 DEF SessionIsolation, Referenced, TerminalsMeet
<1>5. ClientsAreSessions' /\ CompletedHasClient'
    BY <1>1, <1>2 DEF ClientsAreSessions, CompletedHasClient, TerminalsMeet, RttyTypeOK
<1>6. BothMeansLogin'
    BY <1>1, <1>2 DEF BothMeansLogin, HasClient, TerminalsMeet, RttyTypeOK
<1> QED BY <1>3, <1>4, <1>5, <1>6 DEF TerminalsMeet

(* A descriptor that is given to a new device: nobody refers to the old one. *)
LEMMA AcceptKeeps ==
    ASSUME RttyInv, NEW s \in DeviceSocket, onDeviceAccept(s)
    PROVE  RttyInv'
<1> USE DEF RttyInv
<1>1. PICK certificate \in {"plain", "valid"} :
          Sockets_' = [Sockets_ EXCEPT ![s] = certificate]
    BY DEF onDeviceAccept
<1>2. /\ claimed' = [claimed EXCEPT ![s] = {}]
      /\ UNCHANGED <<EndPoints_, ep, Connected_, RttyClients_, asking, tried>>
    BY DEF onDeviceAccept
<1>3. RttyTypeOK'
    <2>1. claimed' \in [DeviceSocket -> SUBSET EndPoint]
        BY <1>2 DEF RttyTypeOK
    <2>2. Sockets_' \in [DeviceSocket -> {"none", "plain", "valid"}]
        BY <1>1 DEF RttyTypeOK
    <2> QED BY <1>2, <2>1, <2>2 DEF RttyTypeOK
<1>4. Connected_[s] = NoEndPoint
    BY DEF onDeviceAccept, FreeDevice, TerminalsMeet, SessionIsolation
<1>5. \A t \in DeviceSocket : t # s => claimed'[t] = claimed[t] /\ Sockets_'[t] = Sockets_[t]
    BY <1>1, <1>2 DEF RttyTypeOK
<1>6. SessionIsolation'
    <2>1. \A e \in EndPoint : Referenced(e)' => Referenced(e) /\ ep[e].DeviceSocket_ # s
        BY <1>2 DEF Referenced, onDeviceAccept, FreeDevice
    <2>2. \A e \in EndPoint : ep[e].DeviceSocket_ \in DeviceSocket \cup {NoSocket}
        BY DEF RttyTypeOK, EndPointObject
    <2> QED BY <1>2, <1>4, <1>5, <2>1, <2>2 DEF SessionIsolation, TerminalsMeet
<1>7. Paired' /\ ClientsAreSessions' /\ CompletedHasClient' /\ BothMeansLogin'
    BY <1>2 DEF Paired, TerminalsMeet, ClientsAreSessions, CompletedHasClient,
                BothMeansLogin, HasClient
<1> QED BY <1>3, <1>6, <1>7 DEF TerminalsMeet

(* A device that is let in: its end point exists, so its browser, if it    *)
(* has one, is a live socket, and one of the two arrivals sends the login. *)
LEMMA RegisterKeeps ==
    ASSUME RttyInv, NEW s \in DeviceSocket, NEW e \in EndPoint, Register(s, e)
    PROVE  RttyInv'
<1> USE RttyAssumption DEF RttyInv
<1>1. /\ Sockets_[s] # "none" /\ e \in EndPoints_
      /\ e \in MTLS => Sockets_[s] = "valid"
      /\ claimed' = [claimed EXCEPT ![s] = @ \cup {e}]
      /\ Connected_' = [Connected_ EXCEPT ![s] = e]
      /\ tried' = IF HasClient(e) THEN tried \cup {e} ELSE tried
      /\ UNCHANGED <<EndPoints_, Sockets_, RttyClients_, asking>>
    BY DEF Register, Accepts
<1> DEFINE joined == [ep[e] EXCEPT !.Device_fd = s, !.DeviceIsAttached_ = TRUE,
                                   !.DeviceSocket_ = s]
<1>2. PICK sent \in BOOLEAN :
          ep' = [ep EXCEPT ![e] = IF HasClient(e) THEN Login(e, joined, sent) ELSE joined]
    BY DEF Register
<1>3. ep \in [EndPoint -> EndPointObject] /\ ep[e] \in EndPointObject
    BY DEF RttyTypeOK
<1>4. /\ joined \in EndPointObject
      /\ joined.used = ep[e].used /\ joined.WSSocket_ = ep[e].WSSocket_
      /\ joined.completed_ = ep[e].completed_
      /\ joined.Device_fd = s /\ joined.DeviceSocket_ = s
    BY <1>3 DEF EndPointObject
<1> HIDE DEF joined
<1>5. /\ Login(e, joined, sent) \in EndPointObject
      /\ Login(e, joined, sent).used = ep[e].used
      /\ Login(e, joined, sent).WSSocket_ = ep[e].WSSocket_
      /\ Login(e, joined, sent).Device_fd = s
      /\ Login(e, joined, sent).DeviceSocket_ = s
    BY <1>4 DEF Login, EndPointObject
<1>6. /\ ep' \in [EndPoint -> EndPointObject]
      /\ ep'[e].used = ep[e].used /\ ep'[e].WSSocket_ = ep[e].WSSocket_
      /\ ep'[e].Device_fd = s /\ ep'[e].DeviceSocket_ = s
      /\ ep'[e].completed_ => ep[e].completed_ \/ HasClient(e)
      /\ \A d \in EndPoint : d # e => ep'[d] = ep[d]
    BY <1>2, <1>3, <1>4, <1>5
<1>7. /\ claimed' \in [DeviceSocket -> SUBSET EndPoint]
      /\ e \in claimed'[s]
      /\ \A t \in DeviceSocket : claimed[t] \subseteq claimed'[t]
    <2>1. claimed \in [DeviceSocket -> SUBSET EndPoint]
        BY DEF RttyTypeOK
    <2> QED BY <1>1, <2>1
<1>8. /\ Connected_' \in [DeviceSocket -> EndPoint \cup {NoEndPoint}]
      /\ Connected_'[s] = e
      /\ \A t \in DeviceSocket : t # s => Connected_'[t] = Connected_[t]
    BY <1>1 DEF RttyTypeOK
<1>9. RttyTypeOK'
    BY <1>1, <1>6, <1>7, <1>8 DEF RttyTypeOK
<1>10. Paired'
    BY <1>1, <1>6 DEF Paired, RttyTypeOK
<1>11. SessionIsolation'
    <2>1. \A d \in EndPoint : Referenced(d)' => Referenced(d)
        BY <1>1, <1>8 DEF Referenced
    <2>2. \A d \in EndPoint : d # e /\ Referenced(d)' /\ ep'[d].DeviceSocket_ # NoSocket
              => d \in claimed'[ep'[d].DeviceSocket_]
        <3> SUFFICES ASSUME NEW d \in EndPoint, d # e, Referenced(d),
                            ep[d].DeviceSocket_ # NoSocket
                     PROVE  d \in claimed'[ep[d].DeviceSocket_]
            BY <1>6, <2>1
        <3>1. ep[d].DeviceSocket_ \in DeviceSocket
            BY <1>3 DEF EndPointObject
        <3>2. d \in claimed[ep[d].DeviceSocket_]
            BY DEF TerminalsMeet, SessionIsolation
        <3> QED BY <1>7, <3>1, <3>2
    <2>3. \A t \in DeviceSocket : Connected_'[t] # NoEndPoint =>
              /\ Sockets_'[t] # "none"
              /\ Connected_'[t] \in claimed'[t]
              /\ Connected_'[t] \in MTLS => Sockets_'[t] = "valid"
        BY <1>1, <1>7, <1>8 DEF TerminalsMeet, SessionIsolation
    <2> QED BY <1>6, <1>7, <2>2, <2>3 DEF SessionIsolation
<1>12. ClientsAreSessions'
    BY <1>1, <1>6 DEF ClientsAreSessions, TerminalsMeet, RttyTypeOK
<1>13. CompletedHasClient'
    <2>1. HasClient(e) => \E c \in ClientSocket : RttyClients_[c] = e
        BY <1>1, <1>3 DEF HasClient, Paired, EndPointObject
    <2> QED BY <1>1, <1>6, <2>1 DEF CompletedHasClient, TerminalsMeet, RttyTypeOK
<1>14. BothMeansLogin'
    <2> SUFFICES ASSUME NEW d \in EndPoints_, d # e, ep[d].DeviceIsAttached_,
                        HasClient(d), Connected_'[ep[d].Device_fd] = d
                 PROVE  d \in tried
        BY <1>1, <1>6 DEF BothMeansLogin, HasClient, RttyTypeOK
    <2>1. ep[d].Device_fd \in DeviceSocket
        BY <1>3 DEF Paired, RttyTypeOK, EndPointObject
    <2>2. Connected_[ep[d].Device_fd] = d
        BY <1>8, <2>1
    <2> QED BY <2>2 DEF TerminalsMeet, BothMeansLogin
<1> QED BY <1>9, <1>10, <1>11, <1>12, <1>13, <1>14 DEF TerminalsMeet

(* A browser that becomes the client of a session: the device, if it is    *)
(* there and still serves this session, is sent the login now, because a   *)
(* session that is completed has a client already.                         *)
LEMMA CreateWSClientKeeps ==
    ASSUME RttyInv, NEW e \in EndPoint, NEW c \in ClientSocket, CreateWSClient(e, c)
    PROVE  RttyInv'
<1> USE RttyAssumption DEF RttyInv
<1>1. /\ e \in EndPoints_ /\ ~HasClient(e) /\ FreeClient(c)
      /\ asking' = asking \ {e}
      /\ RttyClients_' = [RttyClients_ EXCEPT ![c] = e]
      /\ tried' = IF LoginWaits(e) THEN tried \cup {e} ELSE tried
      /\ UNCHANGED <<EndPoints_, Sockets_, Connected_, claimed>>
    BY DEF CreateWSClient
<1> DEFINE joined == [ep[e] EXCEPT !.WSSocket_ = c]
<1>2. PICK sent \in BOOLEAN :
          ep' = [ep EXCEPT ![e] = IF LoginWaits(e) THEN Login(e, joined, sent) ELSE joined]
    BY DEF CreateWSClient
<1>3. ep \in [EndPoint -> EndPointObject] /\ ep[e] \in EndPointObject
    BY DEF RttyTypeOK
<1>4. /\ joined \in EndPointObject
      /\ joined.used = ep[e].used /\ joined.WSSocket_ = c
      /\ joined.DeviceIsAttached_ = ep[e].DeviceIsAttached_
      /\ joined.Device_fd = ep[e].Device_fd
      /\ joined.DeviceSocket_ = ep[e].DeviceSocket_
    BY <1>3 DEF EndPointObject
<1> HIDE DEF joined
<1>5. /\ Login(e, joined, sent) \in EndPointObject
      /\ Login(e, joined, sent).used = ep[e].used
      /\ Login(e, joined, sent).WSSocket_ = c
      /\ Login(e, joined, sent).DeviceIsAttached_ = ep[e].DeviceIsAttached_
      /\ Login(e, joined, sent).Device_fd = ep[e].Device_fd
      /\ Login(e, joined, sent).DeviceSocket_ = ep[e].DeviceSocket_
    BY <1>4 DEF Login, EndPointObject
<1>6. /\ ep' \in [EndPoint -> EndPointObject]
      /\ ep'[e].used = ep[e].used /\ ep'[e].WSSocket_ = c
      /\ ep'[e].DeviceIsAttached_ = ep[e].DeviceIsAttached_
      /\ ep'[e].Device_fd = ep[e].Device_fd
      /\ ep'[e].DeviceSocket_ = ep[e].DeviceSocket_
      /\ \A d \in EndPoint : d # e => ep'[d] = ep[d]
    BY <1>2, <1>3, <1>4, <1>5
<1>7. /\ RttyClients_[c] = NoEndPoint
      /\ \A d \in EndPoint : ep[d].WSSocket_ # c
    BY <1>1, FreeClientIsFresh
<1>8. /\ RttyClients_' \in [ClientSocket -> EndPoint \cup {NoEndPoint}]
      /\ RttyClients_'[c] = e
      /\ \A b \in ClientSocket : b # c => RttyClients_'[b] = RttyClients_[b]
    BY <1>1 DEF RttyTypeOK
<1>9. RttyTypeOK'
    BY <1>1, <1>6, <1>8 DEF RttyTypeOK
<1>10. Paired'
    BY <1>1, <1>6, <1>7, <1>8 DEF Paired, RttyTypeOK
<1>11. SessionIsolation'
    <2>1. \A d \in EndPoint : Referenced(d)' => Referenced(d)
        BY <1>1, <1>8 DEF Referenced
    <2>2. \A d \in EndPoint : ep'[d].DeviceSocket_ = ep[d].DeviceSocket_
        BY <1>6
    <2> QED BY <1>1, <2>1, <2>2 DEF SessionIsolation, TerminalsMeet
<1>12. ClientsAreSessions'
    <2> SUFFICES ASSUME NEW b \in ClientSocket, b # c, RttyClients_[b] # NoEndPoint
                 PROVE  RttyClients_[b] \in EndPoints_ /\ ep'[RttyClients_[b]].WSSocket_ = b
        BY <1>1, <1>6, <1>8 DEF ClientsAreSessions
    <2>1. RttyClients_[b] \in EndPoints_ /\ ep[RttyClients_[b]].WSSocket_ = b
        BY DEF TerminalsMeet, ClientsAreSessions
    <2>2. RttyClients_[b] # e
        BY <1>1, <2>1 DEF HasClient
    <2> QED BY <1>6, <2>1, <2>2 DEF RttyTypeOK
<1>13. CompletedHasClient'
    BY <1>1, <1>6, <1>7, <1>8 DEF CompletedHasClient, TerminalsMeet, RttyTypeOK
<1>14. BothMeansLogin'
    <2>1. ASSUME ep[e].DeviceIsAttached_, Connected_[ep[e].Device_fd] = e
          PROVE  LoginWaits(e)
        <3>1. ep[e].Device_fd \in DeviceSocket
            BY <1>3, <2>1 DEF Paired, EndPointObject
        <3>2. Sockets_[ep[e].Device_fd] # "none"
            BY <2>1, <3>1 DEF TerminalsMeet, SessionIsolation
        <3>3. ~ep[e].completed_
            BY <1>1 DEF HasClient, TerminalsMeet, CompletedHasClient,
                        ClientsAreSessions
        <3> QED BY <2>1, <3>1, <3>2, <3>3 DEF LoginWaits
    <2> QED BY <1>1, <1>6, <2>1 DEF BothMeansLogin, HasClient, TerminalsMeet, RttyTypeOK
<1> QED BY <1>9, <1>10, <1>11, <1>12, <1>13, <1>14 DEF TerminalsMeet

-----------------------------------------------------------------------------

(* Every session starts with nothing. *)
LEMMA RttyInvInit ==
    RttyInit => RttyInv
<1> SUFFICES ASSUME RttyInit PROVE RttyInv
    OBVIOUS
<1> USE RttyAssumption DEF RttyInit
<1>1. NewEndPoint \in EndPointObject
    BY DEF NewEndPoint, EndPointObject
<1>2. RttyTypeOK
    BY <1>1 DEF RttyTypeOK
<1>3. \A e \in EndPoint : /\ ep[e].WSSocket_ = NoSocket /\ ~ep[e].DeviceIsAttached_
                          /\ ep[e].DeviceSocket_ = NoSocket
    BY DEF NewEndPoint
<1> QED BY <1>2, <1>3 DEF RttyInv, Paired, TerminalsMeet, SessionIsolation, Referenced,
            ClientsAreSessions, CompletedHasClient, BothMeansLogin

(* Every handler keeps the invariant. *)
LEMMA RttyInvStep ==
    RttyInv /\ [RttyNext]_rttyVars => RttyInv'
<1> SUFFICES ASSUME RttyInv, [RttyNext]_rttyVars PROVE RttyInv'
    OBVIOUS
<1>1. ASSUME NEW e \in EndPoint, ValidId(e) \/ CreateWSClientRefused(e)
      PROVE  RttyInv'
    BY <1>1, AskingKeeps DEF ValidId, CreateWSClientRefused, RttyInv, RttyTypeOK
<1>2. ASSUME NEW s \in DeviceSocket, DeviceGone(s)
      PROVE  RttyInv'
    BY <1>2, EndSocketKeeps DEF DeviceGone
<1>3. ASSUME NEW s \in DeviceSocket, NEW m \in DeviceMessages,
             onConnectedDeviceSocketReadable(s, m)
      PROVE  RttyInv'
    <2>1. CASE Understood(s, m)
        BY <1>3, <2>1, AskingKeeps
           DEF onConnectedDeviceSocketReadable, RttyInv, RttyTypeOK
    <2>2. CASE ~Understood(s, m)
        BY <1>3, <2>2, EndSocketKeeps DEF onConnectedDeviceSocketReadable
    <2> QED BY <2>1, <2>2
<1>4. ASSUME NEW c \in ClientSocket, RttyClients_[c] # NoEndPoint,
             EndEndPoints({RttyClients_[c]}), UNCHANGED <<asking, claimed, tried>>
      PROVE  RttyInv'
    <2>1. {RttyClients_[c]} \in SUBSET EndPoint
        BY <1>4 DEF RttyInv, RttyTypeOK
    <2> QED BY <1>4, <2>1, EndEndPointsKeeps
<1>5. ASSUME NEW c \in ClientSocket, ClientGone(c)
      PROVE  RttyInv'
    BY <1>4, <1>5 DEF ClientGone
<1>6. ASSUME NEW c \in ClientSocket, NEW m \in ClientFrames, onClientSocketReadable(c, m)
      PROVE  RttyInv'
    <2>1. CASE Forwards(RttyClients_[c], m)
        BY <1>6, <2>1, AskingKeeps DEF onClientSocketReadable, RttyInv, RttyTypeOK
    <2>2. CASE ~Forwards(RttyClients_[c], m)
        BY <1>4, <1>6, <2>2 DEF onClientSocketReadable
    <2> QED BY <2>1, <2>2
<1>7. CASE onTimer
    <2>1. {e \in EndPoints_ : Stale(e)} \in SUBSET EndPoint
        BY DEF RttyInv, RttyTypeOK
    <2> QED BY <1>7, <2>1, EndEndPointsKeeps DEF onTimer
<1>8. CASE UNCHANGED rttyVars
    BY <1>8, AskingKeeps DEF rttyVars, RttyInv, RttyTypeOK
<1> QED BY <1>1, <1>2, <1>3, <1>5, <1>6, <1>7, <1>8, CreateEndPointKeeps, AgeKeeps,
           CreateWSClientKeeps, RegisterKeeps, UnansweredKeeps, AcceptKeeps DEF RttyNext

(* Whatever the order in which devices and browsers reach RTTYS_server and *)
(* leave it, and whatever descriptors the system reuses, a terminal joins  *)
(* the device and the browser of one session, and no others.               *)
THEOREM TerminalsAlwaysMeet == RttySpec => []TerminalsMeet
<1>1. RttyInv => TerminalsMeet
    BY DEF RttyInv
<1> QED BY <1>1, RttyInvInit, RttyInvStep, PTL DEF RttySpec
=============================================================================
