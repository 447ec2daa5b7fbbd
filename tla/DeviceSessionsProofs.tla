------------------------ MODULE DeviceSessionsProofs ------------------------
(***************************************************************************)
(* Proofs about DeviceSessions, for any sets of connections and serial     *)
(* numbers: who may be destroyed, and what is reported of it; the pointers *)
(* to a connection, what is registered under a serial number, and the      *)
(* order of the messages that announce a connection and its end.           *)
(***************************************************************************)
EXTENDS DeviceSessions, TLAPS

-----------------------------------------------------------------------------
(* Type correctness. *)

(* EndConnection keeps the types of what it changes. *)
LEMMA EndConnectionType ==
    ASSUME TypeOK, NEW c \in Conn, NEW s \in Serial \cup {NoSerial},
           EndConnection(c, s)
    PROVE  /\ Dead_' \in [Conn -> BOOLEAN]
           /\ retired' \in [Conn -> Nat]
           /\ CleanupSessions_' \in Seq(Entry)
<1>1. CASE MustEnd(c)
    <2>1. [session |-> sessionId[c], serial |-> s] \in Entry
        BY DEF TypeOK, Entry
    <2>2. CleanupSessions_' = Append(CleanupSessions_,
                                     [session |-> sessionId[c], serial |-> s])
        BY <1>1 DEF EndConnection, AddCleanupSession
    <2>3. CleanupSessions_' \in Seq(Entry)
        BY <2>1, <2>2 DEF TypeOK
    <2>4. Dead_' \in [Conn -> BOOLEAN]
        BY <1>1 DEF EndConnection, TypeOK
    <2>5. retired' \in [Conn -> Nat]
        <3>1. retired \in [Conn -> Nat] /\ retired[c] \in Nat
            BY DEF TypeOK
        <3>2. CASE s = NoSerial
            BY <1>1, <3>1, <3>2 DEF EndConnection
        <3>3. CASE s # NoSerial
            <4>1. retired' = [retired EXCEPT ![c] = retired[c] + 1]
                BY <1>1, <3>3 DEF EndConnection
            <4> QED BY <4>1, <3>1
        <3> QED BY <3>2, <3>3
    <2> QED BY <2>3, <2>4, <2>5
<1>2. CASE ~MustEnd(c)
    BY <1>2 DEF EndConnection, TypeOK
<1> QED BY <1>1, <1>2

(* So does dropping a pointer, whether or not it was the last. *)
LEMMA DropType ==
    ASSUME TypeOK, NEW c \in Conn, NEW self, Drop(c, self)
    PROVE  /\ gone' \subseteq Conn
           /\ NumberOfConnectedDevices_' \in Int
           /\ Dead_' \in [Conn -> BOOLEAN]
           /\ retired' \in [Conn -> Nat]
           /\ CleanupSessions_' \in Seq(Entry)
<1>1. CASE Owned(c)'
    BY <1>1 DEF Drop, deathVars, TypeOK
<1>2. CASE ~Owned(c)'
    <2>1. Destroy(c, self)
        BY <1>2 DEF Drop
    <2>2. gone' \subseteq Conn /\ NumberOfConnectedDevices_' \in Int
        BY <2>1 DEF Destroy, TypeOK
    <2>3. EndConnection(c, serial[c]) /\ serial[c] \in Serial \cup {NoSerial}
        BY <2>1 DEF Destroy, TypeOK
    <2> QED BY <2>2, <2>3, EndConnectionType
<1> QED BY <1>1, <1>2

(* Every action keeps the types. *)
LEMMA TypeStep == TypeOK /\ [Next]_vars => TypeOK'
<1> SUFFICES ASSUME TypeOK, [Next]_vars PROVE TypeOK'
    OBVIOUS
<1> USE DEF ownerVars, deathVars, cleanupVars, deviceVars, idVars
<1>1. ASSUME NEW c \in Conn, CountSession(c) PROVE TypeOK'
    BY <1>1 DEF CountSession, TypeOK, Stage
<1>2. ASSUME NEW c \in Conn, CreateConnection(c) PROVE TypeOK'
    BY <1>2 DEF CreateConnection, TypeOK, Stage
<1>3. ASSUME NEW c \in Conn, AddConnection(c) PROVE TypeOK'
    BY <1>3 DEF AddConnection, TypeOK, Stage
<1>4. ASSUME NEW c \in Conn, StartConnection(c) PROVE TypeOK'
    BY <1>4, DropType DEF StartConnection, TypeOK, Stage
<1>5. ASSUME NEW c \in Conn, OnSocketGone(c) PROVE TypeOK'
    <2>1. serial[c] \in Serial \cup {NoSerial} BY DEF TypeOK
    <2> QED BY <2>1, <1>5, EndConnectionType DEF OnSocketGone, TypeOK
<1>6. ASSUME NEW c \in Conn, NEW s \in Serial, ValidateDevice(c, s)
      PROVE  TypeOK'
    BY <1>6 DEF ValidateDevice, TypeOK
<1>7. ASSUME NEW c \in Conn, NEW s \in Serial \cup {NoSerial},
             RejectDevice(c, s)
      PROVE  TypeOK'
    <2>1. serial' \in [Conn -> Serial \cup {NoSerial}]
        BY <1>7 DEF RejectDevice, TypeOK
    <2>2. PICK t \in Serial \cup {NoSerial} : EndConnection(c, t)
        BY <2>1, <1>7 DEF RejectDevice
    <2> QED BY <2>1, <2>2, <1>7, EndConnectionType
            DEF RejectDevice, TypeOK
<1>8. ASSUME NEW c \in Conn, KillFrame(c) PROVE TypeOK'
    <2>1. serial[c] \in Serial \cup {NoSerial} BY DEF TypeOK
    <2> QED BY <2>1, <1>8, EndConnectionType DEF KillFrame, TypeOK
<1>9. ASSUME NEW c \in Conn, NEW s \in Serial, ConnectFrame(c, s)
      PROVE  TypeOK'
    BY <1>9 DEF ConnectFrame, TypeOK
<1>10. ASSUME NEW c \in Conn, StartSessionTake(c) PROVE TypeOK'
    <2>1. /\ Sessions_' \subseteq Conn
          /\ moving' \in [Conn -> Conn \cup {NoConn}]
        <3>1. CASE UNCHANGED <<Sessions_, moving>>
            BY <3>1 DEF TypeOK
        <3>2. ASSUME NEW m \in Sessions_, Sessions_' = Sessions_ \ {m},
                     moving' = [moving EXCEPT ![c] = m]
              PROVE  /\ Sessions_' \subseteq Conn
                     /\ moving' \in [Conn -> Conn \cup {NoConn}]
            BY <3>2 DEF TypeOK
        <3> QED BY <3>1, <3>2, <1>10
                DEF StartSessionTake, SessionsWithout
    <2>2. handler' \in [Conn -> {"none", "connect", "register",
                                 "provision"}]
        BY <1>10 DEF StartSessionTake, TypeOK
    <2> QED BY <2>1, <2>2, <1>10 DEF StartSessionTake, TypeOK
<1>11. ASSUME NEW c \in Conn, StartSessionRegister(c) PROVE TypeOK'
    <2>1. /\ SerialNumbers_' \in [Serial -> Conn \cup {NoConn}]
          /\ moving' \in [Conn -> Conn \cup {NoConn}]
          /\ handler' \in [Conn -> {"none", "connect", "register",
                                    "provision"}]
        BY <1>11 DEF StartSessionRegister, Registered, TypeOK
    <2>2. CASE UNCHANGED <<deathVars, doomed>>
        BY <2>1, <2>2, <1>11 DEF StartSessionRegister, TypeOK
    <2>3. CASE \E old \in Conn : doomed' = doomed \cup {old} /\ Drop(old, c)
        BY <2>1, <2>3, <1>11, DropType DEF StartSessionRegister, TypeOK
    <2> QED BY <2>2, <2>3, <1>11 DEF StartSessionRegister
<1>12. ASSUME NEW c \in Conn, ProvisionOK(c) PROVE TypeOK'
    BY <1>12 DEF ProvisionOK, TypeOK
<1>13. ASSUME NEW c \in Conn, ProvisionMustUpgrade(c) PROVE TypeOK'
    BY <1>13 DEF ProvisionMustUpgrade, TypeOK
<1>14. ASSUME NEW c \in Conn, ProvisionRefused(c) PROVE TypeOK'
    <2>1. serial[c] \in Serial \cup {NoSerial} BY DEF TypeOK
    <2>2. Connected' \in [Conn -> BOOLEAN]
        BY <1>14 DEF ProvisionRefused, TypeOK
    <2> QED BY <2>1, <2>2, <1>14, EndConnectionType
            DEF ProvisionRefused, TypeOK
<1>15. ASSUME NEW c \in Conn, Collect(c) PROVE TypeOK'
    <2>1. [session |-> sessionId[c], serial |-> serial[c]] \in Entry
        BY DEF TypeOK, Entry
    <2>2. CleanupSessions_' \in Seq(Entry)
        BY <2>1, <1>15 DEF Collect, AddCleanupSession, TypeOK
    <2> QED BY <2>2, <1>15 DEF Collect, TypeOK
<1>16. CASE GarbageCollector
    <2>1. ASSUME NEW s \in Serial, CollectSerial(s) PROVE TypeOK'
        BY <2>1, <1>15 DEF CollectSerial, TypeOK
    <2> QED BY <2>1, <1>15, <1>16 DEF GarbageCollector, CollectSession
<1>17. CASE TakeCleanup
    <2>1. /\ Head(CleanupSessions_) \in Entry
          /\ Tail(CleanupSessions_) \in Seq(Entry)
        BY <1>17 DEF TakeCleanup, TypeOK
    <2> QED BY <2>1, <1>17 DEF TakeCleanup, TypeOK
<1>18. CASE EndSessionFirst
    <2>1. CASE \E c \in Sessions_ : /\ Sessions_' = Sessions_ \ {c}
                                    /\ Drop(c, NoConn)
        BY <2>1, <1>18, DropType DEF EndSessionFirst, TypeOK
    <2>2. CASE UNCHANGED <<Sessions_, deathVars>>
        BY <2>2, <1>18 DEF EndSessionFirst, TypeOK
    <2> QED BY <2>1, <2>2, <1>18 DEF EndSessionFirst
<1>19. CASE EndSessionSecond
    <2> cleanup' \in Entry
        BY <1>19 DEF EndSessionSecond, NoEntry, Entry
    <2>1. CASE \E s \in Serial, c \in Conn :
                 /\ SerialNumbers_' = [SerialNumbers_ EXCEPT ![s] = NoConn]
                 /\ Drop(c, NoConn)
        BY <2>1, <1>19, DropType DEF EndSessionSecond, TypeOK
    <2>2. CASE UNCHANGED <<SerialNumbers_, deathVars>>
        BY <2>2, <1>19 DEF EndSessionSecond, TypeOK
    <2> QED BY <2>1, <2>2, <1>19 DEF EndSessionSecond
<1>20. ASSUME NEW s \in Serial, DisconnectSerial(s) PROVE TypeOK'
    BY <1>20 DEF DisconnectSerial, TypeOK
<1>21. ASSUME NEW c \in Conn, DisconnectSession(c) PROVE TypeOK'
    <2>1. disconnecting' \in [Conn -> {"no", "session", "return"}]
        BY <1>21 DEF DisconnectSession, TypeOK
    <2>2. CASE \E d \in Sessions_ : /\ Sessions_' = Sessions_ \ {d}
                                    /\ Drop(d, NoConn)
        BY <2>1, <2>2, <1>21, DropType DEF DisconnectSession, TypeOK
    <2>3. CASE UNCHANGED <<Sessions_, deathVars>>
        BY <2>1, <2>3, <1>21 DEF DisconnectSession, TypeOK
    <2> QED BY <2>2, <2>3, <1>21 DEF DisconnectSession
<1>22. ASSUME NEW c \in Conn, DisconnectReturn(c) PROVE TypeOK'
    <2>1. disconnecting' \in [Conn -> {"no", "session", "return"}]
        BY <1>22 DEF DisconnectReturn, TypeOK
    <2> QED BY <2>1, <1>22, DropType DEF DisconnectReturn, TypeOK
<1>23. CASE UNCHANGED vars
    BY <1>23 DEF vars, TypeOK
<1> QED
    BY <1>1, <1>2, <1>3, <1>4, <1>5, <1>6, <1>7, <1>8, <1>9, <1>10,
       <1>11, <1>12, <1>13, <1>14, <1>16, <1>17, <1>18, <1>19, <1>20,
       <1>21, <1>22, <1>23
    DEF Next, HandleRequest, Handler, ConnectStep, Cleanup, Disconnect

LEMMA TypeInit == Init => TypeOK
<1> SUFFICES ASSUME Init PROVE TypeOK
    OBVIOUS
<1>1. CleanupSessions_ \in Seq(Entry) /\ cleanup \in Entry
    BY DEF Init, NoEntry, Entry
<1> QED BY <1>1 DEF Init, TypeOK, Stage

(* The types of the variables are an invariant of the specification. *)
THEOREM TypeCorrect == Spec => []TypeOK
BY TypeInit, TypeStep, PTL DEF Spec

-----------------------------------------------------------------------------
(* Who may be destroyed. *)

(* Pointers, handlers and destructors concern connections that exist, and  *)
(* only an open connection has a running handler.                          *)
Places ==
    /\ \A c \in Sessions_ : Built(c)
    /\ \A s \in Serial : SerialNumbers_[s] # NoConn => Built(SerialNumbers_[s])
    /\ \A c \in Conn : moving[c] # NoConn => Built(moving[c])
    /\ \A c \in Conn : disconnecting[c] # "no" => Built(c) /\ c \in doomed
    /\ \A c \in Conn : handler[c] # "none" =>
                         stage[c] = "open" /\ serial[c] \in Serial
    /\ \A c \in gone : Built(c)

(* Some connection of that session id was to end, or has ended. *)
Justified(id) ==
    \E d \in Conn : Built(d) /\ sessionId[d] = id /\ d \in doomed \cup gone

(* What is queued for cleanup, and what the cleanup thread works on. *)
EntriesJustified ==
    /\ \A i \in 1..Len(CleanupSessions_) : Justified(CleanupSessions_[i].session)
    /\ cleanupPc # "wait" => Justified(cleanup.session)

(* Between AddConnection and Start, Sessions_ holds the connection. *)
AddedIsFiled ==
    \A c \in Conn : stage[c] = "added" /\ OwnSession(c) /\ c \notin doomed
                     => c \in Sessions_

IInv == TypeOK /\ Places /\ EntriesJustified /\ AddedIsFiled /\ OnlyDoomedDestroyed

(* EndConnection queues at most one entry, with the connection's own id.   *)
LEMMA EndWhat ==
    ASSUME NEW c, NEW s, EndConnection(c, s)
    PROVE  \/ CleanupSessions_' = CleanupSessions_
           \/ CleanupSessions_' =
                Append(CleanupSessions_, [session |-> sessionId[c], serial |-> s])
BY DEF EndConnection, AddCleanupSession

(* So does the destructor, of a connection that is gone then. *)
LEMMA DropWhat ==
    ASSUME NEW c, NEW self, Drop(c, self)
    PROVE  /\ gone' = gone \/ gone' = gone \cup {c}
           /\ \/ CleanupSessions_' = CleanupSessions_
              \/ /\ CleanupSessions_' = Append(CleanupSessions_,
                        [session |-> sessionId[c], serial |-> serial[c]])
                 /\ c \in gone'
<1>1. CASE Owned(c)'
    BY <1>1 DEF Drop, deathVars
<1>2. CASE ~Owned(c)'
    <2>1. Destroy(c, self)
        BY <1>2 DEF Drop
    <2>2. gone' = gone \cup {c} /\ EndConnection(c, serial[c])
        BY <2>1 DEF Destroy
    <2> QED BY <2>2, EndWhat
<1> QED BY <1>1, <1>2

LEMMA DropGone ==
    ASSUME NEW c, NEW self, Drop(c, self)
    PROVE  \A d \in gone' : d \in gone \/ d = c
<1>1. gone' = gone \/ gone' = gone \cup {c}
    BY DropWhat
<1> QED BY <1>1

(* A connection that exists keeps existing under its id, and a decision to *)
(* end it is not taken back.                                               *)
LEMMA Grows ==
    ASSUME TypeOK, [Next]_vars
    PROVE  /\ \A c \in Conn : Built(c) => Built(c)' /\ sessionId'[c] = sessionId[c]
           /\ doomed \subseteq doomed'
           /\ gone \subseteq gone'
<1> USE DEF ownerVars, deathVars, cleanupVars, deviceVars, idVars
<1>1. \A c \in Conn : Built(c) => Built(c)' /\ sessionId'[c] = sessionId[c]
    <2>1. CASE UNCHANGED <<stage, sessionId>>
        BY <2>1 DEF Built
    <2>2. ASSUME NEW d \in Conn, HandleRequest(d)
          PROVE  \A c \in Conn : Built(c) => Built(c)' /\ sessionId'[c] = sessionId[c]
        BY <2>2 DEF HandleRequest, CountSession, CreateConnection, AddConnection,
                    StartConnection, Built, TypeOK
    <2>3. ASSUME NEW d \in Conn, Handler(d) PROVE UNCHANGED <<stage, sessionId>>
        BY <2>3 DEF Handler, OnSocketGone, ValidateDevice, RejectDevice,
           KillFrame, ConnectFrame, ConnectStep, StartSessionTake,
           StartSessionRegister, ProvisionOK, ProvisionMustUpgrade,
           ProvisionRefused
    <2>4. CASE Cleanup \/ GarbageCollector \/ Disconnect
        BY <2>1, <2>4 DEF Cleanup, TakeCleanup, EndSessionFirst, EndSessionSecond,
           GarbageCollector, CollectSerial, CollectSession, Collect,
           Disconnect, DisconnectSerial, DisconnectSession, DisconnectReturn
    <2>5. CASE UNCHANGED vars
        BY <2>1, <2>5 DEF vars
    <2> QED BY <2>1, <2>2, <2>3, <2>4, <2>5 DEF Next
<1>2. doomed \subseteq doomed'
    BY DEF Next, vars, HandleRequest, CountSession, CreateConnection,
       AddConnection, StartConnection, Handler, OnSocketGone, ValidateDevice,
       RejectDevice, KillFrame, ConnectFrame, ConnectStep, StartSessionTake,
       StartSessionRegister, ProvisionOK, ProvisionMustUpgrade,
       ProvisionRefused, Cleanup, TakeCleanup, EndSessionFirst,
       EndSessionSecond, GarbageCollector, CollectSerial, CollectSession,
       Collect, Disconnect, DisconnectSerial, DisconnectSession,
       DisconnectReturn
<1>3. gone \subseteq gone'
    BY DropWhat DEF Next, vars, HandleRequest, CountSession, CreateConnection,
       AddConnection, StartConnection, Handler, OnSocketGone, ValidateDevice,
       RejectDevice, KillFrame, ConnectFrame, ConnectStep, StartSessionTake,
       StartSessionRegister, ProvisionOK, ProvisionMustUpgrade,
       ProvisionRefused, Cleanup, TakeCleanup, EndSessionFirst,
       EndSessionSecond, GarbageCollector, CollectSerial, CollectSession,
       Collect, Disconnect, DisconnectSerial, DisconnectSession,
       DisconnectReturn
<1> QED BY <1>1, <1>2, <1>3

(* The pointers keep naming connections that exist. *)
LEMMA PlacesStep ==
    ASSUME TypeOK, Places, [Next]_vars
    PROVE  Places'
<1> USE DEF ownerVars, deathVars, cleanupVars, deviceVars, idVars
<1>1. /\ \A c \in Conn : Built(c) => Built(c)'
      /\ \A c \in Conn : c \in doomed => c \in doomed'
    BY Grows
<1>2. \A c \in Sessions_' : Built(c)'
    <2>1. CASE Sessions_' \subseteq Sessions_
        BY <1>1, <2>1 DEF Places, TypeOK
    <2>2. ASSUME NEW c \in Conn, AddConnection(c)
          PROVE  \A d \in Sessions_' : Built(d)'
        <3>1. Built(c)' /\ Sessions_' \subseteq Sessions_ \cup {c}
            BY <2>2 DEF AddConnection, Built, TypeOK
        <3> QED BY <1>1, <3>1 DEF Places, TypeOK
    <2>3. Sessions_' \subseteq Sessions_ \/ \E c \in Conn : AddConnection(c)
        BY DEF Next, vars, HandleRequest, CountSession, CreateConnection,
           StartConnection, Handler, OnSocketGone, ValidateDevice,
           RejectDevice, KillFrame, ConnectFrame, ConnectStep, StartSessionTake,
           SessionsWithout, StartSessionRegister, ProvisionOK,
           ProvisionMustUpgrade, ProvisionRefused, Cleanup, TakeCleanup,
           EndSessionFirst, EndSessionSecond, GarbageCollector, CollectSerial,
           CollectSession, Collect, Disconnect, DisconnectSerial,
           DisconnectSession, DisconnectReturn
    <2> QED BY <2>1, <2>2, <2>3
<1>3. \A s \in Serial : SerialNumbers_'[s] # NoConn => Built(SerialNumbers_[s])'
    <2>1. ASSUME NEW s \in Serial
          PROVE  \/ SerialNumbers_'[s] = SerialNumbers_[s]
                 \/ SerialNumbers_'[s] = NoConn
                 \/ \E c \in Conn : SerialNumbers_'[s] = moving[c]
        BY DEF TypeOK, Registered, Next, vars, HandleRequest, CountSession, CreateConnection,
       AddConnection, StartConnection, Handler, OnSocketGone, ValidateDevice,
       RejectDevice, KillFrame, ConnectFrame, ConnectStep, StartSessionTake,
       StartSessionRegister, ProvisionOK, ProvisionMustUpgrade,
       ProvisionRefused, Cleanup, TakeCleanup, EndSessionFirst,
       EndSessionSecond, GarbageCollector, CollectSerial, CollectSession,
       Collect, Disconnect, DisconnectSerial, DisconnectSession,
       DisconnectReturn
    <2> QED BY <1>1, <2>1 DEF Places, TypeOK
<1>4. \A c \in Conn : moving'[c] # NoConn => Built(moving[c])'
    <2>1. ASSUME NEW c \in Conn
          PROVE  \/ moving'[c] = moving[c]
                 \/ moving'[c] = NoConn
                 \/ moving'[c] \in Sessions_
        BY DEF TypeOK, Next, vars, HandleRequest, CountSession, CreateConnection,
       AddConnection, StartConnection, Handler, OnSocketGone, ValidateDevice,
       RejectDevice, KillFrame, ConnectFrame, ConnectStep, StartSessionTake,
       StartSessionRegister, ProvisionOK, ProvisionMustUpgrade,
       ProvisionRefused, Cleanup, TakeCleanup, EndSessionFirst,
       EndSessionSecond, GarbageCollector, CollectSerial, CollectSession,
       Collect, Disconnect, DisconnectSerial, DisconnectSession,
       DisconnectReturn
    <2> QED BY <1>1, <2>1 DEF Places, TypeOK
<1>5. \A c \in Conn : disconnecting'[c] # "no" => Built(c)' /\ c \in doomed'
    <2>1. ASSUME NEW c \in Conn, disconnecting'[c] # "no"
          PROVE  \/ disconnecting[c] # "no"
                 \/ \E s \in Serial : SerialNumbers_[s] = c /\ c \in doomed'
        BY <2>1 DEF TypeOK, Next, vars, HandleRequest, CountSession, CreateConnection,
       AddConnection, StartConnection, Handler, OnSocketGone, ValidateDevice,
       RejectDevice, KillFrame, ConnectFrame, ConnectStep, StartSessionTake,
       StartSessionRegister, ProvisionOK, ProvisionMustUpgrade,
       ProvisionRefused, Cleanup, TakeCleanup, EndSessionFirst,
       EndSessionSecond, GarbageCollector, CollectSerial, CollectSession,
       Collect, Disconnect, DisconnectSerial, DisconnectSession,
       DisconnectReturn
    <2> QED BY <1>1, <2>1, SessionAssumption DEF Places, TypeOK
<1>6. \A c \in Conn : handler'[c] # "none" =>
                        stage'[c] = "open" /\ serial'[c] \in Serial
    <2>1. ASSUME NEW c \in Conn, handler'[c] # "none"
          PROVE  \/ handler[c] # "none" /\ serial'[c] = serial[c]
                 \/ stage[c] = "open" /\ serial'[c] \in Serial
        BY <2>1 DEF TypeOK, Readable, CanHandle, Next, vars, HandleRequest, CountSession, CreateConnection,
       AddConnection, StartConnection, Handler, OnSocketGone, ValidateDevice,
       RejectDevice, KillFrame, ConnectFrame, ConnectStep, StartSessionTake,
       StartSessionRegister, ProvisionOK, ProvisionMustUpgrade,
       ProvisionRefused, Cleanup, TakeCleanup, EndSessionFirst,
       EndSessionSecond, GarbageCollector, CollectSerial, CollectSession,
       Collect, Disconnect, DisconnectSerial, DisconnectSession,
       DisconnectReturn
    <2>2. ASSUME NEW c \in Conn, stage[c] = "open"
          PROVE  stage'[c] = "open"
        BY <2>2 DEF TypeOK, Next, vars, HandleRequest, CountSession, CreateConnection,
       AddConnection, StartConnection, Handler, OnSocketGone, ValidateDevice,
       RejectDevice, KillFrame, ConnectFrame, ConnectStep, StartSessionTake,
       StartSessionRegister, ProvisionOK, ProvisionMustUpgrade,
       ProvisionRefused, Cleanup, TakeCleanup, EndSessionFirst,
       EndSessionSecond, GarbageCollector, CollectSerial, CollectSession,
       Collect, Disconnect, DisconnectSerial, DisconnectSession,
       DisconnectReturn
    <2> QED BY <2>1, <2>2 DEF Places
<1>7. \A c \in gone' : Built(c)'
    <2>1. ASSUME NEW c \in gone', c \notin gone
          PROVE  Built(c)'
        <3> DEFINE Goal == \/ StartConnection(c)
                           \/ c \in Sessions_
                           \/ \E s \in Serial : SerialNumbers_[s] = c
                           \/ disconnecting[c] # "no"
        <3>1. Goal
            <4>1. ASSUME NEW d \in Conn, HandleRequest(d) PROVE Goal
                <5>1. CASE StartConnection(d)
                    <6>1. Drop(d, NoConn)
                        BY <5>1 DEF StartConnection
                    <6>2. c = d
                        BY <2>1, <6>1, DropGone
                    <6> QED BY <5>1, <6>2
                <5>2. CASE ~StartConnection(d)
                    BY <2>1, <4>1, <5>2 DEF HandleRequest, CountSession,
                       CreateConnection, AddConnection
                <5> QED BY <5>1, <5>2
            <4>2. ASSUME NEW d \in Conn, Handler(d) PROVE Goal
                <5>1. CASE StartSessionRegister(d)
                    <6>1. PICK old \in Conn : /\ SerialNumbers_[serial[d]] = old
                                              /\ Drop(old, d)
                        BY <2>1, <5>1 DEF StartSessionRegister
                    <6>2. c = old
                        BY <2>1, <6>1, DropGone
                    <6>3. serial[d] \in Serial
                        BY <5>1 DEF StartSessionRegister, Places
                    <6> QED BY <6>1, <6>2, <6>3
                <5>2. CASE ~StartSessionRegister(d)
                    BY <2>1, <4>2, <5>2 DEF Handler, OnSocketGone,
                       ValidateDevice, RejectDevice, KillFrame, ConnectFrame,
                       ConnectStep, StartSessionTake, ProvisionOK,
                       ProvisionMustUpgrade, ProvisionRefused
                <5> QED BY <5>1, <5>2
            <4>3. CASE Cleanup
                <5>1. CASE EndSessionFirst
                    <6>1. PICK d \in Sessions_ : Drop(d, NoConn)
                        BY <2>1, <5>1 DEF EndSessionFirst
                    <6> QED BY <2>1, <6>1, DropGone
                <5>2. CASE EndSessionSecond
                    <6>1. PICK s \in Serial, d \in Conn :
                             SerialNumbers_[s] = d /\ Drop(d, NoConn)
                        BY <2>1, <5>2 DEF EndSessionSecond
                    <6> QED BY <2>1, <6>1, DropGone
                <5>3. CASE TakeCleanup
                    BY <2>1, <5>3 DEF TakeCleanup
                <5> QED BY <4>3, <5>1, <5>2, <5>3 DEF Cleanup
            <4>4. CASE GarbageCollector
                BY <2>1, <4>4 DEF GarbageCollector, CollectSerial,
                   CollectSession, Collect
            <4>5. CASE Disconnect
                <5>1. ASSUME NEW s \in Serial, DisconnectSerial(s) PROVE Goal
                    BY <2>1, <5>1 DEF DisconnectSerial
                <5>2. ASSUME NEW d \in Conn, DisconnectSession(d) PROVE Goal
                    <6>1. PICK e \in Sessions_ : Drop(e, NoConn)
                        BY <2>1, <5>2 DEF DisconnectSession
                    <6> QED BY <2>1, <6>1, DropGone
                <5>3. ASSUME NEW d \in Conn, DisconnectReturn(d) PROVE Goal
                    <6>1. disconnecting[d] # "no" /\ Drop(d, NoConn)
                        BY <5>3 DEF DisconnectReturn
                    <6> QED BY <2>1, <6>1, DropGone
                <5> QED BY <4>5, <5>1, <5>2, <5>3 DEF Disconnect
            <4>6. CASE UNCHANGED vars
                BY <2>1, <4>6 DEF vars
            <4> QED BY <4>1, <4>2, <4>3, <4>4, <4>5, <4>6 DEF Next
        <3>2. StartConnection(c) => Built(c)'
            BY <2>1 DEF StartConnection, Built, TypeOK
        <3> QED BY <1>1, <2>1, <3>1, <3>2, TypeStep, SessionAssumption DEF Places, TypeOK
    <2> QED BY <1>1, <2>1 DEF Places, TypeOK
<1> QED BY <1>2, <1>3, <1>4, <1>5, <1>6, <1>7 DEF Places

(* An id that is its own was its own before: ids are never taken over from *)
(* a connection that exists.                                               *)
LEMMA OwnBefore ==
    ASSUME TypeOK, [Next]_vars, NEW c \in Conn, Built(c), OwnSession(c)'
    PROVE  OwnSession(c)
<1>1. \A d \in Conn : Built(d) => Built(d)' /\ sessionId'[d] = sessionId[d]
    BY Grows
<1> QED BY <1>1 DEF OwnSession

(* Of an id that is its own, only its connection can be meant. *)
LEMMA Only ==
    ASSUME OnlyDoomedDestroyed, NEW c \in Conn, OwnSession(c), Justified(sessionId[c])
    PROVE  c \in doomed
<1>1. PICK d \in Conn : /\ Built(d) /\ sessionId[d] = sessionId[c]
                        /\ d \in doomed \cup gone
    BY DEF Justified
<1>2. d = c
    BY <1>1 DEF OwnSession
<1> QED BY <1>1, <1>2 DEF OnlyDoomedDestroyed

(* The queue stays justified when an entry is added for a connection that  *)
(* was to end.                                                             *)
LEMMA QueueStays ==
    ASSUME TypeOK, EntriesJustified, [Next]_vars,
           NEW c \in Conn, Built(c),
           NEW s \in Serial \cup {NoSerial},
           \/ CleanupSessions_' = CleanupSessions_
           \/ /\ CleanupSessions_' = Append(CleanupSessions_,
                        [session |-> sessionId[c], serial |-> s])
              /\ c \in doomed' \cup gone'
    PROVE  \A i \in 1..Len(CleanupSessions_') : Justified(CleanupSessions_[i].session)'
<1>1. \A i \in 1..Len(CleanupSessions_) : Justified(CleanupSessions_[i].session)
    BY DEF EntriesJustified
<1>2. ASSUME NEW i \in 1..Len(CleanupSessions_),
             CleanupSessions_'[i] = CleanupSessions_[i]
      PROVE  Justified(CleanupSessions_[i].session)'
    <2>1. Justified(CleanupSessions_[i].session)
        BY <1>1
    <2> DEFINE id == CleanupSessions_[i].session
    <2>2. PICK d \in Conn : Built(d) /\ sessionId[d] = id /\ d \in doomed \cup gone
        BY <2>1 DEF Justified
    <2>3. Built(d)' /\ sessionId'[d] = sessionId[d] /\ d \in doomed' \cup gone'
        BY <2>2, Grows
    <2>4. sessionId'[d] = CleanupSessions_'[i].session
        BY <1>2, <2>2, <2>3
    <2> QED BY <2>3, <2>4 DEF Justified
<1>3. CASE CleanupSessions_' = CleanupSessions_
    BY <1>2, <1>3
<1>4. CASE /\ CleanupSessions_' = Append(CleanupSessions_,
                   [session |-> sessionId[c], serial |-> s])
           /\ c \in doomed' \cup gone'
    <2> DEFINE e == [session |-> sessionId[c], serial |-> s]
               n == Len(CleanupSessions_)
    <2>1. CleanupSessions_ \in Seq(Entry) /\ e \in Entry
        BY DEF TypeOK, Entry
    <2>2. /\ n \in Nat
          /\ Len(CleanupSessions_') = n + 1
          /\ \A i \in 1..n : CleanupSessions_'[i] = CleanupSessions_[i]
          /\ \A i \in 1..(n + 1) : i \in 1..n \/ CleanupSessions_'[i] = e
        BY <1>4, <2>1
    <2>3. Built(c)' /\ sessionId'[c] = sessionId[c]
        BY Grows
    <2>4. ASSUME NEW i, CleanupSessions_'[i] = e
          PROVE  Justified(CleanupSessions_[i].session)'
        <3>1. sessionId'[c] = CleanupSessions_'[i].session
            BY <2>3, <2>4
        <3> QED BY <1>4, <2>3, <3>1 DEF Justified
    <2> HIDE DEF e
    <2> QED BY <1>2, <2>2, <2>4
<1> QED BY <1>3, <1>4

(* An entry is queued only for a connection that was to end. *)
LEMMA EntriesStep ==
    ASSUME TypeOK, Places, EntriesJustified, [Next]_vars
    PROVE  EntriesJustified'
<1> USE DEF ownerVars, deathVars, cleanupVars, deviceVars, idVars
<1> DEFINE QueueOK == \A i \in 1..Len(CleanupSessions_) :
                        Justified(CleanupSessions_[i].session)
<1>1. ASSUME QueueOK', cleanup' = cleanup, cleanupPc' # "wait" => cleanupPc # "wait"
      PROVE  EntriesJustified'
    <2>1. ASSUME cleanupPc' # "wait" PROVE Justified(cleanup.session)'
        <3>1. Justified(cleanup.session)
            BY <1>1, <2>1 DEF EntriesJustified
        <3>2. PICK d \in Conn : /\ Built(d) /\ sessionId[d] = cleanup.session
                                /\ d \in doomed \cup gone
            BY <3>1 DEF Justified
        <3>3. Built(d)' /\ sessionId'[d] = sessionId[d] /\ d \in doomed' \cup gone'
            BY <3>2, Grows
        <3> QED BY <1>1, <3>2, <3>3 DEF Justified
    <2> QED BY <1>1, <2>1 DEF EntriesJustified
<1>2. ASSUME NEW c \in Conn, Built(c), NEW s \in Serial \cup {NoSerial},
             EndConnection(c, s), c \in doomed'
      PROVE  QueueOK'
    BY <1>2, EndWhat, QueueStays
<1>3. ASSUME NEW c \in Conn, Built(c), NEW self, Drop(c, self)
      PROVE  QueueOK'
    <2>1. serial[c] \in Serial \cup {NoSerial}
        BY DEF TypeOK
    <2> QED BY <1>3, <2>1, DropWhat, QueueStays
<1>4. ASSUME CleanupSessions_' = CleanupSessions_
      PROVE  QueueOK'
    <2>1. ASSUME NEW i \in 1..Len(CleanupSessions_)
          PROVE  Justified(CleanupSessions_[i].session)'
        <3>1. PICK d \in Conn : /\ Built(d)
                                /\ sessionId[d] = CleanupSessions_[i].session
                                /\ d \in doomed \cup gone
            BY DEF EntriesJustified, Justified
        <3>2. Built(d)' /\ sessionId'[d] = sessionId[d] /\ d \in doomed' \cup gone'
            BY <3>1, Grows
        <3> QED BY <1>4, <3>1, <3>2 DEF Justified
    <2> QED BY <1>4, <2>1
<1> HIDE DEF QueueOK
<1>5. ASSUME NEW c \in Conn, HandleRequest(c) PROVE EntriesJustified'
    <2>1. CASE StartConnection(c)
        <3>1. Built(c)
            BY <2>1 DEF StartConnection, Built
        <3>2. QueueOK'
            BY <1>3, <2>1, <3>1 DEF StartConnection
        <3> QED BY <1>1, <2>1, <3>2 DEF StartConnection
    <2>2. CASE ~StartConnection(c)
        BY <1>1, <1>4, <1>5, <2>2 DEF HandleRequest, CountSession,
           CreateConnection, AddConnection
    <2> QED BY <2>1, <2>2
<1>6. ASSUME NEW c \in Conn, Handler(c) PROVE EntriesJustified'
    <2>1. cleanup' = cleanup /\ cleanupPc' = cleanupPc
        BY <1>6 DEF Handler, OnSocketGone, ValidateDevice, RejectDevice,
           KillFrame, ConnectFrame, ConnectStep, StartSessionTake,
           StartSessionRegister, ProvisionOK, ProvisionMustUpgrade,
           ProvisionRefused
    <2>2. CanHandle(c) => Built(c)
        BY DEF CanHandle, Built
    <2>3. serial[c] \in Serial \cup {NoSerial}
        BY DEF TypeOK
    <2>4. CASE OnSocketGone(c)
        BY <1>1, <1>2, <2>1, <2>2, <2>3, <2>4 DEF OnSocketGone
    <2>5. ASSUME NEW s \in Serial \cup {NoSerial}, RejectDevice(c, s)
          PROVE  EntriesJustified'
        <3>1. serial'[c] \in Serial \cup {NoSerial}
            BY <2>3, <2>5 DEF RejectDevice, TypeOK
        <3>2. PICK r \in Serial \cup {NoSerial} : EndConnection(c, r)
            BY <2>5, <3>1 DEF RejectDevice
        <3> QED BY <1>1, <1>2, <2>1, <2>2, <2>5, <3>2 DEF RejectDevice, Readable
    <2>6. CASE KillFrame(c)
        BY <1>1, <1>2, <2>1, <2>2, <2>3, <2>6 DEF KillFrame, Readable
    <2>7. CASE ProvisionRefused(c)
        <3>1. Built(c)
            BY <2>7 DEF ProvisionRefused, Places, Built
        <3> QED BY <1>1, <1>2, <2>1, <2>3, <2>7, <3>1 DEF ProvisionRefused
    <2>8. CASE StartSessionRegister(c)
        <3>1. serial[c] \in Serial
            BY <2>8 DEF StartSessionRegister, Places
        <3>2. CASE CleanupSessions_' = CleanupSessions_
            BY <1>1, <1>4, <2>1, <3>2
        <3>3. ASSUME NEW old \in Conn, SerialNumbers_[serial[c]] = old, Drop(old, c)
              PROVE  EntriesJustified'
            <4>1. Built(old)
                BY <3>1, <3>3, SessionAssumption DEF Places
            <4>2. QueueOK'
                BY <1>3, <3>3, <4>1
            <4> QED BY <1>1, <2>1, <4>2
        <3> QED BY <2>8, <3>2, <3>3 DEF StartSessionRegister
    <2>9. CASE CleanupSessions_' = CleanupSessions_
        BY <1>1, <1>4, <2>1, <2>9
    <2> QED BY <1>6, <2>4, <2>5, <2>6, <2>7, <2>8, <2>9
            DEF Handler, ConnectStep, ValidateDevice, ConnectFrame,
                StartSessionTake, ProvisionOK, ProvisionMustUpgrade
<1>7. CASE TakeCleanup
    <2>1. CleanupSessions_ \in Seq(Entry) /\ CleanupSessions_ # <<>>
        BY <1>7 DEF TakeCleanup, TypeOK
    <2>3. /\ 1 \in 1..Len(CleanupSessions_)
          /\ cleanup' = CleanupSessions_[1]
          /\ Len(CleanupSessions_') = Len(CleanupSessions_) - 1
          /\ \A i \in 1..Len(CleanupSessions_') :
                /\ CleanupSessions_'[i] = CleanupSessions_[i + 1]
                /\ i + 1 \in 1..Len(CleanupSessions_)
        BY <1>7, <2>1 DEF TakeCleanup
    <2>4. \A d \in Conn : /\ Built(d) => Built(d)' /\ sessionId'[d] = sessionId[d]
                          /\ d \in doomed \cup gone => d \in doomed' \cup gone'
        BY Grows
    <2>5. Justified(cleanup.session)'
        <3>1. PICK d \in Conn : /\ Built(d) /\ sessionId[d] = CleanupSessions_[1].session
                                /\ d \in doomed \cup gone
            BY <2>3 DEF EntriesJustified, Justified
        <3> QED BY <2>3, <2>4, <3>1 DEF Justified
    <2>6. ASSUME NEW i \in 1..Len(CleanupSessions_')
          PROVE  Justified(CleanupSessions_[i].session)'
        <3>1. PICK d \in Conn : /\ Built(d)
                                /\ sessionId[d] = CleanupSessions_[i + 1].session
                                /\ d \in doomed \cup gone
            BY <2>3 DEF EntriesJustified, Justified
        <3>2. sessionId'[d] = CleanupSessions_'[i].session
            BY <2>3, <2>4, <3>1
        <3> QED BY <2>4, <3>1, <3>2 DEF Justified
    <2> QED BY <2>5, <2>6 DEF EntriesJustified
<1>8. CASE EndSessionFirst
    <2>1. cleanup' = cleanup /\ cleanupPc # "wait"
        BY <1>8 DEF EndSessionFirst
    <2>2. ASSUME NEW c \in Sessions_, Drop(c, NoConn) PROVE QueueOK'
        BY <1>3, <2>2 DEF Places, TypeOK
    <2>3. QueueOK'
        BY <1>4, <1>8, <2>2 DEF EndSessionFirst
    <2> QED BY <1>1, <2>1, <2>3
<1>9. CASE EndSessionSecond
    <2>1. cleanupPc' = "wait"
        BY <1>9 DEF EndSessionSecond
    <2>2. ASSUME NEW s \in Serial, NEW c \in Conn, SerialNumbers_[s] = c,
                 Drop(c, NoConn)
          PROVE  QueueOK'
        <3>1. Built(c)
            BY <2>2, SessionAssumption DEF Places
        <3> QED BY <1>3, <2>2, <3>1
    <2>3. QueueOK'
        BY <1>4, <1>9, <2>2 DEF EndSessionSecond
    <2> QED BY <2>1, <2>3 DEF EntriesJustified, QueueOK
<1>10. CASE GarbageCollector
    <2>1. ASSUME NEW c \in Conn, Built(c), Collect(c) PROVE EntriesJustified'
        <3>1. serial[c] \in Serial \cup {NoSerial}
            BY DEF TypeOK
        <3>2. QueueOK'
            BY <2>1, <3>1, QueueStays DEF Collect, AddCleanupSession, QueueOK
        <3> QED BY <1>1, <2>1, <3>2 DEF Collect
    <2>2. ASSUME NEW s \in Serial, CollectSerial(s)
          PROVE  \E c \in Conn : Built(c) /\ Collect(c)
        BY <2>2 DEF CollectSerial, Places, TypeOK
    <2>3. ASSUME NEW c \in Conn, CollectSession(c)
          PROVE  Built(c) /\ Collect(c)
        BY <2>3 DEF CollectSession, Places
    <2> QED BY <1>10, <2>1, <2>2, <2>3 DEF GarbageCollector
<1>11. CASE Disconnect
    <2>1. ASSUME NEW s \in Serial, DisconnectSerial(s) PROVE EntriesJustified'
        BY <1>1, <1>4, <2>1 DEF DisconnectSerial
    <2>2. ASSUME NEW c \in Conn, DisconnectSession(c) PROVE EntriesJustified'
        <3>1. ASSUME NEW d \in Sessions_, Drop(d, NoConn) PROVE QueueOK'
            BY <1>3, <3>1 DEF Places, TypeOK
        <3>2. QueueOK'
            BY <1>4, <2>2, <3>1 DEF DisconnectSession
        <3> QED BY <1>1, <2>2, <3>2 DEF DisconnectSession
    <2>3. ASSUME NEW c \in Conn, DisconnectReturn(c) PROVE EntriesJustified'
        <3>1. Built(c)
            BY <2>3 DEF DisconnectReturn, Places
        <3>2. QueueOK'
            BY <1>3, <2>3, <3>1 DEF DisconnectReturn
        <3> QED BY <1>1, <2>3, <3>2 DEF DisconnectReturn
    <2> QED BY <1>11, <2>1, <2>2, <2>3 DEF Disconnect
<1>12. CASE UNCHANGED vars
    BY <1>1, <1>4, <1>12 DEF vars
<1> QED BY <1>5, <1>6, <1>7, <1>8, <1>9, <1>10, <1>11, <1>12 DEF Next, Cleanup

(* A connection that is being started is taken out of Sessions_ only when  *)
(* it was to end.                                                          *)
LEMMA AddedStep ==
    ASSUME IInv, [Next]_vars
    PROVE  AddedIsFiled'
<1> USE DEF ownerVars, deathVars, cleanupVars, deviceVars, idVars
<1> SUFFICES ASSUME NEW c \in Conn, stage'[c] = "added", OwnSession(c)',
                    c \notin doomed'
             PROVE  c \in Sessions_'
    BY DEF AddedIsFiled
<1>1. TypeOK /\ Places /\ OnlyDoomedDestroyed
    BY DEF IInv
<1>2. CASE AddConnection(c)
    <2>1. Built(c) /\ sessionId' = sessionId
        BY <1>2 DEF AddConnection, Built
    <2>2. OwnSession(c)
        BY <1>1, <2>1, OwnBefore
    <2>3. ASSUME NEW d \in Sessions_, sessionId[d] = sessionId[c] PROVE d = c
        BY <1>1, <2>2, <2>3 DEF OwnSession, Places, TypeOK
    <2> QED BY <1>2, <2>3 DEF AddConnection
<1>3. CASE ~AddConnection(c)
    <2>1. stage[c] = "added"
        BY <1>1, <1>3 DEF TypeOK, Next, vars, HandleRequest, CountSession,
           CreateConnection, AddConnection, StartConnection, Handler,
           OnSocketGone, ValidateDevice, RejectDevice, KillFrame, ConnectFrame,
           ConnectStep, StartSessionTake, StartSessionRegister, ProvisionOK,
           ProvisionMustUpgrade, ProvisionRefused, Cleanup, TakeCleanup,
           EndSessionFirst, EndSessionSecond, GarbageCollector, CollectSerial,
           CollectSession, Collect, Disconnect, DisconnectSerial,
           DisconnectSession, DisconnectReturn
    <2>2. Built(c) /\ c \notin doomed
        BY <1>1, <2>1, Grows DEF Built
    <2>3. OwnSession(c)
        BY <1>1, <2>2, OwnBefore
    <2>4. c \in Sessions_
        BY <2>1, <2>2, <2>3 DEF IInv, AddedIsFiled
    <2>5. ASSUME NEW d \in Conn, StartSessionTake(d) PROVE c \in Sessions_'
        <3>1. stage[d] = "open" /\ d # c
            BY <1>1, <2>1, <2>5 DEF StartSessionTake, Places
        <3>2. sessionId[d] # sessionId[c]
            BY <2>3, <3>1 DEF OwnSession, Built
        <3> QED BY <2>4, <2>5, <3>2 DEF StartSessionTake, SessionsWithout
    <2>6. CASE EndSessionFirst
        <3>1. Justified(cleanup.session)
            BY <2>6 DEF EndSessionFirst, IInv, EntriesJustified
        <3>2. sessionId[c] # cleanup.session
            BY <1>1, <2>2, <2>3, <3>1, Only
        <3> QED BY <2>4, <2>6, <3>2 DEF EndSessionFirst
    <2>7. ASSUME NEW d \in Conn, DisconnectSession(d) PROVE c \in Sessions_'
        <3>1. Built(d) /\ d \in doomed
            BY <1>1, <2>7 DEF DisconnectSession, Places
        <3>2. sessionId[d] # sessionId[c]
            BY <2>2, <2>3, <3>1 DEF OwnSession
        <3> QED BY <2>4, <2>7, <3>2 DEF DisconnectSession
    <2>8. CASE Sessions_ \subseteq Sessions_'
        BY <2>4, <2>8
    <2> QED BY <2>5, <2>6, <2>7, <2>8 DEF Next, vars, HandleRequest,
           CountSession, CreateConnection, AddConnection, StartConnection,
           Handler, OnSocketGone, ValidateDevice, RejectDevice, KillFrame,
           ConnectFrame, ConnectStep, StartSessionRegister, ProvisionOK,
           ProvisionMustUpgrade, ProvisionRefused, Cleanup, TakeCleanup,
           EndSessionSecond, GarbageCollector, CollectSerial, CollectSession,
           Collect, Disconnect, DisconnectSerial, DisconnectReturn
<1> QED BY <1>2, <1>3

(* The last pointer to a connection goes away only after the decision to   *)
(* end it.                                                                 *)
LEMMA DoomedStep ==
    ASSUME IInv, [Next]_vars
    PROVE  OnlyDoomedDestroyed'
<1> USE DEF ownerVars, deathVars, cleanupVars, deviceVars, idVars
<1> SUFFICES ASSUME NEW c \in gone', OwnSession(c)' PROVE c \in doomed'
    BY DEF OnlyDoomedDestroyed
<1>1. TypeOK /\ Places /\ OnlyDoomedDestroyed
    BY DEF IInv
<1>2. c \in Conn
    BY <1>1, TypeStep DEF TypeOK
<1>3. doomed \subseteq doomed'
    BY <1>1, Grows
<1>4. Built(c) => OwnSession(c)
    BY <1>1, <1>2, OwnBefore
<1>5. CASE c \in gone
    BY <1>1, <1>3, <1>4, <1>5 DEF Places, OnlyDoomedDestroyed
<1>6. CASE c \notin gone
    <2>1. ASSUME NEW d, NEW self, Drop(d, self) PROVE c = d
        BY <1>6, <2>1, DropGone
    <2>2. ASSUME NEW d \in Conn, HandleRequest(d) PROVE c \in doomed'
        <3>1. StartConnection(d)
            BY <1>6, <2>2 DEF HandleRequest, CountSession, CreateConnection,
               AddConnection
        <3>2. c = d
            BY <2>1, <3>1 DEF StartConnection
        <3>3. stage[c] = "added" /\ OwnSession(c)
            BY <1>4, <3>1, <3>2 DEF StartConnection, Built
        <3>4. c \notin Sessions_
            <4>1. ~Owned(d)'
                BY <1>6, <3>1 DEF StartConnection, Drop
            <4>2. d \notin Sessions_'
                BY <4>1 DEF Owned
            <4> QED BY <3>1, <3>2, <4>2 DEF StartConnection
        <3> QED BY <1>2, <1>3, <3>3, <3>4 DEF IInv, AddedIsFiled
    <2>3. ASSUME NEW d \in Conn, Handler(d) PROVE c \in doomed'
        <3>1. StartSessionRegister(d)
            BY <1>6, <2>3 DEF Handler, OnSocketGone, ValidateDevice,
               RejectDevice, KillFrame, ConnectFrame, ConnectStep,
               StartSessionTake, ProvisionOK, ProvisionMustUpgrade,
               ProvisionRefused
        <3> QED BY <1>6, <2>1, <3>1 DEF StartSessionRegister
    <2>4. CASE Cleanup
        <3>1. Built(c) /\ sessionId[c] = cleanup.session
              /\ Justified(cleanup.session)
            <4>1. CASE EndSessionFirst
                <5>1. PICK d \in Sessions_ : /\ sessionId[d] = cleanup.session
                                             /\ Drop(d, NoConn)
                    BY <1>6, <4>1 DEF EndSessionFirst
                <5>2. c = d
                    BY <2>1, <5>1
                <5>3. Justified(cleanup.session)
                    BY <4>1 DEF EndSessionFirst, IInv, EntriesJustified
                <5> QED BY <1>1, <5>1, <5>2, <5>3 DEF Places
            <4>2. CASE EndSessionSecond
                <5>1. PICK s \in Serial, d \in Conn :
                         /\ SerialNumbers_[s] = d /\ SameSession(d, cleanup)
                         /\ Drop(d, NoConn)
                    BY <1>6, <4>2 DEF EndSessionSecond
                <5>2. c = d
                    BY <2>1, <5>1
                <5>3. Justified(cleanup.session)
                    BY <4>2 DEF EndSessionSecond, IInv, EntriesJustified
                <5> QED BY <1>1, <5>1, <5>2, <5>3 DEF Places, SameSession
            <4>3. CASE TakeCleanup
                BY <1>6, <4>3 DEF TakeCleanup
            <4> QED BY <2>4, <4>1, <4>2, <4>3 DEF Cleanup
        <3> QED BY <1>1, <1>2, <1>3, <1>4, <3>1, Only
    <2>5. CASE GarbageCollector
        BY <1>6, <2>5 DEF GarbageCollector, CollectSerial, CollectSession, Collect
    <2>6. CASE Disconnect
        <3>1. ASSUME NEW s \in Serial, DisconnectSerial(s) PROVE c \in doomed'
            BY <1>6, <3>1 DEF DisconnectSerial
        <3>2. ASSUME NEW e \in Conn, DisconnectSession(e) PROVE c \in doomed'
            <4>1. PICK d \in Sessions_ : /\ sessionId[d] = sessionId[e]
                                         /\ Drop(d, NoConn)
                BY <1>6, <3>2 DEF DisconnectSession
            <4>2. c = d
                BY <2>1, <4>1
            <4>3. Built(c) /\ Built(e) /\ e \in doomed
                BY <1>1, <3>2, <4>1, <4>2 DEF DisconnectSession, Places
            <4>4. c = e
                BY <1>4, <4>1, <4>2, <4>3 DEF OwnSession
            <4> QED BY <1>3, <4>3, <4>4
        <3>3. ASSUME NEW e \in Conn, DisconnectReturn(e) PROVE c \in doomed'
            <4>1. c = e /\ e \in doomed
                BY <1>1, <2>1, <3>3 DEF DisconnectReturn, Places
            <4> QED BY <1>3, <4>1
        <3> QED BY <2>6, <3>1, <3>2, <3>3 DEF Disconnect
    <2>7. CASE UNCHANGED vars
        BY <1>6, <2>7 DEF vars
    <2> QED BY <2>2, <2>3, <2>4, <2>5, <2>6, <2>7 DEF Next
<1> QED BY <1>5, <1>6

LEMMA InvariantInit == Init => IInv
<1> SUFFICES ASSUME Init PROVE IInv
    OBVIOUS
<1>1. TypeOK
    BY TypeInit
<1>2. Places /\ EntriesJustified /\ AddedIsFiled /\ OnlyDoomedDestroyed
    BY DEF Init, Places, EntriesJustified, AddedIsFiled, OnlyDoomedDestroyed
<1> QED BY <1>1, <1>2 DEF IInv

LEMMA InvariantStep == IInv /\ [Next]_vars => IInv'
<1> SUFFICES ASSUME IInv, [Next]_vars PROVE IInv'
    OBVIOUS
<1>1. TypeOK /\ Places /\ EntriesJustified
    BY DEF IInv
<1>2. TypeOK'
    BY <1>1, TypeStep
<1>3. Places'
    BY <1>1, PlacesStep
<1>4. EntriesJustified'
    BY <1>1, EntriesStep
<1> QED BY <1>2, <1>3, <1>4, AddedStep, DoomedStep DEF IInv

(* No connection of AP_WS_Server is destroyed by mistake: with an id of    *)
(* its own it goes away only when its own end, the garbage collector, a    *)
(* newer connection of the same device or an operator asked for it, in     *)
(* every interleaving of StartSession, EndSession, Disconnect, the cleanup *)
(* thread and the garbage collector, for any number of devices.            *)
THEOREM OnlyDoomedAreDestroyed == Spec => []OnlyDoomedDestroyed
<1>1. IInv => OnlyDoomedDestroyed
    BY DEF IInv
<1> QED BY <1>1, InvariantInit, InvariantStep, PTL DEF Spec

-----------------------------------------------------------------------------
(* How often a disconnection is reported. *)

(* A disconnection is reported with Dead_, once; it is not only for a      *)
(* device that is not known, which has neither reported a connection nor   *)
(* reached the handler that would.                                         *)
Reports ==
    \A c \in Conn :
        /\ retired[c] \in {0, 1}
        /\ ~Dead_[c] => retired[c] = 0
        /\ Dead_[c] /\ retired[c] = 0 => ~announced[c] /\ handler[c] = "none"
        /\ announced[c] => serial[c] \in Serial
        /\ c \in gone => Dead_[c]

(* What EndConnection does to the flag and the count. *)
LEMMA EndOnce ==
    ASSUME TypeOK, NEW c \in Conn, NEW s, EndConnection(c, s)
    PROVE  /\ Dead_'[c]
           /\ Dead_[c] => retired'[c] = retired[c]
           /\ ~Dead_[c] => retired'[c] = IF s = NoSerial THEN retired[c]
                                         ELSE retired[c] + 1
           /\ \A d \in Conn \ {c} : /\ Dead_'[d] = Dead_[d]
                                     /\ retired'[d] = retired[d]
BY DEF EndConnection, MustEnd, TypeOK

(* Reports survives an EndConnection with the serial number that the       *)
(* connection has then.                                                    *)
LEMMA EndReports ==
    ASSUME TypeOK, Places, Reports, NEW c \in Conn, EndConnection(c, serial'[c]),
           announced' = announced,
           handler' = handler \/ handler' = [handler EXCEPT ![c] = "none"],
           serial' = serial
             \/ \E s \in Serial : serial' = [serial EXCEPT ![c] = s],
           gone' \subseteq gone \cup {c}
    PROVE  Reports'
<1> SUFFICES ASSUME NEW d \in Conn
             PROVE  /\ retired'[d] \in {0, 1}
                    /\ ~Dead_'[d] => retired'[d] = 0
                    /\ Dead_'[d] /\ retired'[d] = 0
                       => ~announced'[d] /\ handler'[d] = "none"
                    /\ announced'[d] => serial'[d] \in Serial
                    /\ d \in gone' => Dead_'[d]
    BY DEF Reports
<1>1. /\ Dead_'[c]
      /\ Dead_[c] => retired'[c] = retired[c]
      /\ ~Dead_[c] => retired'[c] = IF serial'[c] = NoSerial THEN retired[c]
                                    ELSE retired[c] + 1
      /\ \A e \in Conn \ {c} : /\ Dead_'[e] = Dead_[e]
                                /\ retired'[e] = retired[e]
    BY EndOnce
<1>2. CASE d # c
    BY <1>1, <1>2 DEF Reports, TypeOK
<1>3. CASE d = c
    <2>1. CASE serial' = serial
        <3>1. serial[c] = NoSerial => ~announced[c] /\ handler[c] = "none"
            BY SessionAssumption DEF Reports, Places
        <3>2. handler[c] = "none" => handler'[c] = "none"
            BY DEF TypeOK
        <3>3. retired[c] \in {0, 1} /\ (~Dead_[c] => retired[c] = 0)
            BY DEF Reports
        <3>4. retired'[c] \in {0, 1}
            BY <1>1, <3>3
        <3>5. Dead_'[c] /\ retired'[c] = 0 => ~announced'[c] /\ handler'[c] = "none"
            BY <1>1, <2>1, <3>1, <3>2, <3>3 DEF Reports
        <3> QED BY <1>1, <1>3, <2>1, <3>4, <3>5 DEF Reports
    <2>2. CASE serial'[c] \in Serial
        <3>1. serial'[c] # NoSerial
            BY <2>2, SessionAssumption
        <3>2. handler[c] = "none" => handler'[c] = "none"
            BY DEF TypeOK
        <3>3. retired[c] \in {0, 1} /\ (~Dead_[c] => retired[c] = 0)
            BY DEF Reports
        <3>4. retired'[c] \in {0, 1} /\ (~Dead_[c] => retired'[c] = 1)
            BY <1>1, <3>1, <3>3
        <3>5. Dead_'[c] /\ retired'[c] = 0 => ~announced'[c] /\ handler'[c] = "none"
            BY <1>1, <3>2, <3>4 DEF Reports
        <3> QED BY <1>1, <1>3, <2>2, <3>4, <3>5
    <2>3. serial' = serial \/ serial'[c] \in Serial
        BY DEF TypeOK
    <2> QED BY <2>1, <2>2, <2>3
<1> QED BY <1>2, <1>3

(* The destructor reports what is left to report. *)
LEMMA DropReports ==
    ASSUME TypeOK, Places, Reports, NEW c \in Conn, NEW self, Drop(c, self),
           UNCHANGED <<announced, serial>>,
           \A d \in Conn : handler'[d] = "none" \/ (handler[d] # "none")
    PROVE  Reports'
<1>1. CASE Owned(c)'
    BY <1>1 DEF Drop, deathVars, Reports
<1>2. CASE ~Owned(c)'
    <2>1. /\ gone' = gone \cup {c}
          /\ EndConnection(c, serial[c])
        BY <1>2 DEF Drop, Destroy
    <2>2. /\ Dead_'[c]
          /\ Dead_[c] => retired'[c] = retired[c]
          /\ ~Dead_[c] => retired'[c] = IF serial[c] = NoSerial THEN retired[c]
                                        ELSE retired[c] + 1
          /\ \A e \in Conn \ {c} : /\ Dead_'[e] = Dead_[e]
                                    /\ retired'[e] = retired[e]
        BY <2>1, EndOnce
    <2>3. serial[c] = NoSerial => ~announced[c] /\ handler'[c] = "none"
        BY SessionAssumption DEF Reports, Places
    <2>4. retired[c] \in {0, 1} /\ (~Dead_[c] => retired[c] = 0)
        BY DEF Reports
    <2>5. retired'[c] \in {0, 1}
        BY <2>2, <2>4
    <2>6. retired'[c] = 0 => ~announced'[c] /\ handler'[c] = "none"
        BY <2>2, <2>3, <2>4 DEF Reports
    <2>7. \A d \in Conn \ {c} : d \in gone' => d \in gone
        BY <2>1
    <2> QED BY <2>2, <2>5, <2>6, <2>7 DEF Reports
<1> QED BY <1>1, <1>2

LEMMA ReportsStep ==
    ASSUME TypeOK, Places, Reports, [Next]_vars
    PROVE  Reports'
<1> USE DEF ownerVars, deathVars, cleanupVars, deviceVars, idVars
<1>1. ASSUME NEW c \in Conn, HandleRequest(c) PROVE Reports'
    <2>1. CASE StartConnection(c)
        BY <2>1, DropReports DEF StartConnection
    <2>2. CASE ~StartConnection(c)
        BY <1>1, <2>2 DEF HandleRequest, CountSession, CreateConnection,
           AddConnection, Reports
    <2> QED BY <2>1, <2>2
<1>2. ASSUME NEW c \in Conn, OnSocketGone(c) PROVE Reports'
    BY <1>2, EndReports DEF OnSocketGone
<1>3. ASSUME NEW c \in Conn, NEW s \in Serial, ValidateDevice(c, s) PROVE Reports'
    BY <1>3 DEF ValidateDevice, Reports, TypeOK
<1>4. ASSUME NEW c \in Conn, NEW s \in Serial \cup {NoSerial}, RejectDevice(c, s)
      PROVE  Reports'
    <2>1. serial' = serial \/ \E r \in Serial : serial' = [serial EXCEPT ![c] = r]
        BY <1>4 DEF RejectDevice, TypeOK
    <2> QED BY <1>4, <2>1, EndReports DEF RejectDevice
<1>5. ASSUME NEW c \in Conn, KillFrame(c) PROVE Reports'
    BY <1>5, EndReports DEF KillFrame
<1>6. ASSUME NEW c \in Conn, NEW s \in Serial, ConnectFrame(c, s) PROVE Reports'
    BY <1>6 DEF ConnectFrame, Readable, Reports, TypeOK
<1>7. ASSUME NEW c \in Conn, StartSessionTake(c) PROVE Reports'
    BY <1>7 DEF StartSessionTake, Reports, TypeOK
<1>8. ASSUME NEW c \in Conn, StartSessionRegister(c) PROVE Reports'
    <2>1. \A d \in Conn : \/ handler'[d] = handler[d]
                          \/ d = c /\ handler[c] # "none"
        BY <1>8 DEF StartSessionRegister, TypeOK
    <2>2. ASSUME NEW old \in Conn, Drop(old, c) PROVE Reports'
        BY <1>8, <2>1, <2>2, DropReports DEF StartSessionRegister
    <2>3. CASE UNCHANGED deathVars
        BY <1>8, <2>1, <2>3 DEF StartSessionRegister, Reports
    <2> QED BY <1>8, <2>2, <2>3 DEF StartSessionRegister
<1>9. ASSUME NEW c \in Conn, ProvisionOK(c) PROVE Reports'
    <2>1. handler[c] # "none" /\ serial[c] \in Serial
        BY <1>9 DEF ProvisionOK, Places
    <2> QED BY <1>9, <2>1 DEF ProvisionOK, Reports, TypeOK
<1>10. ASSUME NEW c \in Conn, ProvisionMustUpgrade(c) PROVE Reports'
    BY <1>10 DEF ProvisionMustUpgrade, Reports, TypeOK
<1>11. ASSUME NEW c \in Conn, ProvisionRefused(c) PROVE Reports'
    BY <1>11, EndReports DEF ProvisionRefused
<1>12. CASE Cleanup
    <2>1. UNCHANGED <<announced, serial, handler>>
        BY <1>12 DEF Cleanup, TakeCleanup, EndSessionFirst, EndSessionSecond
    <2>2. ASSUME NEW c \in Conn, Drop(c, NoConn) PROVE Reports'
        BY <2>1, <2>2, DropReports
    <2>3. CASE UNCHANGED <<gone, Dead_, retired>>
        BY <2>1, <2>3 DEF Reports
    <2> QED BY <1>12, <2>2, <2>3 DEF Cleanup, TakeCleanup, EndSessionFirst,
                                     EndSessionSecond, TypeOK
<1>13. CASE GarbageCollector
    BY <1>13 DEF GarbageCollector, CollectSerial, CollectSession, Collect, Reports
<1>14. CASE Disconnect
    <2>1. UNCHANGED <<announced, serial, handler>>
        BY <1>14 DEF Disconnect, DisconnectSerial, DisconnectSession,
           DisconnectReturn
    <2>2. ASSUME NEW c \in Conn, Drop(c, NoConn) PROVE Reports'
        BY <2>1, <2>2, DropReports
    <2>3. CASE UNCHANGED <<gone, Dead_, retired>>
        BY <2>1, <2>3 DEF Reports
    <2> QED BY <1>14, <2>2, <2>3 DEF Disconnect, DisconnectSerial,
                                     DisconnectSession, DisconnectReturn, TypeOK
<1>15. CASE UNCHANGED vars
    BY <1>15 DEF vars, Reports
<1> QED BY <1>1, <1>2, <1>3, <1>4, <1>5, <1>6, <1>7, <1>8, <1>9, <1>10, <1>11,
           <1>12, <1>13, <1>14, <1>15 DEF Next, Handler, ConnectStep

(* However many actors end a connection and however often (sockets,        *)
(* handlers, the destructor), EndConnection posts one disconnection for it *)
(* at most, and one is posted for each connection that was announced and   *)
(* is destroyed.                                                           *)
THEOREM DisconnectionReportedOnce == Spec => []RetiredOnce
<1> DEFINE Inv == TypeOK /\ Places /\ Reports
<1>1. Init => Inv
    BY TypeInit DEF Init, Places, Reports
<1>2. Inv /\ [Next]_vars => Inv'
    BY TypeStep, PlacesStep, ReportsStep
<1>3. Inv => RetiredOnce
    BY DEF Reports, RetiredOnce
<1> QED BY <1>1, <1>2, <1>3, PTL DEF Spec

-----------------------------------------------------------------------------
(* Who holds a pointer. *)

Filed(c) == \E s \in Serial : SerialNumbers_[s] = c
Moved(c) == \E d \in Conn : moving[d] = c

(* A connection is in one place at a time: in Sessions_, in the local      *)
(* pointer of the StartSession that moves it, or in SerialNumbers_.        *)
Apart ==
    /\ \A c \in Conn : c \in Sessions_ \/ Filed(c) \/ Moved(c)
                         => stage[c] \in {"added", "open"}
    /\ \A c \in Sessions_ : ~Filed(c) /\ ~Moved(c)
    /\ \A c \in Conn : ~(Filed(c) /\ Moved(c))
    /\ \A s, t \in Serial : SerialNumbers_[s] # NoConn
                              /\ SerialNumbers_[s] = SerialNumbers_[t] => s = t
    /\ \A d, e \in Conn : moving[d] # NoConn /\ moving[d] = moving[e] => d = e

GoneUnowned == \A c \in gone : ~Owned(c)

Holdings == Apart /\ GoneUnowned

(* The steps that do something to a pointer. *)
LEMMA PointerSteps ==
    ASSUME [Next]_vars
    PROVE  \/ UNCHANGED <<ownerVars, gone>>
           \/ \E c \in Conn : HandleRequest(c)
           \/ \E c \in Conn : StartSessionTake(c) \/ StartSessionRegister(c)
           \/ EndSessionFirst \/ EndSessionSecond
           \/ \E s \in Serial : DisconnectSerial(s)
           \/ \E c \in Conn : DisconnectSession(c) \/ DisconnectReturn(c)
<1> USE DEF ownerVars, deathVars
<1>1. ASSUME NEW c \in Conn, Handler(c)
      PROVE  \/ UNCHANGED <<ownerVars, gone>>
             \/ StartSessionTake(c) \/ StartSessionRegister(c)
    BY <1>1 DEF Handler, OnSocketGone, ValidateDevice, RejectDevice, KillFrame,
       ConnectFrame, ConnectStep, ProvisionOK, ProvisionMustUpgrade,
       ProvisionRefused
<1>2. CASE TakeCleanup \/ GarbageCollector \/ UNCHANGED vars
    BY <1>2 DEF TakeCleanup, GarbageCollector, CollectSerial, CollectSession,
       Collect, vars
<1> QED BY <1>1, <1>2 DEF Next, Cleanup, Disconnect

(* The request that creates a connection adds its first pointers. *)
LEMMA RequestApart ==
    ASSUME TypeOK, Apart, NEW c \in Conn, HandleRequest(c)
    PROVE  Apart'
<1> USE DEF ownerVars
<1>1. UNCHANGED <<SerialNumbers_, moving>>
    BY DEF HandleRequest, CountSession, CreateConnection, AddConnection,
       StartConnection
<1>2. \A d \in Conn : /\ Filed(d)' <=> Filed(d)
                      /\ Moved(d)' <=> Moved(d)
    BY <1>1 DEF Filed, Moved
<1>3. CASE AddConnection(c)
    <2>1. stage[c] = "built" /\ stage' = [stage EXCEPT ![c] = "added"]
        BY <1>3 DEF AddConnection
    <2>2. ~Filed(c) /\ ~Moved(c)
        BY <2>1 DEF Apart
    <2>3. Sessions_' = Sessions_ \/ Sessions_' = Sessions_ \cup {c}
        BY <1>3 DEF AddConnection
    <2> QED BY <1>1, <1>2, <2>1, <2>2, <2>3 DEF Apart, TypeOK
<1>4. CASE ~AddConnection(c)
    <2>1. /\ Sessions_' = Sessions_
          /\ \A d \in Conn : stage[d] \in {"added", "open"}
                               => stage'[d] \in {"added", "open"}
        BY <1>4 DEF HandleRequest, CountSession, CreateConnection,
           StartConnection, TypeOK
    <2> QED BY <1>1, <1>2, <2>1 DEF Apart, TypeOK
<1> QED BY <1>3, <1>4

(* Taking a pointer away cannot bring a connection into two places. *)
LEMMA FewerApart ==
    ASSUME TypeOK, Apart, UNCHANGED <<stage, moving>>, Sessions_' \subseteq Sessions_,
           \A s \in Serial : SerialNumbers_'[s] \in {SerialNumbers_[s], NoConn}
    PROVE  Apart'
<1>1. \A d \in Conn : /\ Filed(d)' => Filed(d)
                      /\ Moved(d)' => Moved(d)
    BY SessionAssumption DEF Filed, Moved
<1> QED BY <1>1 DEF Apart, TypeOK

LEMMA TakeApart ==
    ASSUME TypeOK, Places, Apart, NEW c \in Conn, StartSessionTake(c)
    PROVE  Apart'
<1>1. UNCHANGED <<stage, SerialNumbers_>>
    BY DEF StartSessionTake
<1>2. CASE UNCHANGED <<Sessions_, moving>>
    BY <1>1, <1>2, FewerApart
<1>3. ASSUME NEW m \in Sessions_, Sessions_' = Sessions_ \ {m},
             moving' = [moving EXCEPT ![c] = m]
      PROVE  Apart'
    <2>1. m \in Conn /\ stage[m] \in {"added", "open"} /\ ~Filed(m) /\ ~Moved(m)
        BY DEF Apart, TypeOK
    <2>2. \A d \in Conn : /\ Filed(d)' => Filed(d)
                          /\ Moved(d)' => Moved(d) \/ d = m
        BY <1>1, <1>3 DEF Filed, Moved, TypeOK
    <2>3. \A d, e \in Conn : moving'[d] # NoConn /\ moving'[d] = moving'[e] => d = e
        <3> SUFFICES ASSUME NEW d \in Conn, NEW e \in Conn, moving'[d] # NoConn,
                            moving'[d] = moving'[e], d # e
                     PROVE  FALSE
            OBVIOUS
        <3>1. moving[d] # m /\ moving[e] # m
            BY <2>1 DEF Moved
        <3> QED BY <1>3, <3>1 DEF Apart, TypeOK
    <2> QED BY <1>1, <1>3, <2>1, <2>2, <2>3 DEF Apart, TypeOK
<1> QED BY <1>2, <1>3 DEF StartSessionTake, SessionsWithout

LEMMA RegisterApart ==
    ASSUME TypeOK, Places, Apart, NEW c \in Conn, StartSessionRegister(c)
    PROVE  Apart'
<1> DEFINE m == moving[c]
<1>1. /\ UNCHANGED <<stage, Sessions_>>
      /\ serial[c] \in Serial
      /\ SerialNumbers_' = [SerialNumbers_ EXCEPT ![serial[c]] = m]
      /\ moving' = [moving EXCEPT ![c] = NoConn]
    BY DEF StartSessionRegister, Registered, Places
<1>2. \A d \in Conn : /\ Filed(d)' => Filed(d) \/ d = m
                      /\ Moved(d)' => Moved(d) /\ d # m
    <2> SUFFICES ASSUME NEW d \in Conn
                 PROVE  /\ Filed(d)' => Filed(d) \/ d = m
                        /\ Moved(d)' => Moved(d) /\ d # m
        OBVIOUS
    <2>1. Filed(d)' => Filed(d) \/ d = m
        BY <1>1 DEF Filed, TypeOK
    <2>2. ASSUME NEW e \in Conn, moving'[e] = d PROVE moving[e] = d /\ e # c
        BY <1>1, <2>2, SessionAssumption DEF TypeOK
    <2>3. ASSUME NEW e \in Conn, moving'[e] = d PROVE d # m
        BY <2>2, <2>3, SessionAssumption DEF Apart
    <2> QED BY <2>1, <2>2, <2>3 DEF Moved
<1>3. m # NoConn => /\ m \in Conn /\ Moved(m) /\ stage[m] \in {"added", "open"}
                    /\ m \notin Sessions_ /\ ~Filed(m)
    BY DEF Apart, Moved, TypeOK
<1>4. \A s, t \in Serial : SerialNumbers_'[s] # NoConn
                             /\ SerialNumbers_'[s] = SerialNumbers_'[t] => s = t
    <2>1. \A s \in Serial : m # NoConn => SerialNumbers_[s] # m
        BY <1>3 DEF Filed
    <2> HIDE DEF m
    <2> QED BY <1>1, <2>1 DEF Apart, TypeOK
<1>5. \A d, e \in Conn : moving'[d] # NoConn /\ moving'[d] = moving'[e] => d = e
    BY <1>1 DEF Apart, TypeOK
<1>6. \A d \in Conn : d \in Sessions_' \/ Filed(d)' \/ Moved(d)'
                         => stage'[d] \in {"added", "open"}
    BY <1>1, <1>2, <1>3, SessionAssumption DEF Apart
<1>7. \A d \in Conn : d = m => m # NoConn
    BY SessionAssumption
<1>8. \A d \in Sessions_' : ~Filed(d)' /\ ~Moved(d)'
    BY <1>1, <1>2, <1>3, <1>7 DEF Apart, TypeOK
<1>9. \A d \in Conn : ~(Filed(d)' /\ Moved(d)')
    BY <1>2 DEF Apart
<1> QED BY <1>4, <1>5, <1>6, <1>8, <1>9 DEF Apart, Filed, Moved

(* StartSession, EndSession and Disconnect move pointers, they copy none   *)
(* that stays.                                                             *)
LEMMA ApartStep ==
    ASSUME TypeOK, Places, Apart, [Next]_vars
    PROVE  Apart'
<1> USE DEF ownerVars
<1>1. CASE UNCHANGED <<stage, Sessions_, SerialNumbers_, moving>>
    BY <1>1, FewerApart
<1>2. CASE EndSessionFirst
    <2>1. UNCHANGED <<stage, SerialNumbers_, moving>> /\ Sessions_' \subseteq Sessions_
        BY <1>2 DEF EndSessionFirst
    <2> QED BY <2>1, FewerApart
<1>3. CASE EndSessionSecond
    <2>1. /\ UNCHANGED <<stage, Sessions_, moving>>
          /\ \A s \in Serial : SerialNumbers_'[s] \in {SerialNumbers_[s], NoConn}
        BY <1>3 DEF EndSessionSecond, TypeOK
    <2> QED BY <2>1, FewerApart
<1>4. ASSUME NEW s \in Serial, DisconnectSerial(s) PROVE Apart'
    <2>1. /\ UNCHANGED <<stage, Sessions_, moving>>
          /\ \A t \in Serial : SerialNumbers_'[t] \in {SerialNumbers_[t], NoConn}
        BY <1>4 DEF DisconnectSerial, TypeOK
    <2> QED BY <2>1, FewerApart
<1>5. ASSUME NEW c \in Conn, DisconnectSession(c) PROVE Apart'
    <2>1. UNCHANGED <<stage, SerialNumbers_, moving>> /\ Sessions_' \subseteq Sessions_
        BY <1>5 DEF DisconnectSession
    <2> QED BY <2>1, FewerApart
<1>6. ASSUME NEW c \in Conn, DisconnectReturn(c) PROVE Apart'
    BY <1>1, <1>6 DEF DisconnectReturn
<1> QED BY <1>1, <1>2, <1>3, <1>4, <1>5, <1>6, PointerSteps, RequestApart,
           TakeApart, RegisterApart

(* Only the request of a new connection makes a pointer to a connection    *)
(* that had none.                                                          *)
LEMMA OwnedBefore ==
    ASSUME TypeOK, Places, [Next]_vars, NEW c \in Conn, Built(c), Owned(c)'
    PROVE  Owned(c)
<1> USE DEF ownerVars
<1>1. CASE UNCHANGED ownerVars
    BY <1>1 DEF Owned
<1>2. ASSUME NEW d \in Conn, HandleRequest(d) PROVE Owned(c)
    <2>1. /\ UNCHANGED <<SerialNumbers_, moving, disconnecting>>
          /\ stage'[c] \in {"built", "added"} => stage[c] \in {"built", "added"}
          /\ c \in Sessions_' => c \in Sessions_ \/ stage[c] = "built"
        BY <1>2 DEF HandleRequest, CountSession, CreateConnection, AddConnection,
           StartConnection, TypeOK, Built
    <2> QED BY <2>1 DEF Owned
<1>3. ASSUME NEW d \in Conn, StartSessionTake(d) PROVE Owned(c)
    <2>1. /\ UNCHANGED <<stage, SerialNumbers_, disconnecting>>
          /\ Sessions_' \subseteq Sessions_
          /\ \A e \in Conn : moving'[e] = moving[e] \/ moving'[e] \in Sessions_
        BY <1>3 DEF StartSessionTake, SessionsWithout, TypeOK
    <2> QED BY <2>1 DEF Owned
<1>4. ASSUME NEW d \in Conn, StartSessionRegister(d) PROVE Owned(c)
    <2>1. /\ UNCHANGED <<stage, Sessions_, disconnecting>>
          /\ \A s \in Serial : \/ SerialNumbers_'[s] = SerialNumbers_[s]
                               \/ SerialNumbers_'[s] = moving[d]
          /\ \A e \in Conn : moving'[e] = moving[e] \/ moving'[e] = NoConn
        BY <1>4 DEF StartSessionRegister, Registered, TypeOK
    <2> QED BY <2>1, SessionAssumption DEF Owned
<1>5. CASE EndSessionFirst
    BY <1>5 DEF EndSessionFirst, Owned
<1>6. CASE EndSessionSecond
    <2>1. /\ UNCHANGED <<stage, Sessions_, moving, disconnecting>>
          /\ \A s \in Serial : \/ SerialNumbers_'[s] = SerialNumbers_[s]
                               \/ SerialNumbers_'[s] = NoConn
        BY <1>6 DEF EndSessionSecond, TypeOK
    <2> QED BY <2>1, SessionAssumption DEF Owned
<1>7. ASSUME NEW s \in Serial, DisconnectSerial(s) PROVE Owned(c)
    <2>1. /\ UNCHANGED <<stage, Sessions_, moving>>
          /\ \A t \in Serial : \/ SerialNumbers_'[t] = SerialNumbers_[t]
                               \/ SerialNumbers_'[t] = NoConn
          /\ disconnecting'[c] = disconnecting[c] \/ SerialNumbers_[s] = c
        BY <1>7 DEF DisconnectSerial, TypeOK
    <2> QED BY <2>1, SessionAssumption DEF Owned
<1>8. ASSUME NEW d \in Conn, DisconnectSession(d) PROVE Owned(c)
    <2>1. /\ UNCHANGED <<stage, SerialNumbers_, moving>>
          /\ Sessions_' \subseteq Sessions_
          /\ disconnecting'[c] # "no" => disconnecting[c] # "no"
        BY <1>8 DEF DisconnectSession, TypeOK
    <2> QED BY <2>1 DEF Owned
<1>9. ASSUME NEW d \in Conn, DisconnectReturn(d) PROVE Owned(c)
    <2>1. /\ UNCHANGED <<stage, Sessions_, SerialNumbers_, moving>>
          /\ disconnecting'[c] # "no" => disconnecting[c] # "no"
        BY <1>9 DEF DisconnectReturn, TypeOK
    <2> QED BY <2>1 DEF Owned
<1> QED BY <1>1, <1>2, <1>3, <1>4, <1>5, <1>6, <1>7, <1>8, <1>9, PointerSteps

(* The destructor runs only when the last pointer is gone. *)
LEMMA DropUnowned ==
    ASSUME NEW c, NEW self, Drop(c, self)
    PROVE  \A d \in gone' : d \in gone \/ ~Owned(d)'
<1>1. CASE Owned(c)'
    BY <1>1 DEF Drop, deathVars
<1>2. CASE ~Owned(c)'
    <2>1. gone' = gone \cup {c}
        BY <1>2 DEF Drop, Destroy
    <2> QED BY <1>2, <2>1
<1> QED BY <1>1, <1>2

LEMMA GoneStep ==
    ASSUME TypeOK, Places, GoneUnowned, [Next]_vars
    PROVE  GoneUnowned'
<1> USE DEF ownerVars, deathVars
<1>1. \A c \in gone' : c \in gone \/ ~Owned(c)'
    <2>1. CASE UNCHANGED gone
        BY <2>1
    <2>2. ASSUME NEW c \in Conn, HandleRequest(c)
          PROVE  \A d \in gone' : d \in gone \/ ~Owned(d)'
        <3>1. CASE StartConnection(c)
            <4>1. Drop(c, NoConn)
                BY <3>1 DEF StartConnection
            <4> QED BY <4>1, DropUnowned
        <3>2. CASE ~StartConnection(c)
            BY <2>2, <3>2 DEF HandleRequest, CountSession, CreateConnection,
               AddConnection
        <3> QED BY <3>1, <3>2
    <2>3. ASSUME NEW c \in Conn, StartSessionTake(c) \/ StartSessionRegister(c)
          PROVE  \A d \in gone' : d \in gone \/ ~Owned(d)'
        <3>1. UNCHANGED gone \/ \E old \in Conn : Drop(old, c)
            BY <2>3 DEF StartSessionTake, StartSessionRegister
        <3> QED BY <3>1, DropUnowned
    <2>4. CASE EndSessionFirst \/ EndSessionSecond
        <3>1. UNCHANGED gone \/ \E old \in Conn : Drop(old, NoConn)
            BY <2>4 DEF EndSessionFirst, EndSessionSecond, TypeOK
        <3> QED BY <3>1, DropUnowned
    <2>5. ASSUME NEW s \in Serial, DisconnectSerial(s) PROVE UNCHANGED gone
        BY <2>5 DEF DisconnectSerial
    <2>6. ASSUME NEW c \in Conn, DisconnectSession(c) \/ DisconnectReturn(c)
          PROVE  \A d \in gone' : d \in gone \/ ~Owned(d)'
        <3>1. UNCHANGED gone \/ \E old \in Conn : Drop(old, NoConn)
            BY <2>6 DEF DisconnectSession, DisconnectReturn, TypeOK
        <3> QED BY <3>1, DropUnowned
    <2> QED BY <2>1, <2>2, <2>3, <2>4, <2>5, <2>6, PointerSteps
<1>2. \A c \in gone : Built(c) /\ c \in Conn
    BY DEF Places, TypeOK
<1> SUFFICES ASSUME NEW c \in gone' PROVE ~Owned(c)'
    BY DEF GoneUnowned
<1> QED BY <1>1, <1>2, OwnedBefore DEF GoneUnowned

LEMMA HoldingsInit == Init => Holdings
BY SessionAssumption DEF Init, Holdings, Apart, GoneUnowned, Filed, Moved

(* AP_WS_Server destroys no connection that is still in a map or in a      *)
(* local pointer, and no connection is in both maps, or twice in one:      *)
(* StartSession, EndSession and Disconnect may interleave as they like,    *)
(* session ids given out twice included.                                   *)
THEOREM NoPointerDangles == Spec => []NoDanglingPointer
<1> DEFINE Inv == TypeOK /\ Places /\ Holdings
<1>1. Init => Inv
    BY TypeInit, HoldingsInit DEF Init, Places
<1>2. Inv /\ [Next]_vars => Inv'
    BY TypeStep, PlacesStep, ApartStep, GoneStep DEF Holdings
<1>3. Inv => NoDanglingPointer
    BY SessionAssumption DEF Holdings, Apart, GoneUnowned, Filed, NoDanglingPointer
<1> QED BY <1>1, <1>2, <1>3, PTL DEF Spec

-----------------------------------------------------------------------------
(* What is registered under a serial number. *)

(* What the handler of a connect message works with. *)
Registering ==
    /\ \A c \in Conn : handler[c] # "none" => DeviceValidated_[c]
    /\ \A c \in Conn : handler[c] = "register" => moving[c] # NoConn
    /\ \A c \in Conn : moving[c] # NoConn =>
                         handler[c] = "register" /\ sessionId[moving[c]] = sessionId[c]
    /\ \A c \in Conn : Connected[c] => stage[c] = "open"

(* As long as nobody decided to end it, a connection with an id of its own *)
(* is somewhere, and under a serial number once StartSession has returned. *)
InPlace ==
    \A c \in Conn : OwnSession(c) /\ c \notin doomed =>
        /\ stage[c] = "open" => c \in Sessions_ \/ moving[c] = c \/ Filed(c)
        /\ Connected[c] \/ handler[c] = "provision" => Filed(c)

Validated == \A c \in Conn : OwnSession(c) /\ Filed(c) => DeviceValidated_[c]

(* The destructor waits for the handler. *)
HandlerAlive == \A c \in Conn : OwnSession(c) /\ handler[c] # "none" => ~Dead_[c]

RInv == IInv /\ Holdings /\ Registering /\ InPlace /\ Validated /\ HandlerAlive

(* Only the connection's own handler moves a connection with its own id.   *)
LEMMA OwnMoves ==
    ASSUME TypeOK, Places, Registering, NEW c \in Conn, OwnSession(c),
           NEW d \in Conn, moving[d] = c
    PROVE  d = c
<1>1. moving[d] # NoConn
    BY SessionAssumption
<1>2. Built(d) /\ sessionId[c] = sessionId[d]
    BY <1>1 DEF Registering, Places, Built
<1> QED BY <1>2 DEF OwnSession

LEMMA RegisteringStep ==
    ASSUME TypeOK, Places, Registering, [Next]_vars
    PROVE  Registering'
<1> USE DEF ownerVars, deathVars, cleanupVars, deviceVars, idVars
<1>1. \A c \in Conn : Built(c) => sessionId'[c] = sessionId[c]
    BY Grows
<1>2. \A c \in Conn : handler[c] # "none" => stage[c] = "open"
    BY DEF Places
<1>3. ASSUME NEW c \in Conn, HandleRequest(c) PROVE Registering'
    <2>1. UNCHANGED <<handler, DeviceValidated_, moving, Connected>>
        BY <1>3 DEF HandleRequest, CountSession, CreateConnection, AddConnection,
           StartConnection
    <2>2. \A d \in Conn : stage[d] = "open" => stage'[d] = "open"
        BY <1>3 DEF HandleRequest, CountSession, CreateConnection, AddConnection,
           StartConnection, TypeOK
    <2>3. \A d \in Conn : moving[d] # NoConn =>
                             sessionId'[moving[d]] = sessionId'[d]
        <3> SUFFICES ASSUME NEW d \in Conn, moving[d] # NoConn
                     PROVE  sessionId'[moving[d]] = sessionId'[d]
            OBVIOUS
        <3>1. moving[d] \in Conn /\ Built(moving[d]) /\ Built(d)
            BY <1>2 DEF TypeOK, Places, Registering, Built
        <3> QED BY <1>1, <3>1 DEF Registering
    <2> QED BY <2>1, <2>2, <2>3 DEF Registering
<1>4. ASSUME NEW c \in Conn, StartSessionTake(c) PROVE Registering'
    <2>1. /\ UNCHANGED <<stage, DeviceValidated_, Connected, sessionId>>
          /\ handler[c] = "connect" /\ DeviceValidated_[c]
          /\ moving[c] = NoConn
        BY <1>4 DEF StartSessionTake, Registering
    <2>2. CASE /\ handler' = [handler EXCEPT ![c] = "provision"]
               /\ UNCHANGED moving
        BY <2>1, <2>2 DEF Registering, TypeOK
    <2>3. ASSUME NEW m \in Sessions_, sessionId[m] = sessionId[c],
                 moving' = [moving EXCEPT ![c] = m],
                 handler' = [handler EXCEPT ![c] = "register"]
          PROVE  Registering'
        <3>1. m # NoConn
            BY SessionAssumption DEF TypeOK
        <3> QED BY <2>1, <2>3, <3>1 DEF Registering, TypeOK
    <2> QED BY <1>4, <2>2, <2>3 DEF StartSessionTake
<1>5. ASSUME NEW c \in Conn, StartSessionRegister(c) PROVE Registering'
    BY <1>5 DEF StartSessionRegister, Registering, TypeOK
<1>6. ASSUME NEW c \in Conn, Handler(c), ~StartSessionTake(c),
             ~StartSessionRegister(c)
      PROVE  Registering'
    <2>1. UNCHANGED <<stage, moving, sessionId>>
        BY <1>6 DEF Handler, OnSocketGone, ValidateDevice, RejectDevice, KillFrame,
           ConnectFrame, ConnectStep, ProvisionOK, ProvisionMustUpgrade,
           ProvisionRefused
    <2>2. \A d \in Conn : DeviceValidated_[d] => DeviceValidated_'[d]
        BY <1>6 DEF Handler, OnSocketGone, ValidateDevice, RejectDevice, KillFrame,
           ConnectFrame, ConnectStep, ProvisionOK, ProvisionMustUpgrade,
           ProvisionRefused, TypeOK
    <2>3. \A d \in Conn : /\ handler'[d] \in {"none", "connect"} \/ handler'[d] = handler[d]
                          /\ handler[d] = "register" => handler'[d] = "register"
        BY <1>6 DEF Handler, OnSocketGone, ValidateDevice, RejectDevice, KillFrame,
           ConnectFrame, Readable, CanHandle, ConnectStep, ProvisionOK,
           ProvisionMustUpgrade, ProvisionRefused, TypeOK
    <2>4. \A d \in Conn : handler'[d] = "connect" =>
                             handler[d] = "connect" \/ DeviceValidated_[d]
        BY <1>6 DEF Handler, OnSocketGone, ValidateDevice, RejectDevice, KillFrame,
           ConnectFrame, AcceptsFrames, ConnectStep, ProvisionOK,
           ProvisionMustUpgrade, ProvisionRefused, TypeOK
    <2>5. \A d \in Conn : Connected'[d] => Connected[d] \/ stage[d] = "open"
        BY <1>2, <1>6 DEF Handler, OnSocketGone, ValidateDevice, RejectDevice,
           KillFrame, ConnectFrame, ConnectStep, ProvisionOK,
           ProvisionMustUpgrade, ProvisionRefused, TypeOK
    <2> QED BY <2>1, <2>2, <2>3, <2>4, <2>5 DEF Registering
<1>7. CASE Cleanup \/ GarbageCollector \/ Disconnect \/ UNCHANGED vars
    <2>1. UNCHANGED <<stage, handler, DeviceValidated_, moving, Connected, sessionId>>
        BY <1>7 DEF Cleanup, TakeCleanup, EndSessionFirst, EndSessionSecond,
           GarbageCollector, CollectSerial, CollectSession, Collect, Disconnect,
           DisconnectSerial, DisconnectSession, DisconnectReturn, vars
    <2> QED BY <2>1 DEF Registering
<1> QED BY <1>3, <1>4, <1>5, <1>6, <1>7 DEF Next

(* A connection that nobody wants to end keeps its place in Sessions_ or   *)
(* is moved.                                                               *)
LEMMA SessionStays ==
    ASSUME RInv, [Next]_vars, NEW c \in Conn, OwnSession(c), c \notin doomed,
           c \in Sessions_
    PROVE  c \in Sessions_' \/ moving'[c] = c
<1> USE DEF ownerVars
<1>1. TypeOK /\ Places
    BY DEF RInv, IInv
<1>2. Built(c) /\ ~Justified(sessionId[c])
    BY <1>1, Only DEF Places, RInv, IInv
<1>3. CASE UNCHANGED ownerVars
    BY <1>3
<1>4. ASSUME NEW d \in Conn, HandleRequest(d) PROVE c \in Sessions_'
    BY <1>4 DEF HandleRequest, CountSession, CreateConnection, AddConnection,
       StartConnection
<1>5. ASSUME NEW d \in Conn, StartSessionTake(d)
      PROVE  c \in Sessions_' \/ moving'[c] = c
    <2>1. CASE UNCHANGED Sessions_
        BY <2>1
    <2>2. ASSUME NEW m \in Sessions_, sessionId[m] = sessionId[d],
                 Sessions_' = Sessions_ \ {m}, moving' = [moving EXCEPT ![d] = m]
          PROVE  c \in Sessions_' \/ moving'[c] = c
        <3>1. Built(d)
            BY <1>1, <1>5 DEF StartSessionTake, Places, Built
        <3>2. m = c => d = c
            BY <2>2, <3>1 DEF OwnSession
        <3> QED BY <1>1, <2>2, <3>2 DEF TypeOK
    <2> QED BY <1>5, <2>1, <2>2 DEF StartSessionTake, SessionsWithout
<1>6. ASSUME NEW d \in Conn, StartSessionRegister(d) PROVE c \in Sessions_'
    BY <1>6 DEF StartSessionRegister
<1>7. CASE EndSessionFirst
    <2>1. Justified(cleanup.session)
        BY <1>7 DEF EndSessionFirst, RInv, IInv, EntriesJustified
    <2>2. cleanup.session # sessionId[c]
        BY <1>2, <2>1
    <2> QED BY <1>7, <2>2 DEF EndSessionFirst
<1>8. CASE EndSessionSecond
    BY <1>8 DEF EndSessionSecond
<1>9. ASSUME NEW s \in Serial, DisconnectSerial(s) PROVE c \in Sessions_'
    BY <1>9 DEF DisconnectSerial
<1>10. ASSUME NEW d \in Conn, DisconnectSession(d) PROVE c \in Sessions_'
    <2>1. Built(d) /\ d \in doomed
        BY <1>1, <1>10 DEF DisconnectSession, Places
    <2>2. sessionId[d] # sessionId[c]
        BY <2>1 DEF OwnSession
    <2> QED BY <1>10, <2>2 DEF DisconnectSession
<1>11. ASSUME NEW d \in Conn, DisconnectReturn(d) PROVE c \in Sessions_'
    BY <1>11 DEF DisconnectReturn
<1> QED BY <1>3, <1>4, <1>5, <1>6, <1>7, <1>8, <1>9, <1>10, <1>11, PointerSteps

(* Its StartSession puts it where it belongs. *)
LEMMA MoveArrives ==
    ASSUME RInv, [Next]_vars, NEW c \in Conn, moving[c] = c
    PROVE  moving'[c] = c \/ Filed(c)'
<1> USE DEF ownerVars
<1>1. /\ TypeOK /\ Places /\ handler[c] = "register"
    BY SessionAssumption DEF RInv, IInv, Registering
<1>2. CASE UNCHANGED moving
    BY <1>2
<1>3. ASSUME NEW d \in Conn, StartSessionTake(d) PROVE moving'[c] = c
    BY <1>1, <1>3 DEF StartSessionTake, TypeOK
<1>4. ASSUME NEW d \in Conn, StartSessionRegister(d)
      PROVE  moving'[c] = c \/ Filed(c)'
    <2>1. /\ SerialNumbers_' = [SerialNumbers_ EXCEPT ![serial[d]] = moving[d]]
          /\ moving' = [moving EXCEPT ![d] = NoConn]
          /\ serial[d] \in Serial
        BY <1>1, <1>4 DEF StartSessionRegister, Registered, Places
    <2>2. CASE d = c
        <3>1. SerialNumbers_'[serial[d]] = c
            BY <1>1, <2>1, <2>2 DEF TypeOK
        <3> QED BY <2>1, <3>1 DEF Filed
    <2>3. CASE d # c
        BY <1>1, <2>1, <2>3 DEF TypeOK
    <2> QED BY <2>2, <2>3
<1>5. ASSUME NEW d \in Conn, HandleRequest(d) PROVE UNCHANGED moving
    BY <1>5 DEF HandleRequest, CountSession, CreateConnection, AddConnection,
       StartConnection
<1>6. CASE \/ EndSessionFirst \/ EndSessionSecond
           \/ \E s \in Serial : DisconnectSerial(s)
           \/ \E d \in Conn : DisconnectSession(d) \/ DisconnectReturn(d)
    BY <1>2, <1>6 DEF EndSessionFirst, EndSessionSecond, DisconnectSerial,
       DisconnectSession, DisconnectReturn
<1> QED BY <1>2, <1>3, <1>4, <1>5, <1>6, PointerSteps

(* Its place under a serial number is only taken by who wants it to end.   *)
LEMMA FiledStays ==
    ASSUME RInv, [Next]_vars, NEW c \in Conn, OwnSession(c), c \notin doomed',
           Filed(c)
    PROVE  Filed(c)'
<1> USE DEF ownerVars
<1>1. TypeOK /\ Places /\ c \notin doomed
    BY Grows DEF RInv, IInv
<1>2. PICK t \in Serial : SerialNumbers_[t] = c
    BY DEF Filed
<1>3. ~Justified(sessionId[c])
    BY <1>1, Only DEF RInv, IInv
<1> SUFFICES SerialNumbers_'[t] = c
    BY DEF Filed
<1>4. CASE UNCHANGED SerialNumbers_
    BY <1>2, <1>4
<1>5. ASSUME NEW d \in Conn, StartSessionRegister(d) PROVE SerialNumbers_'[t] = c
    <2>1. /\ SerialNumbers_' = [SerialNumbers_ EXCEPT ![serial[d]] = moving[d]]
          /\ serial[d] \in Serial
        BY <1>1, <1>5 DEF StartSessionRegister, Registered, Places
    <2>2. SerialNumbers_[serial[d]] # c
        BY <1>5, SessionAssumption DEF StartSessionRegister
    <2> QED BY <1>1, <1>2, <2>1, <2>2 DEF TypeOK
<1>6. CASE EndSessionSecond
    <2>1. Justified(cleanup.session)
        BY <1>6 DEF EndSessionSecond, RInv, IInv, EntriesJustified
    <2>2. cleanup.session # sessionId[c]
        BY <1>3, <2>1
    <2> QED BY <1>1, <1>2, <1>6, <2>2 DEF EndSessionSecond, SameSession, TypeOK
<1>7. ASSUME NEW s \in Serial, DisconnectSerial(s) PROVE SerialNumbers_'[t] = c
    BY <1>1, <1>2, <1>7 DEF DisconnectSerial, TypeOK
<1>8. ASSUME NEW d \in Conn, HandleRequest(d) PROVE UNCHANGED SerialNumbers_
    BY <1>8 DEF HandleRequest, CountSession, CreateConnection, AddConnection,
       StartConnection
<1>9. CASE \/ EndSessionFirst
           \/ \E d \in Conn : \/ StartSessionTake(d)
                               \/ DisconnectSession(d) \/ DisconnectReturn(d)
    BY <1>4, <1>9 DEF EndSessionFirst, StartSessionTake, DisconnectSession,
       DisconnectReturn
<1> QED BY <1>4, <1>5, <1>6, <1>7, <1>8, <1>9, PointerSteps

(* How a handler comes to the provisioning, and a device to its Connected. *)
LEMMA ConnectedBy ==
    ASSUME TypeOK, [Next]_vars, NEW c \in Conn, c \notin doomed',
           Connected'[c] \/ handler'[c] = "provision"
    PROVE  \/ Connected[c] \/ handler[c] = "provision"
           \/ StartSessionTake(c) /\ handler'[c] = "provision"
           \/ StartSessionRegister(c)
<1> USE DEF ownerVars, deathVars, cleanupVars, deviceVars, idVars
<1>1. ASSUME NEW d \in Conn, Handler(d), ~StartSessionTake(d),
             ~StartSessionRegister(d)
      PROVE  Connected[c] \/ handler[c] = "provision"
    BY <1>1 DEF Handler, OnSocketGone, ValidateDevice, RejectDevice, KillFrame,
       ConnectFrame, ConnectStep, ProvisionOK, ProvisionMustUpgrade,
       ProvisionRefused, TypeOK
<1>2. ASSUME NEW d \in Conn, d # c, StartSessionTake(d) \/ StartSessionRegister(d)
      PROVE  Connected[c] \/ handler[c] = "provision"
    BY <1>2 DEF StartSessionTake, StartSessionRegister, TypeOK
<1>3. CASE StartSessionTake(c)
    BY <1>3 DEF StartSessionTake
<1>4. ASSUME NEW d \in Conn, HandleRequest(d) PROVE UNCHANGED <<handler, Connected>>
    BY <1>4 DEF HandleRequest, CountSession, CreateConnection, AddConnection,
       StartConnection
<1>5. CASE Cleanup \/ GarbageCollector \/ Disconnect \/ UNCHANGED vars
    BY <1>5 DEF Cleanup, TakeCleanup, EndSessionFirst, EndSessionSecond,
       GarbageCollector, CollectSerial, CollectSession, Collect, Disconnect,
       DisconnectSerial, DisconnectSession, DisconnectReturn, vars
<1> QED BY <1>1, <1>2, <1>3, <1>4, <1>5 DEF Next

LEMMA InPlaceStep ==
    ASSUME RInv, [Next]_vars
    PROVE  InPlace'
<1> USE DEF ownerVars
<1> SUFFICES ASSUME NEW c \in Conn, OwnSession(c)', c \notin doomed'
             PROVE  /\ stage'[c] = "open" =>
                         c \in Sessions_' \/ moving'[c] = c \/ Filed(c)'
                    /\ Connected'[c] \/ handler'[c] = "provision" => Filed(c)'
    BY DEF InPlace, Filed
<1>1. TypeOK /\ Places /\ Registering /\ InPlace
    BY DEF RInv, IInv
<1>2. c \notin doomed /\ (Built(c) => OwnSession(c))
    BY <1>1, Grows, OwnBefore
<1>3. ASSUME stage'[c] = "open"
      PROVE  c \in Sessions_' \/ moving'[c] = c \/ Filed(c)'
    <2>1. stage[c] = "open" \/ StartConnection(c)
        <3>1. CASE UNCHANGED stage
            BY <1>3, <3>1
        <3>2. ASSUME NEW d \in Conn, HandleRequest(d)
              PROVE  stage[c] = "open" \/ StartConnection(c)
            BY <1>1, <1>3, <3>2 DEF HandleRequest, CountSession, CreateConnection,
               AddConnection, StartConnection, TypeOK
        <3>3. CASE \/ EndSessionFirst \/ EndSessionSecond
                   \/ \E s \in Serial : DisconnectSerial(s)
                   \/ \E d \in Conn : \/ StartSessionTake(d)
                                       \/ StartSessionRegister(d)
                                       \/ DisconnectSession(d)
                                       \/ DisconnectReturn(d)
            BY <3>1, <3>3 DEF EndSessionFirst, EndSessionSecond, DisconnectSerial,
               StartSessionTake, StartSessionRegister, DisconnectSession,
               DisconnectReturn
        <3> QED BY <3>1, <3>2, <3>3, PointerSteps
    <2>2. CASE StartConnection(c)
        <3>1. stage[c] = "added" /\ UNCHANGED Sessions_
            BY <2>2 DEF StartConnection
        <3> QED BY <1>2, <3>1 DEF RInv, IInv, AddedIsFiled, Built
    <2>3. CASE stage[c] = "open"
        <3>1. OwnSession(c)
            BY <1>2, <2>3 DEF Built
        <3>2. c \in Sessions_ \/ moving[c] = c \/ Filed(c)
            BY <1>1, <1>2, <2>3, <3>1 DEF InPlace
        <3> QED BY <1>2, <3>1, <3>2, SessionStays, MoveArrives, FiledStays
    <2> QED BY <2>1, <2>2, <2>3
<1>4. ASSUME Connected'[c] \/ handler'[c] = "provision"
      PROVE  Filed(c)'
    <2>1. CASE Connected[c] \/ handler[c] = "provision"
        <3>1. OwnSession(c)
            BY <1>1, <1>2, <2>1 DEF Registering, Places, Built
        <3>2. Filed(c)
            BY <1>1, <1>2, <2>1, <3>1 DEF InPlace
        <3> QED BY <3>1, <3>2, FiledStays
    <2>2. CASE StartSessionTake(c) /\ handler'[c] = "provision"
        <3>1. /\ handler[c] = "connect" /\ UNCHANGED SerialNumbers_
              /\ \A m \in Sessions_ : sessionId[m] # sessionId[c]
            BY <1>1, <2>2 DEF StartSessionTake, TypeOK
        <3>2. stage[c] = "open" /\ OwnSession(c)
            BY <1>1, <1>2, <3>1 DEF Places, Built
        <3>3. c \notin Sessions_ /\ moving[c] # c
            BY <1>1, <3>1, SessionAssumption DEF Registering
        <3>4. Filed(c)
            BY <1>1, <1>2, <3>2, <3>3 DEF InPlace
        <3> QED BY <3>1, <3>4 DEF Filed
    <2>3. CASE StartSessionRegister(c)
        <3>1. handler[c] = "register" /\ moving'[c] = NoConn
            BY <1>1, <2>3 DEF StartSessionRegister, TypeOK
        <3>2. OwnSession(c) /\ moving[c] \in Conn /\ Built(moving[c])
              /\ sessionId[moving[c]] = sessionId[c]
            BY <1>1, <1>2, <3>1 DEF Places, Registering, Built, TypeOK
        <3>3. moving[c] = c
            BY <3>2 DEF OwnSession
        <3> QED BY <3>1, <3>3, MoveArrives, SessionAssumption
    <2> QED BY <1>1, <1>4, <2>1, <2>2, <2>3, ConnectedBy
<1> QED BY <1>3, <1>4

(* What StartSession registers has gone through ValidatedDevice. *)
LEMMA ValidatedStep ==
    ASSUME RInv, [Next]_vars
    PROVE  Validated'
<1> USE DEF ownerVars, deathVars, cleanupVars, deviceVars, idVars
<1> SUFFICES ASSUME NEW c \in Conn, OwnSession(c)', Filed(c)'
             PROVE  DeviceValidated_'[c]
    BY DEF Validated
<1>1. TypeOK /\ Places /\ Registering /\ Validated
    BY DEF RInv, IInv
<1>2. Filed(c) \/ \E d \in Conn : moving[d] = c
    <2>1. CASE \A s \in Serial : SerialNumbers_'[s] \in {SerialNumbers_[s], NoConn}
        BY <2>1, SessionAssumption DEF Filed
    <2>2. CASE UNCHANGED SerialNumbers_
        BY <2>2 DEF Filed
    <2>3. ASSUME NEW d \in Conn, StartSessionRegister(d)
          PROVE  Filed(c) \/ moving[d] = c
        BY <1>1, <2>3 DEF StartSessionRegister, Registered, Filed, TypeOK
    <2>4. ASSUME NEW d \in Conn, HandleRequest(d) PROVE UNCHANGED SerialNumbers_
        BY <2>4 DEF HandleRequest, CountSession, CreateConnection, AddConnection,
           StartConnection
    <2>5. CASE EndSessionSecond \/ \E s \in Serial : DisconnectSerial(s)
        BY <1>1, <2>1, <2>5 DEF EndSessionSecond, DisconnectSerial, TypeOK
    <2>6. CASE \/ EndSessionFirst
               \/ \E d \in Conn : \/ StartSessionTake(d)
                                   \/ DisconnectSession(d) \/ DisconnectReturn(d)
        BY <2>2, <2>6 DEF EndSessionFirst, StartSessionTake, DisconnectSession,
           DisconnectReturn
    <2> QED BY <2>2, <2>3, <2>4, <2>5, <2>6, PointerSteps
<1>3. OwnSession(c)
    <2>1. Built(c)
        BY <1>1, <1>2, SessionAssumption DEF Places, Filed
    <2> QED BY <1>1, <2>1, OwnBefore
<1>4. DeviceValidated_[c]
    <2>1. CASE Filed(c)
        BY <1>1, <1>3, <2>1 DEF Validated
    <2>2. ASSUME NEW d \in Conn, moving[d] = c PROVE DeviceValidated_[c]
        BY <1>1, <1>3, <2>2, OwnMoves, SessionAssumption DEF Registering
    <2> QED BY <1>2, <2>1, <2>2
<1>5. DeviceValidated_[c] => DeviceValidated_'[c]
    <2>1. CASE UNCHANGED DeviceValidated_
        BY <2>1
    <2>2. ASSUME NEW d \in Conn, Handler(d)
          PROVE  DeviceValidated_[c] => DeviceValidated_'[c]
        BY <1>1, <2>2 DEF Handler, OnSocketGone, ValidateDevice, RejectDevice,
           KillFrame, ConnectFrame, ConnectStep, StartSessionTake,
           StartSessionRegister, ProvisionOK, ProvisionMustUpgrade,
           ProvisionRefused, TypeOK
    <2>3. ASSUME NEW d \in Conn, HandleRequest(d) PROVE UNCHANGED DeviceValidated_
        BY <2>3 DEF HandleRequest, CountSession, CreateConnection, AddConnection,
           StartConnection
    <2>4. CASE Cleanup \/ GarbageCollector \/ Disconnect \/ UNCHANGED vars
        BY <2>1, <2>4 DEF Cleanup, TakeCleanup, EndSessionFirst, EndSessionSecond,
           GarbageCollector, CollectSerial, CollectSession, Collect, Disconnect,
           DisconnectSerial, DisconnectSession, DisconnectReturn, vars
    <2> QED BY <2>1, <2>2, <2>3, <2>4 DEF Next
<1> QED BY <1>4, <1>5

-----------------------------------------------------------------------------
(* The order of the messages. *)

LEMMA DropDead ==
    ASSUME TypeOK, NEW d \in Conn, NEW self, Drop(d, self)
    PROVE  \A c \in Conn : Dead_'[c] /\ ~Dead_[c] =>
                c = d /\ (handler[c] = "none" \/ c = self)
<1>1. CASE Owned(d)'
    BY <1>1 DEF Drop, deathVars
<1>2. CASE ~Owned(d)'
    <2>1. EndConnection(d, serial[d]) /\ ConnectionMutexFree(d, self)
        BY <1>2 DEF Drop, Destroy
    <2> QED BY <2>1, EndOnce DEF ConnectionMutexFree
<1> QED BY <1>1, <1>2

(* A connection dies by the return of its own handler, between two of them *)
(* or when its own StartSession replaces it.                               *)
LEMMA DeadBy ==
    ASSUME TypeOK, [Next]_vars, NEW c \in Conn, Dead_'[c], ~Dead_[c],
           handler[c] # "none", handler'[c] # "none"
    PROVE  StartSessionRegister(c) /\ SerialNumbers_[serial[c]] = c
<1> USE DEF ownerVars, deathVars, cleanupVars, deviceVars, idVars
<1>1. ASSUME NEW d \in Conn, HandleRequest(d) PROVE FALSE
    <2>1. StartConnection(d)
        BY <1>1 DEF HandleRequest, CountSession, CreateConnection, AddConnection
    <2> QED BY <2>1, DropDead, SessionAssumption DEF StartConnection
<1>2. ASSUME NEW d \in Conn, NEW t \in Serial \cup {NoSerial},
             EndConnection(d, t), handler[d] = "none" \/ handler'[d] = "none"
      PROVE  FALSE
    BY <1>2, EndOnce
<1>3. ASSUME NEW d \in Conn, OnSocketGone(d) \/ KillFrame(d) PROVE FALSE
    BY <1>2, <1>3 DEF OnSocketGone, KillFrame, Readable, CanHandle, TypeOK
<1>4. ASSUME NEW d \in Conn, NEW s \in Serial \cup {NoSerial}, RejectDevice(d, s)
      PROVE  FALSE
    <2>1. serial'[d] \in Serial \cup {NoSerial} /\ EndConnection(d, serial'[d])
          /\ handler[d] = "none"
        BY <1>4 DEF RejectDevice, Readable, CanHandle, TypeOK
    <2> QED BY <1>2, <2>1
<1>5. ASSUME NEW d \in Conn, ProvisionRefused(d) PROVE FALSE
    <2>1. handler'[d] = "none"
        BY <1>5 DEF ProvisionRefused, TypeOK
    <2> QED BY <1>2, <1>5, <2>1 DEF ProvisionRefused, TypeOK
<1>6. ASSUME NEW d \in Conn, StartSessionRegister(d)
      PROVE  StartSessionRegister(c) /\ SerialNumbers_[serial[c]] = c
    <2>1. PICK old \in Conn : SerialNumbers_[serial[d]] = old /\ Drop(old, d)
        BY <1>6 DEF StartSessionRegister
    <2>2. c = old /\ c = d
        BY <2>1, DropDead
    <2> QED BY <1>6, <2>1, <2>2
<1>7. ASSUME NEW d \in Conn, Handler(d), ~StartSessionRegister(d) PROVE FALSE
    <2>1. CASE UNCHANGED Dead_
        BY <2>1
    <2> QED BY <1>3, <1>4, <1>5, <1>7, <2>1 DEF Handler, ConnectStep,
            ValidateDevice, ConnectFrame, StartSessionTake, ProvisionOK,
            ProvisionMustUpgrade
<1>8. CASE Cleanup \/ Disconnect
    <2>1. \E d \in Conn : Drop(d, NoConn)
        BY <1>8 DEF Cleanup, TakeCleanup, EndSessionFirst, EndSessionSecond,
           Disconnect, DisconnectSerial, DisconnectSession, DisconnectReturn, TypeOK
    <2> QED BY <2>1, DropDead, SessionAssumption
<1>9. CASE GarbageCollector \/ UNCHANGED vars
    BY <1>9 DEF GarbageCollector, CollectSerial, CollectSession, Collect, vars
<1> QED BY <1>1, <1>6, <1>7, <1>8, <1>9 DEF Next

LEMMA HandlerAliveStep ==
    ASSUME RInv, [Next]_vars
    PROVE  HandlerAlive'
<1> USE DEF ownerVars, deathVars, cleanupVars, deviceVars, idVars
<1> SUFFICES ASSUME NEW c \in Conn, OwnSession(c)', handler'[c] # "none"
             PROVE  ~Dead_'[c]
    BY DEF HandlerAlive
<1>1. TypeOK /\ Places /\ Registering /\ Apart /\ HandlerAlive
    BY DEF RInv, IInv, Holdings
<1>2. CASE handler[c] = "none"
    <2>1. \E s \in Serial : ConnectFrame(c, s)
        <3>1. ASSUME NEW d \in Conn, Handler(d)
              PROVE  \E s \in Serial : ConnectFrame(c, s)
            BY <1>1, <1>2, <3>1 DEF Handler, OnSocketGone, ValidateDevice,
               RejectDevice, KillFrame, ConnectFrame, ConnectStep,
               StartSessionTake, StartSessionRegister, ProvisionOK,
               ProvisionMustUpgrade, ProvisionRefused, TypeOK
        <3>2. CASE UNCHANGED handler
            BY <1>2, <3>2
        <3>3. ASSUME NEW d \in Conn, HandleRequest(d) PROVE UNCHANGED handler
            BY <3>3 DEF HandleRequest, CountSession, CreateConnection,
               AddConnection, StartConnection
        <3>4. CASE Cleanup \/ GarbageCollector \/ Disconnect \/ UNCHANGED vars
            BY <3>2, <3>4 DEF Cleanup, TakeCleanup, EndSessionFirst,
               EndSessionSecond, GarbageCollector, CollectSerial,
               CollectSession, Collect, Disconnect, DisconnectSerial,
               DisconnectSession, DisconnectReturn, vars
        <3> QED BY <3>1, <3>2, <3>3, <3>4 DEF Next
    <2> QED BY <2>1 DEF ConnectFrame, Readable
<1>3. CASE handler[c] # "none"
    <2>1. OwnSession(c) /\ ~Dead_[c]
        <3>1. Built(c)
            BY <1>1, <1>3 DEF Places, Built
        <3> QED BY <1>1, <1>3, <3>1, OwnBefore DEF HandlerAlive
    <2>2. ASSUME StartSessionRegister(c), SerialNumbers_[serial[c]] = c
          PROVE  FALSE
        <3>1. /\ serial[c] \in Serial /\ moving[c] \in Conn /\ Built(moving[c])
              /\ sessionId[moving[c]] = sessionId[c]
            BY <1>1, <2>2 DEF StartSessionRegister, Places, Registering, TypeOK
        <3>2. moving[c] = c
            BY <2>1, <3>1 DEF OwnSession
        <3> QED BY <1>1, <2>2, <3>1, <3>2 DEF Apart, Filed, Moved
    <2> QED BY <1>1, <1>3, <2>1, <2>2, DeadBy
<1> QED BY <1>2, <1>3

-----------------------------------------------------------------------------

LEMMA RInvInit == Init => RInv
<1> SUFFICES ASSUME Init PROVE RInv
    OBVIOUS
<1>1. IInv /\ Holdings
    BY InvariantInit, HoldingsInit
<1>2. Registering /\ InPlace /\ Validated /\ HandlerAlive
    BY SessionAssumption
    DEF Init, Registering, InPlace, Validated, HandlerAlive, Filed
<1> QED BY <1>1, <1>2 DEF RInv

LEMMA RInvStep == RInv /\ [Next]_vars => RInv'
<1> SUFFICES ASSUME RInv, [Next]_vars PROVE RInv'
    OBVIOUS
<1>1. TypeOK /\ Places /\ Apart /\ GoneUnowned /\ Registering /\ IInv
    BY DEF RInv, IInv, Holdings
<1>2. IInv'
    BY <1>1, InvariantStep
<1>3. Holdings'
    BY <1>1, ApartStep, GoneStep DEF Holdings
<1>4. Registering'
    BY <1>1, RegisteringStep
<1> QED BY <1>2, <1>3, <1>4, InPlaceStep, ValidatedStep, HandlerAliveStep DEF RInv

(* SerialNumbers_ can be relied on: a device that completed its connect is *)
(* found there until somebody decides to end its connection, and what is   *)
(* found there went through ValidatedDevice.                               *)
THEOREM RegistrationCanBeReliedOn == Spec => []RegistrationIsSound
<1>1. RInv => RegistrationIsSound
    BY DEF RInv, IInv, TypeOK, InPlace, Validated, Filed, RegistrationIsSound,
           ConnectedIsReachable, RegisteredIsValidated
<1> QED BY <1>1, RInvInit, RInvStep, PTL DEF Spec

(* The messages of a connection leave AP_WS_Connection in order: once its  *)
(* disconnection was posted, no handler of it is left that would announce  *)
(* it, because the destructor waits for ConnectionMutex_.                  *)
THEOREM DisconnectionIsLast == Spec => NoConnectAfterDisconnect
<1> DEFINE Inv == RInv /\ Reports
           Quiet == \A c \in Conn :
                      OwnSession(c) /\ retired[c] > 0 => announced'[c] = announced[c]
<1>1. Init => Inv
    BY RInvInit DEF Init, Reports
<1>2. Inv /\ [Next]_vars => Inv'
    BY RInvStep, ReportsStep DEF RInv, IInv
<1>3. Inv /\ [Next]_vars => [Quiet]_vars
    <2> SUFFICES ASSUME Inv, Next, NEW c \in Conn, OwnSession(c), retired[c] > 0
                 PROVE  announced'[c] = announced[c]
        OBVIOUS
    <2>1. TypeOK /\ Reports /\ HandlerAlive
        BY DEF RInv, IInv
    <2>2. handler[c] = "none"
        BY <2>1 DEF Reports, HandlerAlive
    <2>3. ASSUME NEW d \in Conn, Handler(d) PROVE announced'[c] = announced[c]
        BY <2>1, <2>2, <2>3 DEF Handler, OnSocketGone, ValidateDevice,
           RejectDevice, KillFrame, ConnectFrame, ConnectStep, StartSessionTake,
           StartSessionRegister, ProvisionOK, ProvisionMustUpgrade,
           ProvisionRefused, deviceVars, TypeOK
    <2>4. ASSUME NEW d \in Conn, HandleRequest(d) PROVE UNCHANGED announced
        BY <2>4 DEF HandleRequest, CountSession, CreateConnection, AddConnection,
           StartConnection, deviceVars
    <2>5. CASE Cleanup \/ GarbageCollector \/ Disconnect
        BY <2>5 DEF Cleanup, TakeCleanup, EndSessionFirst, EndSessionSecond,
           GarbageCollector, CollectSerial, CollectSession, Collect, Disconnect,
           DisconnectSerial, DisconnectSession, DisconnectReturn, deviceVars
    <2> QED BY <2>3, <2>4, <2>5 DEF Next
<1> QED BY <1>1, <1>2, <1>3, PTL DEF Spec, NoConnectAfterDisconnect
=============================================================================
