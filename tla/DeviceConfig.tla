---------------------------- MODULE DeviceConfig ----------------------------
(***************************************************************************)
(* The configuration of one device, as the gateway and the device see it:  *)
(* the device's record (storage_device), the cache of good configuration   *)
(* ids (ConfigurationCache), the configure and PUT calls of the REST API,  *)
(* the connect and state messages (LookForUpgrade) and the answers to      *)
(* configure commands that nobody waits for (CompleteConfigureCommand).    *)
(*                                                                         *)
(* Every operation reads the whole record, changes its copy and writes it  *)
(* back, on threads that share no lock.  The device exists, is no          *)
(* simulated one and no switch without a configuration.  What becomes of   *)
(* an RPC is CommandManager's subject: here a frame arrives, or is lost    *)
(* with its connection.                                                    *)
(***************************************************************************)
EXTENDS Integers, Sequences, FiniteSets

CONSTANTS
    Content,       \* configurations
    Initial,       \* the one in the record to begin with
    Foreign,       \* one that the gateway does not know
    Calls,         \* configure calls
    Wanted,        \* call -> its configuration
    Edits,         \* the configurations that PUT calls bring, or NoContent
    NoContent,
    MaxEdits,      \* bound: PUT calls
    MaxTime,       \* bound: the clock
    MaxUuid,       \* bound: configuration ids
    MaxDrops,      \* bound: lost connections
    MaxRejects,    \* bound: configurations that the device rejects
    MaxReports,    \* bound: messages waiting in a connection
    MaxTries       \* bound: frames that cannot be sent

ASSUME ConfigAssumption ==
    /\ {Initial, Foreign} \subseteq Content
    /\ NoContent \notin Content
    /\ Wanted \in [Calls -> Content]
    /\ Edits \subseteq Content \cup {NoContent}
    /\ {"handler", "manager", "put"} \cap Calls = {}
    /\ {MaxEdits, MaxTime, MaxUuid, MaxDrops, MaxRejects, MaxReports, MaxTries}
          \subseteq Nat
    \* room for the ids that Init and Configure choose
    /\ MaxTime > 3 /\ MaxUuid > MaxTime

VARIABLES
    now,           \* the clock
    rec,           \* the device's row of the Devices table
    Cache_,        \* its entry of ConfigurationCache, 0 for none
    queued,        \* the pending configure row of CommandList, or NoConfig
    link,          \* the connection: "down", "greeting", "up"
    PendingUUID,   \* State_.PendingUUID of the connection
    toDevice,      \* frames on their way to the device
    fromDevice,    \* frames on their way from the device
    ResponseQueue_,\* answers that the manager thread has not seen
    dev,           \* the configuration that the device runs
    at,            \* thread -> where it is
    copy,          \* thread -> its copy of the record
    seen,          \* the UUID in the message that the handler processes
    left           \* what is left of the bounds

vars == <<now, rec, Cache_, queued, link, PendingUUID, toDevice, fromDevice,
          ResponseQueue_, dev, at, copy, seen, left>>

Thread == Calls \cup {"handler", "manager", "put"}

Uuid     == 0..MaxUuid
Config   == [content : Content, uuid : Uuid]
NoConfig == [content |-> NoContent, uuid |-> 0]
Device   == [UUID : Uuid, Configuration : Config, pendingUUID : Uuid,
             pendingConfiguration : Config \cup {NoConfig},
             LastConfigurationChange : 0..MaxTime]

NoDevice == [UUID |-> 0, Configuration |-> NoConfig, pendingUUID |-> 0,
             pendingConfiguration |-> NoConfig, LastConfigurationChange |-> 0]

(* A device that is broken has a UUID of 0; one may come from another      *)
(* controller, with an older or a newer configuration.                     *)
Init ==
    /\ now = 4
    /\ rec \in [UUID : {0, 2}, Configuration : {[content |-> Initial, uuid |-> 2]},
                pendingUUID : {0}, pendingConfiguration : {NoConfig},
                LastConfigurationChange : {2}]
    /\ Cache_ = 0
    /\ queued = NoConfig
    /\ link = "down"
    /\ PendingUUID = 0
    /\ toDevice = <<>> /\ fromDevice = <<>> /\ ResponseQueue_ = <<>>
    /\ dev \in {[content |-> Initial, uuid |-> 2], [content |-> Foreign, uuid |-> 1],
                [content |-> Foreign, uuid |-> 3]}
    /\ at = [t \in Thread |-> "idle"]
    /\ copy = [t \in Thread |-> NoDevice]
    /\ seen = 0
    /\ left = [drops |-> MaxDrops, rejects |-> MaxRejects, edits |-> MaxEdits,
               tries |-> MaxTries]

Goto(t, l)  == at' = [at EXCEPT ![t] = l]
Keep(t, D)  == copy' = [copy EXCEPT ![t] = D]
Message(k, n)  == [kind |-> k, to |-> "handler", uuid |-> n]
Frame(t, c)    == [to |-> t, config |-> c]

(* A handler that has processed a connect message leaves its device        *)
(* connected.                                                              *)
HandlerDone ==
    /\ Goto("handler", "idle")
    /\ Keep("handler", NoDevice)
    /\ seen' = 0
    /\ link' = IF link = "greeting" THEN "up" ELSE link

(* Where a thread goes when it has written the record. *)
Return(t) ==
    IF t = "handler" THEN HandlerDone
    ELSE /\ Goto(t, IF t = "manager" THEN "idle" ELSE "done")
         /\ Keep(t, NoDevice)
         /\ UNCHANGED <<link, seen>>

-----------------------------------------------------------------------------
(* Complete- and RollbackDeviceConfigurationChange, for every thread: read *)
(* the record, set the cache, write the record.                            *)

Repaired(D) == IF D.UUID = 0 THEN [D EXCEPT !.UUID = D.Configuration.uuid] ELSE D

CompletedMutant(D) ==
    [D EXCEPT !.UUID = D.pendingUUID, !.Configuration = D.pendingConfiguration,
              !.pendingUUID = 0, !.pendingConfiguration = NoConfig]
Completed(D) ==
    Repaired([UUID |-> IF D.pendingUUID # 0 THEN D.pendingUUID ELSE D.UUID,
              Configuration |-> IF D.pendingConfiguration # NoConfig
                                THEN D.pendingConfiguration ELSE D.Configuration,
              pendingUUID |-> 0,
              pendingConfiguration |-> NoConfig,
              LastConfigurationChange |-> now])

RolledBack(D) ==
    [D EXCEPT !.pendingUUID = 0, !.pendingConfiguration = NoConfig,
              !.LastConfigurationChange = now]

Change(t) ==
    /\ \/ at[t] = "complete" /\ Keep(t, Completed(rec)) /\ Goto(t, "promote")
       \/ at[t] = "rollback" /\ Keep(t, RolledBack(rec)) /\ Goto(t, "restore")
    /\ UNCHANGED <<now, rec, Cache_, queued, link, PendingUUID, toDevice,
                   fromDevice, ResponseQueue_, dev, seen, left>>

SetCurrentConfig(t) ==
    /\ at[t] \in {"promote", "restore"}
    /\ Cache_' = copy[t].UUID
    /\ Goto(t, IF at[t] = "promote" THEN "promoting" ELSE "restoring")
    /\ UNCHANGED <<now, rec, queued, link, PendingUUID, toDevice, fromDevice,
                   ResponseQueue_, dev, copy, seen, left>>

WriteChange(t) ==
    /\ at[t] \in {"promoting", "restoring"}
    /\ rec' = copy[t]
    /\ Return(t)
    /\ UNCHANGED <<now, Cache_, queued, PendingUUID, toDevice, fromDevice,
                   ResponseQueue_, dev, left>>

-----------------------------------------------------------------------------
(* The configure call. *)

(* DoPost refuses a second command while one is outstanding. *)
Busy ==
    \/ \E c \in Calls : at[c] = "wait"
    \/ \E i \in 1..Len(toDevice) : toDevice[i].to = "manager"
    \/ \E i \in 1..Len(fromDevice) : fromDevice[i].to = "manager"
    \/ ResponseQueue_ # <<>>

(* SetPendingDeviceConfiguration reads the record ... *)
Configure(c) ==
    /\ at[c] = "idle"
    /\ ~Busy
    /\ LET NewUUID == IF rec.LastConfigurationChange = now THEN now + 1 ELSE now
       IN  Keep(c, [rec EXCEPT !.pendingUUID = NewUUID,
                               !.pendingConfiguration = [content |-> Wanted[c],
                                                         uuid |-> NewUUID]])
    /\ Goto(c, "pending")
    /\ UNCHANGED <<now, rec, Cache_, queued, link, PendingUUID, toDevice,
                   fromDevice, ResponseQueue_, dev, seen, left>>

(* ... and writes it. *)
SetPending(c) ==
    /\ at[c] = "pending"
    /\ rec' = copy[c]
    /\ Goto(c, "post")
    /\ UNCHANGED <<now, Cache_, queued, link, PendingUUID, toDevice, fromDevice,
                   ResponseQueue_, dev, copy, seen, left>>

(* WaitForCommand.  A command that is not sent replaces the one that waits *)
(* in the table.                                                           *)
Post(c) ==
    /\ at[c] = "post"
    /\ \/ /\ link = "up"
          /\ toDevice' = Append(toDevice, Frame(c, copy[c].pendingConfiguration))
          /\ Goto(c, "wait")
          /\ UNCHANGED <<queued, left>>
       \/ /\ \/ link # "up" /\ UNCHANGED left
             \/ link = "up" /\ left.tries > 0 /\ left' = [left EXCEPT !.tries = @ - 1]
          /\ queued' = copy[c].pendingConfiguration
          /\ Goto(c, "done")
          /\ UNCHANGED toDevice
    /\ Keep(c, NoDevice)
    /\ UNCHANGED <<now, rec, Cache_, link, PendingUUID, fromDevice,
                   ResponseQueue_, dev, seen>>

(* No answer in time: the change is completed all the same. *)
TimeOut(c) ==
    /\ at[c] = "wait"
    /\ queued' = NoConfig
    /\ Goto(c, "complete")
    /\ UNCHANGED <<now, rec, Cache_, link, PendingUUID, toDevice, fromDevice,
                   ResponseQueue_, dev, copy, seen, left>>

-----------------------------------------------------------------------------
(* PUT /device/{serialNumber}, with or without a configuration. *)

Put(e) ==
    /\ at["put"] = "idle"
    /\ left.edits > 0
    /\ left' = [left EXCEPT !.edits = @ - 1]
    /\ Keep("put", IF e = NoContent
                   THEN [rec EXCEPT !.LastConfigurationChange = now]
                   ELSE [rec EXCEPT !.UUID = now,
                                    !.Configuration = [content |-> e, uuid |-> now],
                                    !.LastConfigurationChange = now])
    /\ Goto("put", IF e = NoContent THEN "annotate" ELSE "replace")
    /\ UNCHANGED <<now, rec, Cache_, queued, link, PendingUUID, toDevice,
                   fromDevice, ResponseQueue_, dev, seen>>

PutWrite ==
    /\ at["put"] \in {"annotate", "replace"}
    /\ rec' = copy["put"]
    /\ Goto("put", "cache")
    /\ UNCHANGED <<now, Cache_, queued, link, PendingUUID, toDevice, fromDevice,
                   ResponseQueue_, dev, copy, seen, left>>

PutCache ==
    /\ at["put"] = "cache"
    /\ Cache_' = copy["put"].UUID
    /\ Goto("put", "idle")
    /\ Keep("put", NoDevice)
    /\ UNCHANGED <<now, rec, queued, link, PendingUUID, toDevice, fromDevice,
                   ResponseQueue_, dev, seen, left>>

-----------------------------------------------------------------------------
(* The handler of the device's connection. *)

Receive == fromDevice' = Tail(fromDevice)

Incoming(k) ==
    /\ at["handler"] = "idle"
    /\ fromDevice # <<>> /\ Head(fromDevice).kind = k

(* Process_connect clears the device's RPCs (an answer that waits finds    *)
(* nothing any more), reads the record ...                                 *)
Process_connect ==
    /\ Incoming("connect")
    /\ Receive
    /\ ResponseQueue_' = <<>>
    /\ PendingUUID' = 0
    /\ seen' = Head(fromDevice).uuid
    /\ Keep("handler", rec)
    /\ Goto("handler", "update")
    /\ UNCHANGED <<now, rec, Cache_, queued, link, toDevice, dev,
                   left>>

(* ... and writes it when firmware, locale, ... have changed. *)
UpdateDevice ==
    /\ at["handler"] = "update"
    /\ rec' \in {rec, copy["handler"]}
    /\ Keep("handler", NoDevice)
    /\ Goto("handler", "look")
    /\ UNCHANGED <<now, Cache_, queued, link, PendingUUID, toDevice, fromDevice,
                   ResponseQueue_, dev, seen, left>>

Process_state ==
    /\ Incoming("state")
    /\ Receive
    /\ seen' = Head(fromDevice).uuid
    /\ Goto("handler", "look")
    /\ UNCHANGED <<now, rec, Cache_, queued, link, PendingUUID, toDevice,
                   ResponseQueue_, dev, copy, left>>

(* ProcessJSONRPCResult *)
PostCommandResult ==
    /\ Incoming("result")
    /\ Receive
    /\ ResponseQueue_' = Append(ResponseQueue_, Head(fromDevice))
    /\ UNCHANGED <<now, rec, Cache_, queued, link, PendingUUID, toDevice, dev,
                   at, copy, seen, left>>

(* LookForUpgrade: the cache says that this is the right configuration, or *)
(* the one that is on its way.                                             *)
GoodMutant(GoodConfig) == GoodConfig # 0
Good(GoodConfig) == GoodConfig # 0 /\ GoodConfig \in {seen, PendingUUID}

LookInCache ==
    /\ at["handler"] = "look"
    /\ \/ /\ seen = 0
          /\ HandlerDone
          /\ UNCHANGED PendingUUID
       \/ /\ seen # 0 /\ Good(Cache_)
          /\ PendingUUID' = 0
          /\ HandlerDone
       \/ /\ seen # 0 /\ ~Good(Cache_)
          /\ Goto("handler", "read")
          /\ UNCHANGED <<link, PendingUUID, copy, seen>>
    /\ UNCHANGED <<now, rec, Cache_, queued, toDevice, fromDevice,
                   ResponseQueue_, dev, left>>

(* The gateway's configuration gets a UUID that is newer than the device's.*)
NewerMutant(D, n) == IF n > D.UUID THEN n ELSE D.UUID
Newer(D, n) == IF n > D.UUID THEN n + 2 ELSE D.UUID

Pushed(D) ==
    LET n == Newer(D, seen)
    IN  [D EXCEPT !.UUID = n, !.Configuration.uuid = n, !.pendingUUID = n]

(* Only one of three cases is left: the device reports what was pushed, or *)
(* what the record has, or something else.                                 *)
LookForUpgrade ==
    /\ at["handler"] = "read"
    /\ LET D == Repaired(rec)
       IN  \/ /\ PendingUUID # 0 /\ seen = PendingUUID
              /\ PendingUUID' = 0
              /\ Goto("handler", "complete")
              /\ UNCHANGED copy
           \/ /\ ~(PendingUUID # 0 /\ seen = PendingUUID) /\ D.UUID = seen
              /\ PendingUUID' = 0
              /\ Keep("handler", [D EXCEPT !.pendingUUID = 0,
                                           !.pendingConfiguration = NoConfig])
              /\ Goto("handler", "settle")
           \/ /\ ~(PendingUUID # 0 /\ seen = PendingUUID) /\ D.UUID # seen
              /\ Newer(D, seen) <= MaxUuid
              /\ PendingUUID' = Newer(D, seen)
              /\ Keep("handler", Pushed(D))
              /\ Goto("handler", "push")
    /\ UNCHANGED <<now, rec, Cache_, queued, link, toDevice, fromDevice,
                   ResponseQueue_, dev, seen, left>>

Settle ==
    /\ at["handler"] = "settle"
    /\ rec' = copy["handler"]
    /\ Goto("handler", "settled")
    /\ UNCHANGED <<now, Cache_, queued, link, PendingUUID, toDevice, fromDevice,
                   ResponseQueue_, dev, copy, seen, left>>

Settled ==
    /\ at["handler"] = "settled"
    /\ Cache_' = seen
    /\ HandlerDone
    /\ UNCHANGED <<now, rec, queued, PendingUUID, toDevice, fromDevice,
                   ResponseQueue_, dev, left>>

Push ==
    /\ at["handler"] = "push"
    /\ rec' = copy["handler"]
    /\ Goto("handler", "send")
    /\ UNCHANGED <<now, Cache_, queued, link, PendingUUID, toDevice, fromDevice,
                   ResponseQueue_, dev, copy, seen, left>>

(* AddCommand removes the configure that waits in the table, PostCommand   *)
(* sends this one.                                                         *)
SendPush ==
    /\ at["handler"] = "send"
    /\ queued' = NoConfig
    /\ toDevice' = IF link = "down" THEN toDevice
                   ELSE Append(toDevice, Frame("manager", copy["handler"].Configuration))
    /\ HandlerDone
    /\ UNCHANGED <<now, rec, Cache_, PendingUUID, fromDevice, ResponseQueue_,
                   dev, left>>

-----------------------------------------------------------------------------
(* The manager thread and the scheduler. *)

HandleResponse ==
    /\ at["manager"] = "idle"
    /\ ResponseQueue_ # <<>>
    /\ ResponseQueue_' = Tail(ResponseQueue_)
    /\ LET r    == Head(ResponseQueue_)
           then == IF r.uuid = 2 THEN "rollback" ELSE "complete"
       IN  \/ /\ r.to = "manager"
              /\ Goto("manager", then)
              /\ UNCHANGED queued
           \/ /\ r.to # "manager" /\ at[r.to] = "wait"
              /\ queued' = NoConfig
              /\ Goto(r.to, then)
           \/ /\ r.to # "manager" /\ at[r.to] # "wait"
              /\ UNCHANGED <<at, queued>>
    /\ UNCHANGED <<now, rec, Cache_, link, PendingUUID, toDevice, fromDevice,
                   dev, copy, seen, left>>

onCommandRunnerTimer ==
    /\ queued # NoConfig
    /\ link = "up"
    /\ ~Busy
    /\ toDevice' = Append(toDevice, Frame("manager", queued))
    /\ queued' = NoConfig
    /\ UNCHANGED <<now, rec, Cache_, link, PendingUUID, fromDevice,
                   ResponseQueue_, dev, at, copy, seen, left>>

-----------------------------------------------------------------------------
(* The device and its connection. *)

(* It applies a configuration or rejects it with error 2. *)
Answer ==
    /\ toDevice # <<>>
    /\ toDevice' = Tail(toDevice)
    /\ \E error \in {0, 2} :
         /\ error = 2 => left.rejects > 0
         /\ dev' = IF error = 2 THEN dev ELSE Head(toDevice).config
         /\ left' = IF error = 2 THEN [left EXCEPT !.rejects = @ - 1] ELSE left
         /\ fromDevice' = Append(fromDevice, [kind |-> "result", to |-> Head(toDevice).to,
                                              uuid |-> error])
    /\ UNCHANGED <<now, rec, Cache_, queued, link, PendingUUID, ResponseQueue_,
                   at, copy, seen>>

Report ==
    /\ link # "down"
    /\ Len(fromDevice) < MaxReports
    /\ Len(toDevice) + Len(ResponseQueue_) < MaxReports
    /\ fromDevice' = Append(fromDevice, Message("state", dev.uuid))
    /\ UNCHANGED <<now, rec, Cache_, queued, link, PendingUUID, toDevice,
                   ResponseQueue_, dev, at, copy, seen, left>>

Connect ==
    /\ link = "down"
    /\ at["handler"] = "idle"
    /\ link' = "greeting"
    /\ fromDevice' = <<Message("connect", dev.uuid)>>
    /\ UNCHANGED <<now, rec, Cache_, queued, PendingUUID, toDevice,
                   ResponseQueue_, dev, at, copy, seen, left>>

Drop ==
    /\ link # "down"
    /\ left.drops > 0
    /\ left' = [left EXCEPT !.drops = @ - 1]
    /\ link' = "down"
    /\ toDevice' = <<>> /\ fromDevice' = <<>>
    /\ UNCHANGED <<now, rec, Cache_, queued, PendingUUID, ResponseQueue_, dev,
                   at, copy, seen>>

Tick ==
    /\ now < MaxTime
    /\ now' = now + 1
    /\ UNCHANGED <<rec, Cache_, queued, link, PendingUUID, toDevice, fromDevice,
                   ResponseQueue_, dev, at, copy, seen, left>>

-----------------------------------------------------------------------------
Record(t) == Change(t) \/ SetCurrentConfig(t) \/ WriteChange(t)

Handler ==
    \/ Process_connect \/ UpdateDevice \/ Process_state \/ PostCommandResult
    \/ LookInCache \/ LookForUpgrade \/ Settle \/ Settled \/ Push \/ SendPush

Next ==
    \/ \E t \in Thread : Record(t)
    \/ \E c \in Calls : Configure(c) \/ SetPending(c) \/ Post(c) \/ TimeOut(c)
    \/ \E e \in Edits : Put(e)
    \/ PutWrite \/ PutCache
    \/ Handler \/ HandleResponse \/ onCommandRunnerTimer
    \/ Answer \/ Report \/ Connect \/ Drop \/ Tick

Spec == Init /\ [][Next]_vars

(***************************************************************************)
(* Threads and timers run; a device connects again, reports its state,     *)
(* and handles what it gets.                                               *)
(***************************************************************************)
Fairness ==
    /\ \A t \in Thread : WF_vars(Record(t))
    /\ \A c \in Calls : WF_vars(SetPending(c) \/ Post(c) \/ TimeOut(c))
    /\ WF_vars(PutWrite \/ PutCache)
    /\ WF_vars(Handler) /\ WF_vars(HandleResponse)
    /\ SF_vars(onCommandRunnerTimer)
    /\ WF_vars(Answer) /\ SF_vars(Report) /\ WF_vars(Connect)

FairSpec == Spec /\ Fairness

-----------------------------------------------------------------------------
(* Properties. *)

Label == {"idle", "done", "pending", "post", "wait", "complete", "rollback",
          "promote", "restore", "promoting", "restoring", "annotate", "replace",
          "cache", "update", "look", "read", "settle", "settled", "push", "send"}

(* The record always holds a configuration, and ids and messages are what  *)
(* the threads take them for.                                              *)
TypeOK ==
    /\ now \in 0..MaxTime
    /\ rec \in Device
    /\ Cache_ \in Uuid /\ PendingUUID \in Uuid /\ seen \in Uuid
    /\ queued \in Config \cup {NoConfig}
    /\ dev \in Config
    /\ link \in {"down", "greeting", "up"}
    /\ toDevice \in Seq([to : Thread, config : Config])
    /\ fromDevice \in Seq([kind : {"connect", "state", "result"}, to : Thread,
                           uuid : Uuid])
    /\ ResponseQueue_ \in Seq([kind : {"result"}, to : Thread, uuid : Uuid])
    /\ at \in [Thread -> Label]
    /\ copy \in [Thread -> Device \cup {NoDevice}]

(* When operators and connections have come to rest, gateway and device    *)
(* end up with the same configuration id, whatever was lost, rejected or   *)
(* left unanswered on the way (LookForUpgrade pushes until it is so).      *)
Converges == <>[](dev.uuid = Repaired(rec).UUID)

AtRest ==
    /\ link = "up"
    /\ toDevice = <<>> /\ fromDevice = <<>> /\ ResponseQueue_ = <<>>
    /\ queued = NoConfig
    /\ \A t \in Thread : at[t] \in {"idle", "done"}

(* A configuration id stands for one configuration: when nothing is under  *)
(* way any more and device and record have the same UUID, which is all     *)
(* that LookForUpgrade compares, the device runs the configuration of the  *)
(* record.                                                                 *)
UuidNamesOneConfiguration ==
    AtRest /\ dev.uuid = rec.UUID => dev.content = rec.Configuration.content
=============================================================================
