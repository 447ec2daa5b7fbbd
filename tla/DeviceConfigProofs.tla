------------------------- MODULE DeviceConfigProofs -------------------------
(***************************************************************************)
(* Proofs about the configuration of a device (DeviceConfig): what the     *)
(* threads read and write is what they take it for, for any configurations,*)
(* calls and bounds; and without an operator's configuration an id stands  *)
(* for one configuration.                                                  *)
(***************************************************************************)
EXTENDS DeviceConfig, TLAPS

Bounds == [drops : Nat, rejects : Nat, edits : Nat, tries : Nat]

(* A thread that is about to use its copy of the record has one; a call    *)
(* that is about to send has a configuration in it.                        *)
Using == {"promote", "restore", "promoting", "restoring", "pending", "post",
          "annotate", "replace", "cache", "update", "settle", "push", "send"}

Fit(l, D) ==
    /\ l \in Using => D \in Device
    /\ l \in {"pending", "post"} => D.pendingConfiguration \in Config

Copies == \A t \in Thread : Fit(at[t], copy[t])

ConfigInv == TypeOK /\ Copies /\ left \in Bounds

(* Without an operator's configuration the gateway knows one, and nothing  *)
(* is pending but the ids that LookForUpgrade makes up.                    *)
Plain(D) == D.Configuration.content = Initial /\ D.pendingConfiguration = NoConfig

Strange == {[content |-> Foreign, uuid |-> 1], [content |-> Foreign, uuid |-> 3]}

(* The ids that the gateway may hold while the device runs a foreign       *)
(* configuration with the id f: f is none of them.                         *)
Made(f) == {2, f + 2}

MadeFor(D, f) ==
    /\ D.UUID \in Made(f) \cup {0} /\ D.pendingUUID \in Made(f) \cup {0}
    /\ D.Configuration.uuid \in Made(f)

Harmless(D) == Plain(D) /\ (dev.content # Initial => MadeFor(D, dev.uuid))

HarmlessCopies == \A t \in Thread : at[t] \in Using => Harmless(copy[t])

OneConfiguration ==
    /\ Harmless(rec) /\ HarmlessCopies /\ queued = NoConfig
    /\ \A i \in 1..Len(toDevice) : toDevice[i].config.content = Initial
    /\ dev.content = Initial \/ dev \in Strange

(* What the connection knows about a device with a foreign configuration.  *)
ForeignIsStrange ==
    dev.content # Initial =>
       /\ PendingUUID \in Made(dev.uuid) \cup {0}
       /\ seen \in {0, dev.uuid}
       /\ at["handler"] = "read" => seen = dev.uuid
       /\ at["handler"] \notin {"settle", "settled"}
       /\ \A i \in 1..Len(fromDevice) :
             fromDevice[i].kind # "result" => fromDevice[i].uuid = dev.uuid

NoOperator == Calls = {} /\ Edits \subseteq {NoContent}

IdInv == ConfigInv /\ OneConfiguration /\ ForeignIsStrange

-----------------------------------------------------------------------------
(* Records and their copies. *)

LEMMA NoConfigIsNone == NoConfig \notin Config
  BY ConfigAssumption DEF NoConfig, Config

LEMMA Fields ==
    ASSUME NEW D \in Device
    PROVE  /\ D.UUID \in Uuid /\ D.pendingUUID \in Uuid
           /\ D.Configuration \in Config
           /\ D.pendingConfiguration \in Config \cup {NoConfig}
           /\ D.LastConfigurationChange \in 0..MaxTime
  BY DEF Device

LEMMA ZeroIsUuid == 0 \in Uuid
  BY ConfigAssumption DEF Uuid

LEMMA ConfigOf ==
    ASSUME NEW c \in Content, NEW n \in Uuid
    PROVE  [content |-> c, uuid |-> n] \in Config
  BY DEF Config

LEMMA ConfigFields ==
    ASSUME NEW c \in Config
    PROVE  c.content \in Content /\ c.uuid \in Uuid
  BY DEF Config

LEMMA DeviceOf ==
    ASSUME NEW u \in Uuid, NEW c \in Config, NEW p \in Uuid,
           NEW q \in Config \cup {NoConfig}, NEW l \in 0..MaxTime
    PROVE  [UUID |-> u, Configuration |-> c, pendingUUID |-> p,
            pendingConfiguration |-> q, LastConfigurationChange |-> l] \in Device
  BY DEF Device

(* What can be set in a record. *)
LEMMA SettingKeeps ==
    ASSUME NEW D \in Device
    PROVE  /\ \A u \in Uuid : [D EXCEPT !.UUID = u] \in Device
           /\ \A u \in Uuid, q \in Config \cup {NoConfig} :
                 [D EXCEPT !.pendingUUID = u, !.pendingConfiguration = q] \in Device
           /\ \A l \in 0..MaxTime : [D EXCEPT !.LastConfigurationChange = l] \in Device
           /\ \A u \in Uuid, q \in Config \cup {NoConfig}, l \in 0..MaxTime :
                 [D EXCEPT !.pendingUUID = u, !.pendingConfiguration = q,
                           !.LastConfigurationChange = l] \in Device
           /\ \A u \in Uuid, c \in Config, l \in 0..MaxTime :
                 [D EXCEPT !.UUID = u, !.Configuration = c,
                           !.LastConfigurationChange = l] \in Device
<1> DEFINE C == Config \cup {NoConfig}
           R == [UUID : Uuid, Configuration : Config, pendingUUID : Uuid,
                 pendingConfiguration : C, LastConfigurationChange : 0..MaxTime]
<1>1. D \in R
  BY DEF Device
<1>2. Device = R
  BY DEF Device
<1> HIDE DEF C
<1>3. \A u \in Uuid : [D EXCEPT !.UUID = u] \in R
  BY <1>1
<1>4. \A u \in Uuid, q \in C :
          [D EXCEPT !.pendingUUID = u, !.pendingConfiguration = q] \in R
  BY <1>1
<1>5. \A l \in 0..MaxTime : [D EXCEPT !.LastConfigurationChange = l] \in R
  BY <1>1
<1>6. \A u \in Uuid, q \in C, l \in 0..MaxTime :
          [D EXCEPT !.pendingUUID = u, !.pendingConfiguration = q,
                    !.LastConfigurationChange = l] \in R
  BY <1>1
<1>7. \A u \in Uuid, c \in Config, l \in 0..MaxTime :
          [D EXCEPT !.UUID = u, !.Configuration = c,
                    !.LastConfigurationChange = l] \in R
  BY <1>1
<1> HIDE DEF R
<1> QED
  BY <1>2, <1>3, <1>4, <1>5, <1>6, <1>7 DEF C

LEMMA RepairedIsDevice ==
    ASSUME NEW D \in Device
    PROVE  Repaired(D) \in Device
  BY Fields, ConfigFields, SettingKeeps DEF Repaired

LEMMA CompletedIsDevice ==
    ASSUME NEW D \in Device, now \in 0..MaxTime
    PROVE  Completed(D) \in Device
<1> DEFINE u == IF D.pendingUUID # 0 THEN D.pendingUUID ELSE D.UUID
           c == IF D.pendingConfiguration # NoConfig
                THEN D.pendingConfiguration ELSE D.Configuration
<1>1. u \in Uuid /\ c \in Config
  BY Fields
<1> HIDE DEF u, c
<1>2. [UUID |-> u, Configuration |-> c, pendingUUID |-> 0,
       pendingConfiguration |-> NoConfig, LastConfigurationChange |-> now] \in Device
  BY <1>1, DeviceOf, ZeroIsUuid
<1> QED
  BY <1>2, RepairedIsDevice DEF Completed, u, c

LEMMA RolledBackIsDevice ==
    ASSUME NEW D \in Device, now \in 0..MaxTime
    PROVE  RolledBack(D) \in Device
  BY SettingKeeps, ZeroIsUuid DEF RolledBack

(* The copy that LookForUpgrade pushes. *)
LEMMA PushedFields ==
    ASSUME NEW D \in Device, seen \in Uuid, Newer(D, seen) <= MaxUuid
    PROVE  LET n == Newer(D, seen)
           IN  /\ n \in Uuid
               /\ Pushed(D) \in Device
               /\ Pushed(D).UUID = n /\ Pushed(D).pendingUUID = n
               /\ Pushed(D).Configuration.uuid = n
               /\ Pushed(D).Configuration.content = D.Configuration.content
               /\ Pushed(D).pendingConfiguration = D.pendingConfiguration
<1> DEFINE n == Newer(D, seen)
           c == [D.Configuration EXCEPT !.uuid = n]
<1>1. n \in Uuid
  BY Fields, ConfigAssumption DEF Newer, Uuid
<1> HIDE DEF n
<1>2. c \in Config /\ c.uuid = n /\ c.content = D.Configuration.content
  BY <1>1, Fields DEF Config
<1>3. Pushed(D) = [D EXCEPT !.UUID = n, !.Configuration = c, !.pendingUUID = n]
  BY DEF Pushed, n
<1> HIDE DEF c
<1> DEFINE C == Config \cup {NoConfig}
           R == [UUID : Uuid, Configuration : Config, pendingUUID : Uuid,
                 pendingConfiguration : C, LastConfigurationChange : 0..MaxTime]
<1>4. Device = R
  BY DEF Device
<1> HIDE DEF C
<1>5. D \in R
  BY <1>4
<1> DEFINE E == [D EXCEPT !.UUID = n, !.Configuration = c, !.pendingUUID = n]
<1>6. /\ E \in R /\ E.UUID = n /\ E.pendingUUID = n /\ E.Configuration = c
      /\ E.pendingConfiguration = D.pendingConfiguration
  BY <1>1, <1>2, <1>5
<1> HIDE DEF E, R
<1>7. Pushed(D) = E
  BY <1>3 DEF E
<1> QED
  BY <1>1, <1>2, <1>4, <1>6, <1>7 DEF n

-----------------------------------------------------------------------------
(* A thread that moves on. *)

LEMMA Moves ==
    ASSUME TypeOK, Copies, NEW t \in Thread, NEW l \in Label,
           NEW D \in Device \cup {NoDevice}, Fit(l, D), Goto(t, l), Keep(t, D)
    PROVE  /\ at' \in [Thread -> Label] /\ at' = [at EXCEPT ![t] = l]
           /\ copy' \in [Thread -> Device \cup {NoDevice}]
           /\ copy' = [copy EXCEPT ![t] = D]
           /\ Copies'
<1> DEFINE K == Device \cup {NoDevice}
<1>1. at \in [Thread -> Label] /\ copy \in [Thread -> K] /\ D \in K
  BY DEF TypeOK
<1> HIDE DEF K
<1>2. at' = [at EXCEPT ![t] = l] /\ copy' = [copy EXCEPT ![t] = D]
  BY DEF Goto, Keep
<1>3. at' \in [Thread -> Label] /\ copy' \in [Thread -> K]
  BY <1>1, <1>2
<1>4. ASSUME NEW s \in Thread
      PROVE  Fit(at'[s], copy'[s])
  <2>1. CASE s = t
    BY <1>1, <1>2, <2>1
  <2>2. CASE s # t
    <3>1. at'[s] = at[s] /\ copy'[s] = copy[s]
      BY <1>1, <1>2, <2>2
    <3> QED
      BY <3>1 DEF Copies
  <2> QED
    BY <2>1, <2>2
<1> QED
  BY <1>2, <1>3, <1>4 DEF Copies, K, Fit

LEMMA Walks ==
    ASSUME TypeOK, Copies, NEW t \in Thread, NEW l \in Label,
           Fit(l, copy[t]), Goto(t, l), UNCHANGED copy
    PROVE  at' \in [Thread -> Label] /\ at' = [at EXCEPT ![t] = l] /\ Copies'
<1>1. copy \in [Thread -> Device \cup {NoDevice}]
  BY DEF TypeOK
<1>2. copy[t] \in Device \cup {NoDevice}
  BY <1>1
<1>3. copy' = [copy EXCEPT ![t] = copy[t]]
  BY <1>1
<1> QED
  BY <1>2, <1>3, Moves DEF Keep

LEMMA NotUsing ==
    ASSUME NEW l, l \notin Using, NEW D
    PROVE  Fit(l, D)
  BY DEF Fit, Using

LEMMA HandlerEnds ==
    ASSUME TypeOK, Copies, HandlerDone
    PROVE  /\ at' \in [Thread -> Label] /\ at' = [at EXCEPT !["handler"] = "idle"]
           /\ copy' \in [Thread -> Device \cup {NoDevice}]
           /\ copy' = [copy EXCEPT !["handler"] = NoDevice]
           /\ seen' \in Uuid /\ link' \in {"down", "greeting", "up"} /\ Copies'
<1>1. "handler" \in Thread /\ "idle" \in Label /\ Fit("idle", NoDevice)
  BY NotUsing DEF Thread, Label, Using
<1>2. Goto("handler", "idle") /\ Keep("handler", NoDevice)
  BY DEF HandlerDone
<1>3. seen' \in Uuid /\ link' \in {"down", "greeting", "up"}
  BY ZeroIsUuid DEF HandlerDone, TypeOK
<1> QED
  BY <1>1, <1>2, <1>3, Moves

LEMMA Returns ==
    ASSUME TypeOK, Copies, NEW t \in Thread, Return(t)
    PROVE  /\ at' \in [Thread -> Label]
           /\ \E l \in {"idle", "done"} : at' = [at EXCEPT ![t] = l]
           /\ copy' \in [Thread -> Device \cup {NoDevice}]
           /\ copy' = [copy EXCEPT ![t] = NoDevice]
           /\ seen' \in {seen, 0}
           /\ seen' \in Uuid /\ link' \in {"down", "greeting", "up"} /\ Copies'
<1>1. CASE t = "handler"
  <2>1. HandlerDone
    BY <1>1 DEF Return
  <2>2. seen' = 0
    BY <2>1 DEF HandlerDone
  <2> QED
    BY <1>1, <2>1, <2>2, HandlerEnds
<1>2. CASE t # "handler"
  <2> DEFINE l == IF t = "manager" THEN "idle" ELSE "done"
  <2>1. Goto(t, l) /\ Keep(t, NoDevice) /\ UNCHANGED <<link, seen>>
    BY <1>2 DEF Return
  <2>2. l \in Label /\ Fit(l, NoDevice) /\ l \in {"idle", "done"}
    BY NotUsing DEF Label, Using
  <2> HIDE DEF l
  <2>3. /\ at' \in [Thread -> Label] /\ at' = [at EXCEPT ![t] = l]
        /\ copy' \in [Thread -> Device \cup {NoDevice}]
        /\ copy' = [copy EXCEPT ![t] = NoDevice] /\ Copies'
    BY <2>1, <2>2, Moves
  <2> QED
    BY <2>1, <2>2, <2>3 DEF TypeOK
<1> QED
  BY <1>1, <1>2

-----------------------------------------------------------------------------
(* Frames. *)

ToDevice   == [to : Thread, config : Config]
FromDevice == [kind : {"connect", "state", "result"}, to : Thread, uuid : Uuid]
Response   == [kind : {"result"}, to : Thread, uuid : Uuid]

LEMMA FrameIn ==
    ASSUME NEW t \in Thread, NEW c \in Config
    PROVE  Frame(t, c) \in ToDevice
  BY DEF Frame, ToDevice

LEMMA MessageIn ==
    ASSUME NEW k \in {"connect", "state", "result"}, NEW n \in Uuid
    PROVE  Message(k, n) \in FromDevice
  BY DEF Message, FromDevice, Thread

LEMMA ResultIn ==
    ASSUME NEW m \in FromDevice, m.kind = "result"
    PROVE  m \in Response
  BY DEF FromDevice, Response

LEMMA HeadTail ==
    ASSUME NEW S, NEW q \in Seq(S), q # <<>>
    PROVE  /\ Head(q) \in S /\ Tail(q) \in Seq(S) /\ Head(q) = q[1]
           /\ Len(q) \in Nat \ {0} /\ Len(Tail(q)) = Len(q) - 1
           /\ \A i \in 1..Len(Tail(q)) : Tail(q)[i] = q[i + 1] /\ i + 1 \in 1..Len(q)
<1>1. Len(q) \in Nat \ {0} /\ Head(q) = q[1]
  OBVIOUS
<1>2. Head(q) \in S
  BY <1>1
<1>3. Tail(q) \in Seq(S) /\ Len(Tail(q)) = Len(q) - 1
  BY <1>1
<1>4. \A i \in 1..Len(Tail(q)) : Tail(q)[i] = q[i + 1] /\ i + 1 \in 1..Len(q)
  BY <1>1, <1>3
<1> QED
  BY <1>1, <1>2, <1>3, <1>4

LEMMA Appended ==
    ASSUME NEW S, NEW q \in Seq(S), NEW m \in S
    PROVE  /\ Append(q, m) \in Seq(S) /\ Len(Append(q, m)) = Len(q) + 1 /\ Len(q) \in Nat
           /\ \A i \in 1..Len(q) : Append(q, m)[i] = q[i]
           /\ Append(q, m)[Len(q) + 1] = m
  OBVIOUS

-----------------------------------------------------------------------------
(* Every operation keeps the records. *)

LEMMA InitTyped == Init => ConfigInv
<1> SUFFICES ASSUME Init PROVE ConfigInv
  OBVIOUS
<1>1. 2 \in Uuid /\ 1 \in Uuid /\ 3 \in Uuid /\ 0 \in Uuid /\ 2 \in 0..MaxTime
      /\ now \in 0..MaxTime
  BY ConfigAssumption DEF Init, Uuid
<1>2. Initial \in Content /\ Foreign \in Content
  BY ConfigAssumption
<1>3. [content |-> Initial, uuid |-> 2] \in Config /\ dev \in Config
  BY <1>1, <1>2, ConfigOf DEF Init
<1>4. rec \in Device
  <2> DEFINE c == [content |-> Initial, uuid |-> 2]
  <2>1. c \in Config
    BY <1>3
  <2>2. rec \in [UUID : {0, 2}, Configuration : {c}, pendingUUID : {0},
                 pendingConfiguration : {NoConfig}, LastConfigurationChange : {2}]
    BY DEF Init
  <2> HIDE DEF c
  <2> QED
    BY <1>1, <2>1, <2>2 DEF Device
<1>5. TypeOK
  BY <1>1, <1>3, <1>4 DEF Init, TypeOK, Label
<1>6. Copies
  BY NotUsing DEF Init, Copies, Using, Fit
<1>7. left \in Bounds
  BY ConfigAssumption DEF Init, Bounds
<1> QED
  BY <1>5, <1>6, <1>7 DEF ConfigInv

LEMMA RecordTyped ==
    ASSUME ConfigInv, NEW t \in Thread, Record(t)
    PROVE  ConfigInv'
<1> USE DEF ConfigInv
<1>1. at[t] \in Using => copy[t] \in Device
  BY DEF Copies, Fit
<1>2. copy[t].UUID \in Uuid
  BY Fields, ZeroIsUuid DEF TypeOK, NoDevice
<1>3. CASE Change(t)
  <2>1. PICK l \in {"promote", "restore"}, D \in {Completed(rec), RolledBack(rec)} :
            Keep(t, D) /\ Goto(t, l)
    BY <1>3 DEF Change
  <2>2. D \in Device
    BY <2>1, CompletedIsDevice, RolledBackIsDevice DEF TypeOK
  <2>3. l \in Label /\ Fit(l, D)
    BY <2>2 DEF Label, Fit
  <2>4. /\ at' \in [Thread -> Label]
        /\ copy' \in [Thread -> Device \cup {NoDevice}] /\ Copies'
    BY <2>1, <2>2, <2>3, Moves
  <2> QED
    BY <1>3, <2>4 DEF Change, TypeOK
<1>4. CASE SetCurrentConfig(t)
  <2>1. PICK l \in {"promoting", "restoring"} : Goto(t, l)
    BY <1>4 DEF SetCurrentConfig
  <2>2. l \in Label /\ Fit(l, copy[t]) /\ UNCHANGED copy
    BY <1>1, <1>4 DEF SetCurrentConfig, Label, Fit, Using
  <2>3. at' \in [Thread -> Label] /\ Copies'
    BY <2>1, <2>2, Walks
  <2> QED
    BY <1>2, <1>4, <2>3 DEF SetCurrentConfig, TypeOK
<1>5. CASE WriteChange(t)
  <2>1. Return(t) /\ rec' \in Device
    BY <1>1, <1>5 DEF WriteChange, Using
  <2>2. /\ at' \in [Thread -> Label]
        /\ copy' \in [Thread -> Device \cup {NoDevice}] /\ Copies'
        /\ seen' \in Uuid /\ link' \in {"down", "greeting", "up"}
    BY <2>1, Returns
  <2> QED
    BY <1>5, <2>1, <2>2 DEF WriteChange, TypeOK
<1> QED
  BY <1>3, <1>4, <1>5 DEF Record

LEMMA CallTyped ==
    ASSUME ConfigInv, NEW c \in Calls,
           Configure(c) \/ SetPending(c) \/ Post(c) \/ TimeOut(c)
    PROVE  ConfigInv'
<1> USE DEF ConfigInv
<1>0. c \in Thread /\ copy[c] \in Device \cup {NoDevice}
  BY DEF Thread, TypeOK
<1>1. CASE Configure(c)
  <2> DEFINE n == IF rec.LastConfigurationChange = now THEN now + 1 ELSE now
             w == [content |-> Wanted[c], uuid |-> n]
             D == [rec EXCEPT !.pendingUUID = n, !.pendingConfiguration = w]
  <2>1. n \in Uuid
    BY ConfigAssumption DEF TypeOK, Uuid
  <2>2. Wanted[c] \in Content
    BY ConfigAssumption
  <2>3. w \in Config
    BY <2>1, <2>2, ConfigOf
  <2>4. Keep(c, D) /\ Goto(c, "pending")
    BY <1>1 DEF Configure
  <2> HIDE DEF n, w
  <2>5. rec \in Device
    BY DEF TypeOK
  <2>6. D \in Device
    BY <2>1, <2>3, <2>5, SettingKeeps
  <2>7. D.pendingConfiguration = w
    BY <2>5 DEF Device
  <2>8. "pending" \in Label /\ Fit("pending", D)
    BY <2>3, <2>6, <2>7 DEF Label, Fit
  <2> HIDE DEF D
  <2>9. /\ at' \in [Thread -> Label]
        /\ copy' \in [Thread -> Device \cup {NoDevice}] /\ Copies'
    BY <1>0, <2>4, <2>6, <2>8, Moves
  <2> QED
    BY <1>1, <2>9 DEF Configure, TypeOK
<1>2. CASE SetPending(c)
  <2>1. Fit("pending", copy[c])
    BY <1>0, <1>2 DEF SetPending, Copies
  <2>2. "post" \in Label /\ Fit("post", copy[c]) /\ copy[c] \in Device
    BY <2>1 DEF Label, Fit, Using
  <2>3. at' \in [Thread -> Label] /\ Copies'
    BY <1>0, <1>2, <2>2, Walks DEF SetPending
  <2> QED
    BY <1>2, <2>2, <2>3 DEF SetPending, TypeOK
<1>3. CASE Post(c)
  <2>1. copy[c].pendingConfiguration \in Config
    BY <1>0, <1>3 DEF Post, Copies, Fit
  <2>2. PICK l \in {"wait", "done"} : Goto(c, l)
    BY <1>3 DEF Post
  <2>3. l \in Label /\ Fit(l, NoDevice) /\ Keep(c, NoDevice)
    BY <1>3, NotUsing DEF Post, Label, Using
  <2>4. /\ at' \in [Thread -> Label]
        /\ copy' \in [Thread -> Device \cup {NoDevice}] /\ Copies'
    BY <1>0, <2>2, <2>3, Moves
  <2>5. toDevice \in Seq(ToDevice)
    BY DEF TypeOK, ToDevice
  <2>6. toDevice' \in Seq(ToDevice)
    BY <1>0, <1>3, <2>1, <2>5, FrameIn, Appended DEF Post
  <2>7. queued' \in Config \cup {NoConfig} /\ left' \in Bounds
    BY <1>3, <2>1 DEF Post, TypeOK, Bounds
  <2> QED
    BY <1>3, <2>4, <2>6, <2>7 DEF Post, TypeOK, ToDevice
<1>4. CASE TimeOut(c)
  <2>1. "complete" \in Label /\ Fit("complete", copy[c])
    BY DEF Label, Fit, Using
  <2>2. at' \in [Thread -> Label] /\ Copies'
    BY <1>0, <1>4, <2>1, Walks DEF TimeOut
  <2> QED
    BY <1>4, <2>2 DEF TimeOut, TypeOK
<1> QED
  BY <1>1, <1>2, <1>3, <1>4

LEMMA PutTyped ==
    ASSUME ConfigInv, (\E e \in Edits : Put(e)) \/ PutWrite \/ PutCache
    PROVE  ConfigInv'
<1> USE DEF ConfigInv
<1>0. "put" \in Thread /\ copy["put"] \in Device \cup {NoDevice}
  BY DEF Thread, TypeOK
<1>1. ASSUME NEW e \in Edits, Put(e)
      PROVE  ConfigInv'
  <2> DEFINE D == IF e = NoContent
                  THEN [rec EXCEPT !.LastConfigurationChange = now]
                  ELSE [rec EXCEPT !.UUID = now,
                                   !.Configuration = [content |-> e, uuid |-> now],
                                   !.LastConfigurationChange = now]
             l == IF e = NoContent THEN "annotate" ELSE "replace"
  <2>1. Keep("put", D) /\ Goto("put", l)
    BY <1>1 DEF Put
  <2>2. now \in Uuid /\ now \in 0..MaxTime /\ rec \in Device
    BY ConfigAssumption DEF TypeOK, Uuid
  <2>3. e # NoContent => [content |-> e, uuid |-> now] \in Config
    BY <1>1, <2>2, ConfigAssumption, ConfigOf
  <2>4. D \in Device
    <3>1. CASE e = NoContent
      BY <2>2, <3>1, SettingKeeps
    <3>2. CASE e # NoContent
      <4> DEFINE c == [content |-> e, uuid |-> now]
      <4>1. c \in Config
        BY <2>3, <3>2
      <4>2. D = [rec EXCEPT !.UUID = now, !.Configuration = c,
                            !.LastConfigurationChange = now]
        BY <3>2
      <4> HIDE DEF c, D
      <4> QED
        BY <2>2, <4>1, <4>2, SettingKeeps
    <3> QED
      BY <3>1, <3>2
  <2>5. l \in Label /\ Fit(l, D)
    BY <2>4 DEF Label, Fit
  <2> HIDE DEF D, l
  <2>6. /\ at' \in [Thread -> Label]
        /\ copy' \in [Thread -> Device \cup {NoDevice}] /\ Copies'
    BY <1>0, <2>1, <2>4, <2>5, Moves
  <2>7. left' \in Bounds
    <3>1. left.edits > 0 /\ left' = [left EXCEPT !.edits = @ - 1]
      BY <1>1 DEF Put
    <3> QED
      BY <3>1 DEF Bounds
  <2> QED
    BY <1>1, <2>6, <2>7 DEF Put, TypeOK
<1>2. CASE PutWrite
  <2>1. copy["put"] \in Device
    BY <1>0, <1>2 DEF PutWrite, Copies, Fit, Using
  <2>2. "cache" \in Label /\ Fit("cache", copy["put"])
    BY <2>1 DEF Label, Fit
  <2>3. at' \in [Thread -> Label] /\ Copies'
    BY <1>0, <1>2, <2>2, Walks DEF PutWrite
  <2> QED
    BY <1>2, <2>1, <2>3 DEF PutWrite, TypeOK
<1>3. CASE PutCache
  <2>1. copy["put"].UUID \in Uuid
    BY <1>0, Fields, ZeroIsUuid DEF NoDevice
  <2>2. "idle" \in Label /\ Fit("idle", NoDevice)
    BY NotUsing DEF Label, Using
  <2>3. /\ at' \in [Thread -> Label]
        /\ copy' \in [Thread -> Device \cup {NoDevice}] /\ Copies'
    BY <1>0, <1>3, <2>2, Moves DEF PutCache
  <2> QED
    BY <1>3, <2>1, <2>3 DEF PutCache, TypeOK
<1> QED
  BY <1>1, <1>2, <1>3

LEMMA HandlerTyped ==
    ASSUME ConfigInv, Handler
    PROVE  ConfigInv'
<1> USE DEF ConfigInv
<1>0. /\ "handler" \in Thread /\ copy["handler"] \in Device \cup {NoDevice}
      /\ Fit(at["handler"], copy["handler"])
      /\ rec \in Device /\ rec \in Device \cup {NoDevice}
  BY DEF Thread, TypeOK, Copies
<1>1. /\ toDevice \in Seq(ToDevice) /\ fromDevice \in Seq(FromDevice)
      /\ ResponseQueue_ \in Seq(Response)
  BY DEF TypeOK, ToDevice, FromDevice, Response
<1>2. ASSUME NEW k, Incoming(k)
      PROVE  /\ Head(fromDevice) \in FromDevice /\ Head(fromDevice).kind = k
             /\ Head(fromDevice).uuid \in Uuid /\ Tail(fromDevice) \in Seq(FromDevice)
  <2>1. Head(fromDevice) \in FromDevice /\ Tail(fromDevice) \in Seq(FromDevice)
    BY <1>1, <1>2, HeadTail DEF Incoming
  <2> QED
    BY <1>2, <2>1 DEF Incoming, FromDevice
<1>3. CASE Process_connect
  <2>1. "update" \in Label /\ Fit("update", rec)
    BY <1>0 DEF Label, Fit
  <2>2. /\ at' \in [Thread -> Label]
        /\ copy' \in [Thread -> Device \cup {NoDevice}] /\ Copies'
    BY <1>0, <1>3, <2>1, Moves DEF Process_connect
  <2>3. fromDevice' \in Seq(FromDevice) /\ seen' \in Uuid
    BY <1>2, <1>3 DEF Process_connect, Receive
  <2>4. PendingUUID' \in Uuid
    BY <1>3, ZeroIsUuid DEF Process_connect
  <2>5. ResponseQueue_' = <<>>
    BY <1>3 DEF Process_connect
  <2> QED
    BY <1>3, <2>2, <2>3, <2>4, <2>5 DEF Process_connect, TypeOK, FromDevice
<1>4. CASE UpdateDevice
  <2>1. rec' \in Device
    BY <1>0, <1>4 DEF UpdateDevice, Fit, Using
  <2>2. "look" \in Label /\ Fit("look", NoDevice)
    BY NotUsing DEF Label, Using
  <2>3. /\ at' \in [Thread -> Label]
        /\ copy' \in [Thread -> Device \cup {NoDevice}] /\ Copies'
    BY <1>0, <1>4, <2>2, Moves DEF UpdateDevice
  <2> QED
    BY <1>4, <2>1, <2>3 DEF UpdateDevice, TypeOK
<1>5. CASE Process_state
  <2>1. "look" \in Label /\ Fit("look", copy["handler"])
    BY DEF Label, Using, Fit
  <2>2. at' \in [Thread -> Label] /\ Copies'
    BY <1>0, <1>5, <2>1, Walks DEF Process_state
  <2>3. fromDevice' \in Seq(FromDevice) /\ seen' \in Uuid
    BY <1>2, <1>5 DEF Process_state, Receive
  <2> QED
    BY <1>5, <2>2, <2>3 DEF Process_state, TypeOK, FromDevice
<1>6. CASE PostCommandResult
  <2>1. fromDevice' \in Seq(FromDevice)
    BY <1>2, <1>6 DEF PostCommandResult, Receive
  <2>2. Head(fromDevice) \in Response
    BY <1>2, <1>6, ResultIn DEF PostCommandResult
  <2>3. ResponseQueue_' \in Seq(Response)
    BY <1>1, <1>6, <2>2, Appended DEF PostCommandResult
  <2> QED
    BY <1>6, <2>1, <2>3 DEF PostCommandResult, TypeOK, FromDevice, Response, Copies
<1>7. CASE LookInCache
  <2>1. CASE HandlerDone
    <3>1. /\ at' \in [Thread -> Label] /\ seen' \in Uuid
          /\ link' \in {"down", "greeting", "up"}
          /\ copy' \in [Thread -> Device \cup {NoDevice}] /\ Copies'
      BY <2>1, HandlerEnds
    <3>2. PendingUUID' \in Uuid
      BY <1>7, ZeroIsUuid DEF LookInCache, TypeOK
    <3> QED
      BY <1>7, <3>1, <3>2 DEF LookInCache, TypeOK
  <2>2. CASE Goto("handler", "read") /\ UNCHANGED <<link, PendingUUID, copy, seen>>
    <3>1. "read" \in Label /\ Fit("read", copy["handler"])
      BY DEF Label, Using, Fit
    <3>2. at' \in [Thread -> Label] /\ Copies'
      BY <1>0, <2>2, <3>1, Walks
    <3> QED
      BY <1>7, <2>2, <3>2 DEF LookInCache, TypeOK
  <2> QED
    BY <1>7, <2>1, <2>2 DEF LookInCache
<1>8. CASE LookForUpgrade
  <2> DEFINE D == Repaired(rec)
  <2>1. D \in Device
    BY <1>0, RepairedIsDevice
  <2>2. "complete" \in Label /\ "settle" \in Label /\ "push" \in Label
    BY DEF Label
  <2> HIDE DEF D
  <2>3. CASE Goto("handler", "complete") /\ UNCHANGED copy /\ PendingUUID' = 0
    <3>1. Fit("complete", copy["handler"])
      BY DEF Using, Fit
    <3>2. at' \in [Thread -> Label] /\ Copies'
      BY <1>0, <2>2, <2>3, <3>1, Walks
    <3> QED
      BY <1>8, <2>3, <3>2, ZeroIsUuid DEF LookForUpgrade, TypeOK
  <2>4. ASSUME NEW E, NEW l \in {"settle", "push"}, NEW n \in Uuid, E \in Device,
               Keep("handler", E), Goto("handler", l), PendingUUID' = n
        PROVE  ConfigInv'
    <3>1. Fit(l, E) /\ l \in Label
      BY <2>2, <2>4 DEF Fit
    <3>2. /\ at' \in [Thread -> Label]
          /\ copy' \in [Thread -> Device \cup {NoDevice}] /\ Copies'
      BY <1>0, <2>4, <3>1, Moves
    <3> QED
      BY <1>8, <2>4, <3>2 DEF LookForUpgrade, TypeOK
  <2>5. CASE /\ Keep("handler", [D EXCEPT !.pendingUUID = 0,
                                          !.pendingConfiguration = NoConfig])
             /\ Goto("handler", "settle") /\ PendingUUID' = 0
    <3>1. [D EXCEPT !.pendingUUID = 0, !.pendingConfiguration = NoConfig] \in Device
      BY <2>1, SettingKeeps, ZeroIsUuid
    <3> QED
      BY <2>4, <2>5, <3>1, ZeroIsUuid
  <2>6. CASE /\ Newer(D, seen) <= MaxUuid /\ PendingUUID' = Newer(D, seen)
             /\ Keep("handler", Pushed(D)) /\ Goto("handler", "push")
    <3>1. Pushed(D) \in Device /\ Newer(D, seen) \in Uuid
      BY <2>1, <2>6, PushedFields DEF TypeOK
    <3> QED
      BY <2>4, <2>6, <3>1
  <2> QED
    BY <1>8, <2>3, <2>5, <2>6 DEF LookForUpgrade, D
<1>9. CASE Settle \/ Push
  <2>1. PICK l \in {"settled", "send"} :
            Goto("handler", l) /\ (at["handler"] = "settle" \/ at["handler"] = "push")
    BY <1>9 DEF Settle, Push
  <2>2. copy["handler"] \in Device
    BY <1>0, <2>1 DEF Fit, Using
  <2>3. l \in Label /\ Fit(l, copy["handler"])
    BY <2>2 DEF Label, Fit
  <2>4. UNCHANGED copy
    BY <1>9 DEF Settle, Push
  <2>5. at' \in [Thread -> Label] /\ Copies'
    BY <1>0, <2>1, <2>3, <2>4, Walks
  <2> QED
    BY <1>9, <2>2, <2>5 DEF Settle, Push, TypeOK
<1>10. CASE Settled \/ SendPush
  <2>1. HandlerDone
    BY <1>10 DEF Settled, SendPush
  <2>2. /\ at' \in [Thread -> Label] /\ seen' \in Uuid
        /\ link' \in {"down", "greeting", "up"}
        /\ copy' \in [Thread -> Device \cup {NoDevice}] /\ Copies'
    BY <2>1, HandlerEnds
  <2>3. CASE Settled
    BY <2>2, <2>3 DEF Settled, TypeOK
  <2>4. CASE SendPush
    <3>1. copy["handler"].Configuration \in Config
      BY <1>0, <2>4, Fields DEF SendPush, Fit, Using
    <3>2. Frame("manager", copy["handler"].Configuration) \in ToDevice
      BY <3>1, FrameIn DEF Thread
    <3>3. toDevice' \in Seq(ToDevice)
      BY <1>1, <2>4, <3>2, Appended DEF SendPush
    <3> QED
      BY <2>2, <2>4, <3>3 DEF SendPush, TypeOK, ToDevice
  <2> QED
    BY <1>10, <2>3, <2>4
<1> QED
  BY <1>3, <1>4, <1>5, <1>6, <1>7, <1>8, <1>9, <1>10 DEF Handler

LEMMA ManagerTyped ==
    ASSUME ConfigInv, HandleResponse \/ onCommandRunnerTimer
    PROVE  ConfigInv'
<1> USE DEF ConfigInv
<1>1. toDevice \in Seq(ToDevice) /\ ResponseQueue_ \in Seq(Response)
  BY DEF TypeOK, ToDevice, Response
<1>2. CASE HandleResponse
  <2> DEFINE r == Head(ResponseQueue_)
             then == IF r.uuid = 2 THEN "rollback" ELSE "complete"
  <2>1. r \in Response /\ Tail(ResponseQueue_) \in Seq(Response)
    BY <1>1, <1>2, HeadTail DEF HandleResponse
  <2>2. r.to \in Thread /\ "manager" \in Thread
    BY <2>1 DEF Response, Thread
  <2>3. then \in Label /\ then \notin Using
    BY DEF Label, Using
  <2>4. queued' \in Config \cup {NoConfig}
    BY <1>2 DEF HandleResponse, TypeOK
  <2>5. \/ UNCHANGED at
        \/ \E t \in Thread : Goto(t, then)
    BY <1>2, <2>2 DEF HandleResponse
  <2>6. ResponseQueue_' \in Seq(Response) /\ UNCHANGED copy
    BY <1>2, <2>1 DEF HandleResponse
  <2> HIDE DEF then, r
  <2>7. at' \in [Thread -> Label] /\ Copies'
    <3>1. CASE UNCHANGED at
      BY <2>6, <3>1 DEF TypeOK, Copies
    <3>2. ASSUME NEW t \in Thread, Goto(t, then)
          PROVE  at' \in [Thread -> Label] /\ Copies'
      <4>1. Fit(then, copy[t])
        BY <2>3 DEF Fit, Using
      <4> QED
        BY <2>3, <2>6, <3>2, <4>1, Walks
    <3> QED
      BY <2>5, <3>1, <3>2
  <2> QED
    BY <1>2, <2>4, <2>6, <2>7 DEF HandleResponse, TypeOK, Response
<1>3. CASE onCommandRunnerTimer
  <2>1. queued \in Config
    BY <1>3 DEF onCommandRunnerTimer, TypeOK
  <2>2. Frame("manager", queued) \in ToDevice
    BY <2>1, FrameIn DEF Thread
  <2>3. toDevice' \in Seq(ToDevice)
    BY <1>1, <1>3, <2>2, Appended DEF onCommandRunnerTimer
  <2> QED
    BY <1>3, <2>3 DEF onCommandRunnerTimer, TypeOK, ToDevice, Copies
<1> QED
  BY <1>2, <1>3

LEMMA LinkTyped ==
    ASSUME ConfigInv, Answer \/ Report \/ Connect \/ Drop \/ Tick
    PROVE  ConfigInv'
<1> USE DEF ConfigInv
<1>1. /\ toDevice \in Seq(ToDevice) /\ fromDevice \in Seq(FromDevice)
      /\ dev.uuid \in Uuid
  BY ConfigFields DEF TypeOK, ToDevice, FromDevice
<1>2. CASE Answer
  <2>1. Head(toDevice) \in ToDevice /\ toDevice' \in Seq(ToDevice)
    BY <1>1, <1>2, HeadTail DEF Answer
  <2>2. Head(toDevice).to \in Thread /\ Head(toDevice).config \in Config
    BY <2>1 DEF ToDevice
  <2>3. PICK error \in {0, 2} :
            /\ error = 2 => left.rejects > 0
            /\ dev' = IF error = 2 THEN dev ELSE Head(toDevice).config
            /\ left' = IF error = 2 THEN [left EXCEPT !.rejects = @ - 1] ELSE left
            /\ fromDevice' = Append(fromDevice, [kind |-> "result", to |-> Head(toDevice).to,
                                                 uuid |-> error])
    BY <1>2 DEF Answer
  <2>4. dev' \in Config
    BY <2>2, <2>3 DEF TypeOK
  <2>5. left' \in Bounds
    BY <2>3 DEF Bounds
  <2>6. error \in Uuid
    BY ConfigAssumption DEF Uuid
  <2>7. [kind |-> "result", to |-> Head(toDevice).to, uuid |-> error] \in FromDevice
    BY <2>2, <2>6 DEF FromDevice
  <2>8. fromDevice' \in Seq(FromDevice)
    BY <1>1, <2>3, <2>7, Appended
  <2> QED
    BY <1>2, <2>1, <2>4, <2>5, <2>8 DEF Answer, TypeOK, ToDevice, FromDevice, Copies
<1>3. CASE Report
  <2>1. Message("state", dev.uuid) \in FromDevice
    BY <1>1, MessageIn
  <2>2. fromDevice' \in Seq(FromDevice)
    BY <1>1, <1>3, <2>1, Appended DEF Report
  <2> QED
    BY <1>3, <2>2 DEF Report, TypeOK, FromDevice, Copies
<1>4. CASE Connect
  <2>1. Message("connect", dev.uuid) \in FromDevice
    BY <1>1, MessageIn
  <2>2. fromDevice' \in Seq(FromDevice)
    BY <1>4, <2>1 DEF Connect
  <2> QED
    BY <1>4, <2>2 DEF Connect, TypeOK, FromDevice, Copies
<1>5. CASE Drop
  <2>1. left.drops > 0 /\ left' = [left EXCEPT !.drops = @ - 1]
    BY <1>5 DEF Drop
  <2>2. left' \in Bounds
    BY <2>1 DEF Bounds
  <2> QED
    BY <1>5, <2>2 DEF Drop, TypeOK, Copies
<1>6. CASE Tick
  <2>1. now' \in 0..MaxTime
    BY <1>6, ConfigAssumption DEF Tick, TypeOK
  <2> QED
    BY <1>6, <2>1 DEF Tick, TypeOK, Copies
<1> QED
  BY <1>2, <1>3, <1>4, <1>5, <1>6

LEMMA NextTyped == ConfigInv /\ [Next]_vars => ConfigInv'
<1> SUFFICES ASSUME ConfigInv, [Next]_vars PROVE ConfigInv'
  OBVIOUS
<1>1. CASE UNCHANGED vars
  BY <1>1 DEF vars, ConfigInv, TypeOK, Copies
<1>2. CASE Next
  BY <1>2, RecordTyped, CallTyped, PutTyped, HandlerTyped, ManagerTyped, LinkTyped
     DEF Next
<1> QED
  BY <1>1, <1>2

(* Whatever the interleaving of the threads that read, change and write    *)
(* the record (Complete-, Rollback- and SetPendingDeviceConfiguration, PUT *)
(* and LookForUpgrade), it always holds a configuration, and what the      *)
(* threads send and answer is of the type that the receivers take it for.  *)
THEOREM RecordIsAlwaysWhole == Spec => []TypeOK
<1>1. ConfigInv => TypeOK
  BY DEF ConfigInv
<1> QED
  BY InitTyped, NextTyped, <1>1, PTL DEF Spec

-----------------------------------------------------------------------------
(* What the threads make of a harmless record is harmless. *)

LEMMA ForeignIds ==
    ASSUME OneConfiguration, dev.content # Initial
    PROVE  /\ dev.uuid \in {1, 3} /\ dev.uuid \notin Made(dev.uuid) \cup {0}
           /\ dev.uuid + 2 \in Made(dev.uuid) /\ 0 \notin Made(dev.uuid)
  BY DEF OneConfiguration, Strange, Made

LEMMA RepairedIsHarmless ==
    ASSUME NEW D \in Device, Harmless(D)
    PROVE  /\ Harmless(Repaired(D))
           /\ dev.content # Initial => Repaired(D).UUID \in Made(dev.uuid)
<1>1. CASE D.UUID # 0
  BY <1>1 DEF Repaired, Harmless, MadeFor
<1>2. CASE D.UUID = 0
  <2> DEFINE E == [D EXCEPT !.UUID = D.Configuration.uuid]
  <2>1. /\ E.UUID = D.Configuration.uuid /\ E.Configuration = D.Configuration
        /\ E.pendingUUID = D.pendingUUID
        /\ E.pendingConfiguration = D.pendingConfiguration
    BY DEF Device
  <2>2. Repaired(D) = E
    BY <1>2 DEF Repaired
  <2> HIDE DEF E
  <2> QED
    BY <2>1, <2>2 DEF Harmless, Plain, MadeFor
<1> QED
  BY <1>1, <1>2

LEMMA CompletedIsHarmless ==
    ASSUME NEW D \in Device, Harmless(D), now \in 0..MaxTime
    PROVE  Harmless(Completed(D))
<1> DEFINE u == IF D.pendingUUID # 0 THEN D.pendingUUID ELSE D.UUID
           E == [UUID |-> u, Configuration |-> D.Configuration, pendingUUID |-> 0,
                 pendingConfiguration |-> NoConfig, LastConfigurationChange |-> now]
<1>1. u \in Uuid /\ E \in Device
  BY Fields, DeviceOf, ZeroIsUuid
<1>2. Completed(D) = Repaired(E)
  BY DEF Completed, Harmless, Plain
<1>3. Harmless(E)
  BY DEF Harmless, Plain, MadeFor
<1> HIDE DEF E
<1> QED
  BY <1>1, <1>2, <1>3, RepairedIsHarmless

LEMMA RolledBackIsHarmless ==
    ASSUME NEW D \in Device, Harmless(D), NEW l
    PROVE  /\ Harmless(RolledBack(D))
           /\ Harmless([D EXCEPT !.pendingUUID = 0, !.pendingConfiguration = NoConfig])
           /\ Harmless([D EXCEPT !.LastConfigurationChange = l])
<1>1. ASSUME NEW E, E.UUID = D.UUID, E.Configuration = D.Configuration,
             E.pendingUUID \in {0, D.pendingUUID},
             E.pendingConfiguration \in {NoConfig, D.pendingConfiguration}
      PROVE  Harmless(E)
  BY <1>1 DEF Harmless, Plain, MadeFor
<1>2. Harmless(RolledBack(D))
  <2>1. /\ RolledBack(D).UUID = D.UUID /\ RolledBack(D).Configuration = D.Configuration
        /\ RolledBack(D).pendingUUID = 0
        /\ RolledBack(D).pendingConfiguration = NoConfig
    BY DEF RolledBack, Device
  <2> QED
    BY <1>1, <2>1
<1>3. Harmless([D EXCEPT !.pendingUUID = 0, !.pendingConfiguration = NoConfig])
  <2> DEFINE E == [D EXCEPT !.pendingUUID = 0, !.pendingConfiguration = NoConfig]
  <2>1. /\ E.UUID = D.UUID /\ E.Configuration = D.Configuration
        /\ E.pendingUUID = 0 /\ E.pendingConfiguration = NoConfig
    BY DEF Device
  <2> HIDE DEF E
  <2> QED
    BY <1>1, <2>1 DEF E
<1>4. Harmless([D EXCEPT !.LastConfigurationChange = l])
  <2> DEFINE E == [D EXCEPT !.LastConfigurationChange = l]
  <2>1. /\ E.UUID = D.UUID /\ E.Configuration = D.Configuration
        /\ E.pendingUUID = D.pendingUUID
        /\ E.pendingConfiguration = D.pendingConfiguration
    BY DEF Device
  <2> HIDE DEF E
  <2> QED
    BY <1>1, <2>1 DEF E
<1> QED
  BY <1>2, <1>3, <1>4

(* The id that a push makes up for a device with a foreign configuration   *)
(* is not that configuration's.                                            *)
LEMMA PushedIsHarmless ==
    ASSUME OneConfiguration, NEW D \in Device, Harmless(D), seen \in Uuid,
           Newer(D, seen) <= MaxUuid,
           dev.content # Initial => seen = dev.uuid /\ D.UUID \in Made(dev.uuid)
    PROVE  /\ Harmless(Pushed(D))
           /\ dev.content # Initial => Newer(D, seen) \in Made(dev.uuid)
<1>1. dev.content # Initial => Newer(D, seen) \in Made(dev.uuid)
  BY ForeignIds DEF Newer
<1> QED
  BY <1>1, PushedFields DEF Harmless, Plain, MadeFor

-----------------------------------------------------------------------------
(* A thread that moves on with a harmless copy. *)

LEMMA MovesHarmlessly ==
    ASSUME IdInv, NEW t \in Thread, NEW l, NEW D, UNCHANGED dev,
           at' = [at EXCEPT ![t] = l], copy' = [copy EXCEPT ![t] = D],
           l \in Using => Harmless(D)
    PROVE  HarmlessCopies'
<1>1. at \in [Thread -> Label] /\ copy \in [Thread -> Device \cup {NoDevice}]
  BY DEF IdInv, ConfigInv, TypeOK
<1> SUFFICES ASSUME NEW s \in Thread, at'[s] \in Using, NEW E, E = copy'[s]
             PROVE  Harmless(E)'
  BY DEF HarmlessCopies
<1>2. Harmless(E)
  <2>1. CASE s = t
    BY <1>1, <2>1
  <2>2. CASE s # t
    BY <1>1, <2>2 DEF IdInv, OneConfiguration, HarmlessCopies
  <2> QED
    BY <2>1, <2>2
<1> QED
  BY <1>2 DEF Harmless

LEMMA WalksHarmlessly ==
    ASSUME IdInv, NEW t \in Thread, NEW l, UNCHANGED <<dev, copy>>,
           at' = [at EXCEPT ![t] = l], l \in Using => at[t] \in Using
    PROVE  HarmlessCopies'
<1>1. copy \in [Thread -> Device \cup {NoDevice}]
  BY DEF IdInv, ConfigInv, TypeOK
<1>2. copy' = [copy EXCEPT ![t] = copy[t]]
  BY <1>1
<1>3. l \in Using => Harmless(copy[t])
  BY DEF IdInv, OneConfiguration, HarmlessCopies
<1> QED
  BY <1>2, <1>3, MovesHarmlessly

(* A step that leaves the device and what it is sent alone. *)
LEMMA HarmlessStep ==
    ASSUME IdInv, ConfigInv', HarmlessCopies', UNCHANGED <<dev, queued, toDevice>>,
           Harmless(rec'), ForeignIsStrange'
    PROVE  IdInv'
<1>1. Harmless(rec)'
  BY DEF Harmless
<1> QED
  BY <1>1 DEF IdInv, OneConfiguration

(* ... and changes nothing that the connection knows. *)
LEMMA StrangeStep ==
    ASSUME IdInv, UNCHANGED <<dev, PendingUUID, fromDevice>>, seen' \in {0, seen},
           at'["handler"] \in {at["handler"]} \cup (Label \ {"read", "settle", "settled"}),
           at'["handler"] = "read" => seen' = seen
    PROVE  ForeignIsStrange'
  BY DEF IdInv, ForeignIsStrange

-----------------------------------------------------------------------------
(* Every operation but an operator's keeps the ids apart. *)

LEMMA InitApart == Init => IdInv
<1> SUFFICES ASSUME Init PROVE IdInv
  OBVIOUS
<1>1. OneConfiguration
  <2>1. Harmless(rec)
    BY DEF Init, Harmless, Plain, MadeFor, Made
  <2>2. HarmlessCopies
    BY DEF Init, HarmlessCopies, Using
  <2>3. dev.content = Initial \/ dev \in Strange
    BY DEF Init, Strange
  <2> QED
    BY <2>1, <2>2, <2>3 DEF Init, OneConfiguration
<1>2. ForeignIsStrange
  BY DEF Init, ForeignIsStrange, Thread
<1> QED
  BY <1>1, <1>2, InitTyped DEF IdInv

LEMMA RecordApart ==
    ASSUME IdInv, ConfigInv', NEW t \in Thread, Record(t)
    PROVE  IdInv'
<1> USE DEF IdInv
<1>0. /\ rec \in Device /\ now \in 0..MaxTime /\ Harmless(rec)
      /\ at \in [Thread -> Label]
  BY DEF ConfigInv, TypeOK, OneConfiguration
<1>1. CASE Change(t)
  <2>1. PICK l \in {"promote", "restore"}, D \in {Completed(rec), RolledBack(rec)} :
            Keep(t, D) /\ Goto(t, l)
    BY <1>1 DEF Change
  <2>2. Harmless(D)
    BY <1>0, <2>1, CompletedIsHarmless, RolledBackIsHarmless
  <2>3. HarmlessCopies'
    BY <1>1, <2>1, <2>2, MovesHarmlessly DEF Change, Keep, Goto
  <2>4. ForeignIsStrange'
    BY <1>0, <1>1, <2>1, StrangeStep DEF Change, Goto, Label
  <2> QED
    BY <1>0, <1>1, <2>3, <2>4, HarmlessStep DEF Change
<1>2. CASE SetCurrentConfig(t)
  <2>1. PICK l \in {"promoting", "restoring"} : Goto(t, l)
    BY <1>2 DEF SetCurrentConfig
  <2>2. HarmlessCopies'
    BY <1>2, <2>1, WalksHarmlessly DEF SetCurrentConfig, Goto, Using
  <2>3. ForeignIsStrange'
    BY <1>0, <1>2, <2>1, StrangeStep DEF SetCurrentConfig, Goto, Label
  <2> QED
    BY <1>0, <1>2, <2>2, <2>3, HarmlessStep DEF SetCurrentConfig
<1>3. CASE WriteChange(t)
  <2>1. /\ \E l \in {"idle", "done"} : at' = [at EXCEPT ![t] = l]
        /\ copy' = [copy EXCEPT ![t] = NoDevice] /\ seen' \in {seen, 0}
    BY <1>3, Returns DEF WriteChange, ConfigInv
  <2>2. Harmless(rec')
    BY <1>3 DEF WriteChange, OneConfiguration, HarmlessCopies, Using
  <2>3. HarmlessCopies'
    BY <1>3, <2>1, MovesHarmlessly DEF WriteChange, Using
  <2>4. t # "handler" => seen' = seen
    BY <1>3 DEF WriteChange, Return
  <2>5. ForeignIsStrange'
    BY <1>0, <1>3, <2>1, <2>4, StrangeStep DEF WriteChange, Label
  <2> QED
    BY <1>3, <2>2, <2>3, <2>5, HarmlessStep DEF WriteChange
<1> QED
  BY <1>1, <1>2, <1>3 DEF Record

(* PUT without a configuration. *)
LEMMA PutApart ==
    ASSUME NoOperator, IdInv, ConfigInv', (\E e \in Edits : Put(e)) \/ PutWrite \/ PutCache
    PROVE  IdInv'
<1> USE DEF IdInv
<1>0. /\ rec \in Device /\ Harmless(rec) /\ at \in [Thread -> Label]
      /\ "put" \in Thread
      /\ at["put"] \in Using => Harmless(copy["put"])
  BY DEF ConfigInv, TypeOK, OneConfiguration, HarmlessCopies, Thread
<1>1. CASE \E e \in Edits : Put(e)
  <2> DEFINE D == [rec EXCEPT !.LastConfigurationChange = now]
  <2>1. /\ Keep("put", D) /\ Goto("put", "annotate")
        /\ UNCHANGED <<rec, queued, PendingUUID, toDevice, fromDevice, dev, seen>>
    BY <1>1 DEF NoOperator, Put
  <2>2. Harmless(D)
    BY <1>0, RolledBackIsHarmless
  <2> HIDE DEF D
  <2>3. HarmlessCopies'
    BY <1>0, <2>1, <2>2, MovesHarmlessly DEF Keep, Goto
  <2>4. ForeignIsStrange'
    BY <1>0, <2>1, StrangeStep DEF Goto, Label
  <2> QED
    BY <1>0, <2>1, <2>3, <2>4, HarmlessStep
<1>2. CASE PutWrite
  <2>1. at["put"] \in Using /\ Goto("put", "cache")
    BY <1>2 DEF PutWrite, Using
  <2>2. HarmlessCopies'
    BY <1>0, <1>2, <2>1, WalksHarmlessly DEF PutWrite, Goto
  <2>3. ForeignIsStrange'
    BY <1>0, <1>2, <2>1, StrangeStep DEF PutWrite, Goto, Label
  <2> QED
    BY <1>0, <1>2, <2>1, <2>2, <2>3, HarmlessStep DEF PutWrite
<1>3. CASE PutCache
  <2>1. HarmlessCopies'
    BY <1>0, <1>3, MovesHarmlessly DEF PutCache, Goto, Keep, Using
  <2>2. ForeignIsStrange'
    BY <1>0, <1>3, StrangeStep DEF PutCache, Goto, Label
  <2> QED
    BY <1>0, <1>3, <2>1, <2>2, HarmlessStep DEF PutCache
<1> QED
  BY <1>1, <1>2, <1>3

LEMMA HandlerApart ==
    ASSUME IdInv, ConfigInv', Handler
    PROVE  IdInv'
<1> USE DEF IdInv
<1>0. /\ rec \in Device /\ Harmless(rec) /\ at \in [Thread -> Label]
      /\ seen \in Uuid /\ "handler" \in Thread
      /\ at["handler"] \in Using => Harmless(copy["handler"])
  BY DEF ConfigInv, TypeOK, OneConfiguration, HarmlessCopies, Thread
<1>1. fromDevice \in Seq(FromDevice) /\ toDevice \in Seq(ToDevice)
  BY DEF ConfigInv, TypeOK, FromDevice, ToDevice
(* What is left of the device's messages. *)
<1>2. ASSUME NEW k, Incoming(k), Receive, UNCHANGED dev, dev.content # Initial
      PROVE  /\ k # "result" => Head(fromDevice).uuid = dev.uuid
             /\ \A i \in 1..Len(fromDevice') :
                  fromDevice'[i].kind # "result" => fromDevice'[i].uuid = dev'.uuid
  <2>1. /\ Head(fromDevice) = fromDevice[1] /\ 1 \in 1..Len(fromDevice)
        /\ \A i \in 1..Len(Tail(fromDevice)) :
              Tail(fromDevice)[i] = fromDevice[i + 1] /\ i + 1 \in 1..Len(fromDevice)
    BY <1>1, <1>2, HeadTail DEF Incoming
  <2>2. \A i \in 1..Len(fromDevice) :
            fromDevice[i].kind # "result" => fromDevice[i].uuid = dev.uuid
    BY <1>2 DEF ForeignIsStrange
  <2>3. Head(fromDevice).kind = k
    BY <1>2 DEF Incoming
  <2> QED
    BY <1>2, <2>1, <2>2, <2>3 DEF Receive
<1>3. CASE Process_connect
  <2>1. HarmlessCopies'
    BY <1>0, <1>3, MovesHarmlessly DEF Process_connect, Goto, Keep
  <2>2. at'["handler"] = "update"
    BY <1>0, <1>3 DEF Process_connect, Goto
  <2>3. ForeignIsStrange'
    BY <1>2, <1>3, <2>2 DEF Process_connect, ForeignIsStrange
  <2> QED
    BY <1>0, <1>3, <2>1, <2>3, HarmlessStep DEF Process_connect
<1>4. CASE UpdateDevice
  <2>1. Harmless(rec')
    BY <1>0, <1>4 DEF UpdateDevice, Using
  <2>2. HarmlessCopies'
    BY <1>0, <1>4, MovesHarmlessly DEF UpdateDevice, Goto, Keep, Using
  <2>3. ForeignIsStrange'
    BY <1>0, <1>4, StrangeStep DEF UpdateDevice, Goto, Label
  <2> QED
    BY <1>4, <2>1, <2>2, <2>3, HarmlessStep DEF UpdateDevice
<1>5. CASE Process_state
  <2>1. HarmlessCopies'
    BY <1>0, <1>5, WalksHarmlessly DEF Process_state, Goto, Using
  <2>2. at'["handler"] = "look"
    BY <1>0, <1>5 DEF Process_state, Goto
  <2>3. ForeignIsStrange'
    BY <1>2, <1>5, <2>2 DEF Process_state, ForeignIsStrange
  <2> QED
    BY <1>0, <1>5, <2>1, <2>3, HarmlessStep DEF Process_state
<1>6. CASE PostCommandResult
  <2>1. HarmlessCopies'
    <3>1. UNCHANGED <<at, copy, dev>>
      BY <1>6 DEF PostCommandResult
    <3> QED
      BY <3>1 DEF OneConfiguration, HarmlessCopies, Harmless
  <2>2. ForeignIsStrange'
    BY <1>2, <1>6 DEF PostCommandResult, ForeignIsStrange
  <2> QED
    BY <1>0, <1>6, <2>1, <2>2, HarmlessStep DEF PostCommandResult
<1>7. CASE LookInCache
  <2>1. CASE HandlerDone
    <3>1. HarmlessCopies'
      BY <1>0, <1>7, <2>1, MovesHarmlessly
         DEF LookInCache, HandlerDone, Goto, Keep, Using
    <3>2. at'["handler"] = "idle" /\ seen' = 0 /\ PendingUUID' \in {0, PendingUUID}
      BY <1>0, <1>7, <2>1 DEF LookInCache, HandlerDone, Goto
    <3>3. ForeignIsStrange'
      BY <1>7, <3>2 DEF LookInCache, ForeignIsStrange
    <3> QED
      BY <1>0, <1>7, <3>1, <3>3, HarmlessStep DEF LookInCache
  <2>2. CASE Goto("handler", "read") /\ seen # 0 /\ UNCHANGED <<PendingUUID, copy, seen>>
    <3>1. HarmlessCopies'
      BY <1>0, <1>7, <2>2, WalksHarmlessly DEF LookInCache, Goto, Using
    <3>2. at'["handler"] = "read"
      BY <1>0, <2>2 DEF Goto
    <3>3. ForeignIsStrange'
      BY <1>7, <2>2, <3>2 DEF LookInCache, ForeignIsStrange
    <3> QED
      BY <1>0, <1>7, <3>1, <3>3, HarmlessStep DEF LookInCache
  <2> QED
    BY <1>7, <2>1, <2>2 DEF LookInCache
<1>8. CASE LookForUpgrade
  <2> DEFINE D == Repaired(rec)
  <2>1. D \in Device /\ Harmless(D) /\ (dev.content # Initial => D.UUID \in Made(dev.uuid))
    BY <1>0, RepairedIsDevice, RepairedIsHarmless
  <2>2. dev.content # Initial =>
            seen = dev.uuid /\ PendingUUID \in Made(dev.uuid) \cup {0}
    BY <1>8 DEF LookForUpgrade, ForeignIsStrange
  <2>3. /\ UNCHANGED <<rec, queued, toDevice, fromDevice, dev, seen>>
        /\ at["handler"] = "read"
    BY <1>8 DEF LookForUpgrade
  <2> HIDE DEF D
  (* The device reports what was pushed, or what the record has. *)
  <2>4. CASE /\ seen \in {PendingUUID, D.UUID}
             /\ \/ Goto("handler", "complete") /\ UNCHANGED copy
                \/ /\ Goto("handler", "settle")
                   /\ Keep("handler", [D EXCEPT !.pendingUUID = 0,
                                                !.pendingConfiguration = NoConfig])
    <3>1. dev.content = Initial
      BY <2>1, <2>2, <2>4, ForeignIds
    <3>2. ForeignIsStrange'
      BY <2>3, <3>1 DEF ForeignIsStrange
    <3>3. HarmlessCopies'
      <4>1. CASE Goto("handler", "complete") /\ UNCHANGED copy
        BY <1>0, <2>3, <4>1, WalksHarmlessly DEF Goto, Using
      <4>2. CASE /\ Goto("handler", "settle")
                 /\ Keep("handler", [D EXCEPT !.pendingUUID = 0,
                                              !.pendingConfiguration = NoConfig])
        BY <1>0, <2>1, <2>3, <4>2, RolledBackIsHarmless, MovesHarmlessly DEF Goto, Keep
      <4> QED
        BY <2>4, <4>1, <4>2
    <3> QED
      BY <1>0, <2>3, <3>2, <3>3, HarmlessStep
  <2>5. CASE /\ Newer(D, seen) <= MaxUuid /\ PendingUUID' = Newer(D, seen)
             /\ Keep("handler", Pushed(D)) /\ Goto("handler", "push")
    <3>1. /\ Harmless(Pushed(D))
          /\ dev.content # Initial => PendingUUID' \in Made(dev.uuid)
      BY <1>0, <2>1, <2>2, <2>5, PushedIsHarmless
    <3>2. HarmlessCopies'
      BY <1>0, <2>3, <2>5, <3>1, MovesHarmlessly DEF Goto, Keep
    <3>3. at'["handler"] = "push"
      BY <1>0, <2>5 DEF Goto
    <3>4. ForeignIsStrange'
      BY <2>3, <3>1, <3>3 DEF ForeignIsStrange
    <3> QED
      BY <1>0, <2>3, <3>2, <3>4, HarmlessStep
  <2> QED
    BY <1>8, <2>4, <2>5 DEF LookForUpgrade, D
<1>9. CASE Settle \/ Push
  <2>1. PICK l \in {"settled", "send"} :
            /\ Goto("handler", l) /\ at["handler"] \in {"settle", "push"}
            /\ l = "settled" => at["handler"] = "settle"
    BY <1>9 DEF Settle, Push
  <2>2. /\ rec' = copy["handler"]
        /\ UNCHANGED <<queued, PendingUUID, toDevice, fromDevice, dev, copy, seen>>
    BY <1>9 DEF Settle, Push
  <2>3. Harmless(rec')
    BY <1>0, <2>1, <2>2 DEF Using
  <2>4. HarmlessCopies'
    BY <1>0, <2>1, <2>2, WalksHarmlessly DEF Goto, Using
  <2>5. at'["handler"] = l
    BY <1>0, <2>1 DEF Goto
  <2>6. ForeignIsStrange'
    BY <2>1, <2>2, <2>5 DEF ForeignIsStrange
  <2> QED
    BY <2>2, <2>3, <2>4, <2>6, HarmlessStep
<1>10. CASE Settled \/ SendPush
  <2>1. /\ HandlerDone /\ UNCHANGED <<rec, PendingUUID, fromDevice, dev>>
        /\ queued' = queued
    BY <1>10 DEF Settled, SendPush, OneConfiguration
  <2>2. HarmlessCopies'
    BY <1>0, <2>1, MovesHarmlessly DEF HandlerDone, Goto, Keep, Using
  <2>3. ForeignIsStrange'
    BY <1>0, <2>1, StrangeStep DEF HandlerDone, Goto, Label
  <2>4. \A i \in 1..Len(toDevice') : toDevice'[i].config.content = Initial
    <3>1. CASE UNCHANGED toDevice
      BY <3>1 DEF OneConfiguration
    <3>2. CASE /\ at["handler"] = "send"
               /\ toDevice' = Append(toDevice,
                                     Frame("manager", copy["handler"].Configuration))
      <4> DEFINE m == Frame("manager", copy["handler"].Configuration)
      <4>1. copy["handler"] \in Device
        BY <1>0, <3>2 DEF ConfigInv, Copies, Fit, Using
      <4>2. m \in ToDevice
        BY <4>1, Fields, FrameIn DEF Thread
      <4>3. m.config.content = Initial
        BY <1>0, <3>2 DEF Frame, Harmless, Plain, Using
      <4> HIDE DEF m
      <4>4. /\ Len(toDevice') = Len(toDevice) + 1 /\ Len(toDevice) \in Nat
            /\ \A i \in 1..Len(toDevice) : toDevice'[i] = toDevice[i]
            /\ toDevice'[Len(toDevice) + 1] = m
        BY <1>1, <3>2, <4>2, Appended DEF m
      <4> QED
        BY <4>3, <4>4 DEF OneConfiguration
    <3> QED
      BY <1>10, <3>1, <3>2 DEF Settled, SendPush
  <2>5. Harmless(rec)'
    BY <1>0, <2>1 DEF Harmless
  <2> QED
    BY <2>1, <2>2, <2>3, <2>4, <2>5 DEF OneConfiguration
<1> QED
  BY <1>3, <1>4, <1>5, <1>6, <1>7, <1>8, <1>9, <1>10 DEF Handler

LEMMA ManagerApart ==
    ASSUME IdInv, ConfigInv', HandleResponse \/ onCommandRunnerTimer
    PROVE  IdInv'
<1> USE DEF IdInv
<1>0. Harmless(rec) /\ queued = NoConfig /\ at \in [Thread -> Label]
  BY DEF ConfigInv, TypeOK, OneConfiguration
<1>1. HandleResponse
  BY <1>0 DEF onCommandRunnerTimer
<1>2. /\ queued' = queued
      /\ UNCHANGED <<rec, PendingUUID, toDevice, fromDevice, dev, copy, seen>>
  BY <1>0, <1>1 DEF HandleResponse
<1>3. \/ UNCHANGED at
      \/ \E t \in Thread, l \in {"rollback", "complete"} : at' = [at EXCEPT ![t] = l]
  <2> DEFINE r == Head(ResponseQueue_)
             then == IF r.uuid = 2 THEN "rollback" ELSE "complete"
  <2>1. ResponseQueue_ \in Seq(Response) /\ ResponseQueue_ # <<>>
    BY <1>1 DEF HandleResponse, ConfigInv, TypeOK, Response
  <2>2. r \in Response
    BY <2>1, HeadTail
  <2>3. r.to \in Thread /\ "manager" \in Thread /\ then \in {"rollback", "complete"}
    BY <2>2 DEF Response, Thread
  <2>4. UNCHANGED at \/ Goto("manager", then) \/ Goto(r.to, then)
    BY <1>1 DEF HandleResponse
  <2> HIDE DEF r, then
  <2> QED
    BY <2>3, <2>4 DEF Goto
<1>4. CASE UNCHANGED at
  <2>1. HarmlessCopies'
    BY <1>2, <1>4 DEF OneConfiguration, HarmlessCopies, Harmless
  <2>2. ForeignIsStrange'
    BY <1>2, <1>4 DEF ForeignIsStrange
  <2> QED
    BY <1>0, <1>2, <2>1, <2>2, HarmlessStep
<1>5. ASSUME NEW t \in Thread, NEW l \in {"rollback", "complete"},
             at' = [at EXCEPT ![t] = l]
      PROVE  IdInv'
  <2>1. HarmlessCopies'
    BY <1>2, <1>5, WalksHarmlessly DEF Using
  <2>2. ForeignIsStrange'
    BY <1>0, <1>2, <1>5, StrangeStep DEF Label
  <2> QED
    BY <1>0, <1>2, <2>1, <2>2, HarmlessStep
<1> QED
  BY <1>3, <1>4, <1>5

(* The device takes what the gateway has, or keeps what it runs. *)
LEMMA LinkApart ==
    ASSUME IdInv, ConfigInv', Answer \/ Report \/ Connect \/ Drop \/ Tick
    PROVE  IdInv'
<1> USE DEF IdInv
<1>0. /\ toDevice \in Seq(ToDevice) /\ fromDevice \in Seq(FromDevice)
      /\ Harmless(rec) /\ HarmlessCopies
  BY DEF ConfigInv, TypeOK, FromDevice, ToDevice, OneConfiguration
<1>1. UNCHANGED <<rec, queued, PendingUUID, at, copy, seen>>
  BY DEF Answer, Report, Connect, Drop, Tick
<1>2. UNCHANGED dev => Harmless(rec)' /\ HarmlessCopies'
  BY <1>0, <1>1 DEF HarmlessCopies, Harmless
<1>3. CASE Answer
  <2>1. /\ Head(toDevice) = toDevice[1] /\ 1 \in 1..Len(toDevice)
        /\ \A i \in 1..Len(toDevice') :
              toDevice'[i] = toDevice[i + 1] /\ i + 1 \in 1..Len(toDevice)
    BY <1>0, <1>3, HeadTail DEF Answer
  <2>2. /\ \A i \in 1..Len(toDevice') : toDevice'[i].config.content = Initial
        /\ Head(toDevice).config.content = Initial
    BY <2>1 DEF OneConfiguration
  <2>3. CASE dev' = Head(toDevice).config
    <3>1. dev'.content = Initial
      BY <2>2, <2>3
    <3>2. Harmless(rec)' /\ HarmlessCopies'
      BY <1>0, <1>1, <3>1 DEF HarmlessCopies, Harmless
    <3> QED
      BY <1>1, <2>2, <3>1, <3>2 DEF OneConfiguration, ForeignIsStrange
  <2>4. CASE dev' = dev
    <3>1. OneConfiguration'
      BY <1>1, <1>2, <2>2, <2>4 DEF OneConfiguration
    <3>2. PICK e \in {0, 2} :
              fromDevice' = Append(fromDevice, [kind |-> "result",
                                                to |-> Head(toDevice).to, uuid |-> e])
      BY <1>3 DEF Answer
    <3> DEFINE m == [kind |-> "result", to |-> Head(toDevice).to, uuid |-> e]
    <3>3. m.kind = "result" /\ m \in FromDevice
      <4>1. Head(toDevice) \in ToDevice
        BY <1>0, <1>3, HeadTail DEF Answer
      <4>2. Head(toDevice).to \in Thread /\ e \in Uuid
        BY <4>1, ConfigAssumption DEF ToDevice, Uuid
      <4> QED
        BY <4>2 DEF FromDevice
    <3>4. fromDevice' = Append(fromDevice, m)
      BY <3>2
    <3> HIDE DEF m
    <3>5. /\ Len(fromDevice') = Len(fromDevice) + 1 /\ Len(fromDevice) \in Nat
          /\ \A i \in 1..Len(fromDevice) : fromDevice'[i] = fromDevice[i]
          /\ fromDevice'[Len(fromDevice) + 1] = m
      BY <1>0, <3>3, <3>4, Appended
    <3>6. ForeignIsStrange'
      BY <1>1, <2>4, <3>3, <3>5 DEF ForeignIsStrange
    <3> QED
      BY <3>1, <3>6
  <2> QED
    BY <1>3, <2>3, <2>4 DEF Answer
<1>4. CASE Report
  <2> DEFINE m == Message("state", dev.uuid)
  <2>1. m \in FromDevice /\ m.uuid = dev.uuid
    BY MessageIn, ConfigFields DEF Message, ConfigInv, TypeOK
  <2>2. UNCHANGED <<dev, toDevice>> /\ fromDevice' = Append(fromDevice, m)
    BY <1>4 DEF Report
  <2> HIDE DEF m
  <2>3. /\ Len(fromDevice') = Len(fromDevice) + 1 /\ Len(fromDevice) \in Nat
        /\ \A i \in 1..Len(fromDevice) : fromDevice'[i] = fromDevice[i]
        /\ fromDevice'[Len(fromDevice) + 1] = m
    BY <1>0, <2>1, <2>2, Appended
  <2>4. OneConfiguration'
    BY <1>1, <1>2, <2>2 DEF OneConfiguration
  <2>5. ForeignIsStrange'
    BY <1>1, <2>1, <2>2, <2>3 DEF ForeignIsStrange
  <2> QED
    BY <2>4, <2>5
<1>5. CASE Connect
  <2>1. UNCHANGED <<dev, toDevice>> /\ fromDevice' = <<Message("connect", dev.uuid)>>
    BY <1>5 DEF Connect
  <2>2. OneConfiguration'
    BY <1>1, <1>2, <2>1 DEF OneConfiguration
  <2>3. ForeignIsStrange'
    BY <1>1, <2>1 DEF ForeignIsStrange, Message
  <2> QED
    BY <2>2, <2>3
<1>6. CASE Drop
  <2>1. UNCHANGED dev /\ toDevice' = <<>> /\ fromDevice' = <<>>
    BY <1>6 DEF Drop
  <2>2. OneConfiguration'
    BY <1>1, <1>2, <2>1 DEF OneConfiguration
  <2>3. ForeignIsStrange'
    BY <1>1, <2>1 DEF ForeignIsStrange
  <2> QED
    BY <2>2, <2>3
<1>7. CASE Tick
  <2>1. UNCHANGED <<dev, toDevice, fromDevice>>
    BY <1>7 DEF Tick
  <2>2. OneConfiguration'
    BY <1>1, <1>2, <2>1 DEF OneConfiguration
  <2>3. ForeignIsStrange'
    BY <1>1, <2>1 DEF ForeignIsStrange
  <2> QED
    BY <2>2, <2>3
<1> QED
  BY <1>3, <1>4, <1>5, <1>6, <1>7

LEMMA NextApart ==
    ASSUME NoOperator
    PROVE  IdInv /\ [Next]_vars => IdInv'
<1> SUFFICES ASSUME IdInv, [Next]_vars PROVE IdInv'
  OBVIOUS
<1>1. ConfigInv'
  BY NextTyped DEF IdInv
<1>2. CASE UNCHANGED vars
  BY <1>1, <1>2 DEF vars, IdInv, OneConfiguration, ForeignIsStrange,
                    HarmlessCopies, Harmless
<1>3. CASE Next
  <2>1. Calls = {}
    BY DEF NoOperator
  <2> QED
    BY <1>1, <1>3, <2>1, RecordApart, PutApart, HandlerApart, ManagerApart, LinkApart
       DEF Next
<1> QED
  BY <1>2, <1>3

LEMMA ApartNamesOne == IdInv => UuidNamesOneConfiguration
<1> SUFFICES ASSUME IdInv, dev.uuid = rec.UUID
             PROVE  dev.content = rec.Configuration.content
  BY DEF UuidNamesOneConfiguration
<1>1. dev.content # Initial => rec.UUID \in Made(dev.uuid) \cup {0}
  BY DEF IdInv, OneConfiguration, Harmless, MadeFor
<1>2. dev.content = Initial
  BY <1>1, ForeignIds DEF IdInv
<1> QED
  BY <1>2 DEF IdInv, OneConfiguration, Harmless, Plain

(* As long as no operator sends a configuration, the ids that              *)
(* LookForUpgrade makes up (the device's plus 2) keep apart what the       *)
(* gateway has and what a device brought from another controller: when     *)
(* both sides name the same id they have the same configuration, however   *)
(* the handler, the manager and the writers of notes and labels (PUT       *)
(* without a configuration) interleave.  With operators it is not so: the  *)
(* run config_identity shows how.                                          *)
THEOREM IdsAreNotConfused ==
    ASSUME Calls = {}, Edits \subseteq {NoContent}
    PROVE  Spec => []UuidNamesOneConfiguration
<1>1. NoOperator
  BY DEF NoOperator
<1>2. IdInv /\ [Next]_vars => IdInv'
  BY <1>1, NextApart
<1> QED
  BY InitApart, <1>2, ApartNamesOne, PTL DEF Spec

=============================================================================
