---------------------------- MODULE DeviceStore ----------------------------
(***************************************************************************)
(* The rows of a device and the cache of serial numbers                    *)
(* (storage_device.cpp, storage_capabilities.cpp, SerialNumberCache.cpp,   *)
(* RESTAPI_device_handler.cpp, RESTAPI_devices_handler.cpp).               *)
(*                                                                         *)
(* A device has a row in Devices and rows in five other tables.  It comes  *)
(* into being when it connects (auto-provisioning) or by a POST, and goes  *)
(* by a DELETE that runs one transaction per table and then updates the    *)
(* cache of serial numbers.  Nothing spans the transactions: a device that *)
(* is connected writes rows while it is being deleted.                     *)
(*                                                                         *)
(* A serial number is a tuple of SerialDigits digits; the code has 12      *)
(* hexadecimal digits in a 64-bit word of 16.                              *)
(***************************************************************************)
EXTENDS Integers, Sequences, SequencesExt, FiniteSets, FiniteSetsExt

CONSTANTS Base, SerialDigits, WordDigits,
          StoredDevice,            \* the serial numbers of the model
          Simulated,         \* those of simulated devices
          Connecting,        \* those of devices that connect
          Caller,            \* threads of the REST server
          AutoProvisioning,
          EventTable,        \* the tables that connected devices fill
          MaxContact         \* bound on lastRecordedContact

ASSUME StoreAssumption ==
  /\ Base \in Nat \ {0, 1} /\ SerialDigits \in Nat \ {0}
  /\ WordDigits \in Nat /\ WordDigits >= SerialDigits
  /\ StoredDevice \subseteq [1..SerialDigits -> 0..(Base - 1)]
  /\ Simulated \subseteq StoredDevice /\ Connecting \subseteq StoredDevice
  /\ EventTable \subseteq {"Statistics", "CommandList", "HealthChecks", "DeviceLogs"}

VARIABLES
  deviceRows,          \* the tables: for each, the devices it has rows of
  contact,       \* Devices.lastRecordedContact, 0: never
  SNs_,          \* SerialNumberCache: sorted numbers
  Reverse_SNs_,  \* SerialNumberCache: sorted numbers of the reversed digits
  conn,          \* how far the connection of a device has come
  job,           \* what a REST thread is doing
  raced          \* ghost: devices created during, or spared by, a deletion

dsVars == <<deviceRows, contact, SNs_, Reverse_SNs_, conn, job, raced>>

TableNames == <<"Devices", "Statistics", "CommandList", "HealthChecks",
                "Capabilities", "DeviceLogs">>

Table == ToSet(TableNames)

Free == [kind |-> "free"]

----------------------------------------------------------------------------
\* SerialNumberCache

\* std::stoull of a string of digits
Number(S) ==
  LET n[i \in 0..Len(S)] == IF i = 0 THEN 0 ELSE n[i - 1] * Base + S[i] IN n[Len(S)]

\* N >>= 4, i times
Shifted(N, i) == LET s[k \in 0..i] == IF k = 0 THEN N ELSE s[k - 1] \div Base IN s[i]

\* The last k digits of N, backwards
LastDigits(N, k) == [i \in 1..k |-> Shifted(N, i - 1) % Base]

IntToSerialNumber(n) == Reverse(LastDigits(n, SerialDigits))

ReverseSerialNumber(S) == Reverse(S)

\* Mutated form of ReverseNumber
ReverseNumberMutant(N) == Number(LastDigits(N, WordDigits))

\* Reverse(uint64_t): the digits of the whole word backwards, shifted down
ReverseNumber(N) == Shifted(Number(LastDigits(N, WordDigits)), WordDigits - SerialDigits)

\* std::lower_bound: the first position whose element is not below n
LowerBound(A, n) == 1 + Cardinality({i \in DOMAIN A : A[i] < n})

\* Mutated form of Insert_
Insert_Mutant(A, n) == Append(A, n)

Insert_(A, n) == InsertAt(A, LowerBound(A, n), n)

Erase(A, n) == IF n \in ToSet(A) THEN RemoveAt(A, CHOOSE i \in DOMAIN A : A[i] = n) ELSE A

\* Mutated form of AddSerialNumber: the end of the array taken for a hit
AddSerialNumberMutant(S) ==
  IF Number(S) \in ToSet(SNs_) \/ (SNs_ # <<>> /\ LowerBound(SNs_, Number(S)) > Len(SNs_))
  THEN UNCHANGED <<SNs_, Reverse_SNs_>>
  ELSE /\ SNs_' = Insert_(SNs_, Number(S))
       /\ Reverse_SNs_' = Insert_(Reverse_SNs_, Number(ReverseSerialNumber(S)))

AddSerialNumber(S) ==
  IF Number(S) \in ToSet(SNs_)
  THEN UNCHANGED <<SNs_, Reverse_SNs_>>
  ELSE /\ SNs_' = Insert_(SNs_, Number(S))
       /\ Reverse_SNs_' = Insert_(Reverse_SNs_, Number(ReverseSerialNumber(S)))

\* Mutated form of DeleteSerialNumber: the last element is not looked at
DeleteSerialNumberMutant(S) ==
  IF SNs_ = <<>> \/ Number(S) \notin ToSet(Front(SNs_))
  THEN UNCHANGED <<SNs_, Reverse_SNs_>>
  ELSE /\ SNs_' = Erase(SNs_, Number(S))
       /\ Reverse_SNs_' = Erase(Reverse_SNs_, Number(ReverseSerialNumber(S)))

DeleteSerialNumber(S) ==
  IF Number(S) \notin ToSet(SNs_)
  THEN UNCHANGED <<SNs_, Reverse_SNs_>>
  ELSE /\ SNs_' = Erase(SNs_, Number(S))
       /\ Reverse_SNs_' = Erase(Reverse_SNs_, Number(ReverseSerialNumber(S)))

\* The numbers of A from the lower bound on, as long as they begin with S
ReturnNumbers(S, HowMany, A, ReverseResult) ==
  LET Result(n) == IF ReverseResult THEN ReverseNumber(n) ELSE n
      TSN(n) == IF ReverseResult
                THEN ReverseSerialNumber(IntToSerialNumber(ReverseNumber(n)))
                ELSE IntToSerialNumber(n)
      LB == LowerBound(A, Number(S \o [i \in 1..(SerialDigits - Len(S)) |-> 0]))
      stop == Min({i \in LB..(Len(A) + 1) :
                     \/ i = Len(A) + 1
                     \/ i = LB + HowMany
                     \/ ~IsPrefix(S, TSN(A[i]))})
  IN  IF Len(S) = SerialDigits
      THEN IF Number(S) \in ToSet(A) THEN <<Result(Number(S))>> ELSE <<>>
      ELSE [i \in 1..(stop - LB) |-> Result(A[LB + i - 1])]

\* S after its '*' when fromEnd
FindNumbers(S, fromEnd, HowMany) ==
  IF S = <<>> THEN <<>>
  ELSE IF fromEnd THEN ReturnNumbers(Reverse(S), HowMany, Reverse_SNs_, TRUE)
  ELSE ReturnNumbers(S, HowMany, SNs_, FALSE)

\* The numbers of N in ascending order: the n-th has n - 1 below it
Ascending(N) ==
  [i \in 1..Cardinality(N) |-> CHOOSE n \in N : Cardinality({m \in N : m < n}) = i - 1]

\* Start: UpdateSerialNumberCache adds every row of Devices
Loaded(D) == Ascending({Number(d) : d \in D})

----------------------------------------------------------------------------
DsInit ==
  /\ deviceRows = [t \in Table |-> {}]
  /\ contact = [d \in StoredDevice |-> 0]
  /\ SNs_ = <<>> /\ Reverse_SNs_ = <<>>
  /\ conn = [d \in StoredDevice |-> "none"]
  /\ job = [c \in Caller |-> Free]
  /\ raced = {}

\* The device a deletion is working on
Current(j) == Head(j.list)

Deleting(d) == {c \in Caller : job[c].kind = "delete" /\ Current(job[c]) = d}

Position(order, t) == CHOOSE i \in DOMAIN order : order[i] = t

\* DeleteSimulatedDevice: the rows of the other tables go while Devices
\* still says which devices are simulated
Statements == <<"CommandList", "HealthChecks", "Statistics", "DeviceLogs",
                "Capabilities", "Devices">>

\* A row of d in table t, and the deletions that have passed t already
Write(d, t) ==
  /\ deviceRows' = [deviceRows EXCEPT ![t] = @ \cup {d}]
  /\ job' = [c \in Caller |->
       IF \/ c \in Deleting(d) /\ job[c].step > Position(TableNames, t)
          \/ /\ job[c].kind = "simulated" /\ d \in Simulated
             /\ job[c].step > Position(Statements, t)
       THEN [job[c] EXCEPT !.clean = FALSE] ELSE job[c]]

\* CreateDevice: INSERT ... ON CONFLICT DO NOTHING
InsertDevice(d) ==
  /\ Write(d, "Devices")
  /\ contact' = [contact EXCEPT ![d] = IF d \in deviceRows["Devices"] THEN @ ELSE 0]
  /\ raced' = IF \E c \in Deleting(d) : job[c].step \in 2..7 THEN raced \cup {d} ELSE raced

\* CreateDevice, after its transaction
ListDevice(d) ==
  /\ AddSerialNumber(d)
  /\ UNCHANGED <<deviceRows, contact>>

\* Process_connect: GetDevice
Connect(d) ==
  /\ conn[d] = "none"
  /\ conn' = [conn EXCEPT ![d] = IF d \in deviceRows["Devices"] THEN "known"
                                 ELSE IF AutoProvisioning THEN "unknown" ELSE "none"]
  /\ UNCHANGED <<deviceRows, contact, SNs_, Reverse_SNs_, job, raced>>

\* CreateDefaultDevice: CreateDeviceCapabilities, then CreateDevice
CreateDefaultDevice(d) ==
  \/ /\ conn[d] = "unknown"
     /\ Write(d, "Capabilities")
     /\ conn' = [conn EXCEPT ![d] = "insert"]
     /\ UNCHANGED <<contact, SNs_, Reverse_SNs_, raced>>
  \/ /\ conn[d] = "insert"
     /\ InsertDevice(d)
     /\ conn' = [conn EXCEPT ![d] = "list"]
     /\ UNCHANGED <<SNs_, Reverse_SNs_>>
  \/ /\ conn[d] = "list"
     /\ ListDevice(d)
     /\ conn' = [conn EXCEPT ![d] = "on"]
     /\ job' = [c \in Caller |-> IF c \in Deleting(d) /\ job[c].step > 7
                                 THEN [job[c] EXCEPT !.clean = FALSE] ELSE job[c]]
     /\ UNCHANGED raced

UpdateDeviceCapabilities(d) ==
  /\ conn[d] = "known"
  /\ Write(d, "Capabilities")
  /\ conn' = [conn EXCEPT ![d] = "on"]
  /\ UNCHANGED <<contact, SNs_, Reverse_SNs_, raced>>

\* A state, a health check, a log or a command of a connected device
Record(d, t) ==
  /\ conn[d] = "on"
  /\ Write(d, t)
  /\ UNCHANGED <<contact, SNs_, Reverse_SNs_, conn, raced>>

\* EndConnection: SetDeviceLastRecordedContact updates the row, if it is there
SetDeviceLastRecordedContact(d) ==
  /\ conn' = [conn EXCEPT ![d] = "none"]
  /\ \E n \in 1..MaxContact :
       contact' = [contact EXCEPT ![d] = IF d \in deviceRows["Devices"] THEN n ELSE @]

Hangup(d) ==
  /\ conn[d] = "on"
  /\ SetDeviceLastRecordedContact(d)
  /\ UNCHANGED <<deviceRows, SNs_, Reverse_SNs_, job, raced>>

----------------------------------------------------------------------------
\* The REST API

Start(c, list, close) ==
  /\ job[c] = Free
  /\ job' = [job EXCEPT ![c] =
       IF list = <<>> THEN Free
       ELSE [kind |-> "delete", list |-> list, step |-> 1, close |-> close, clean |-> TRUE]]
  /\ UNCHANGED <<deviceRows, contact, SNs_, Reverse_SNs_, conn, raced>>

\* DELETE /device/{d}
DoDeleteDevice(c) == \E d \in StoredDevice : Start(c, <<d>>, TRUE)

\* DELETE /devices?select=...: no connection is closed
DoDeleteSelect(c) == \E D \in SUBSET StoredDevice : Start(c, SetToSeq(D), FALSE)

\* DELETE /devices?macPattern=...: the devices P that match the pattern
DeleteDevicesPattern(c) ==
  \E P \in SUBSET StoredDevice, SimulatedOnly \in BOOLEAN :
    Start(c, SetToSeq({d \in deviceRows["Devices"] \cap P :
                         SimulatedOnly => d \in Simulated}), FALSE)

\* DELETE /devices?oldestContact=...: without simulatedOnly the SELECT has
\* no WHERE and fails, and nothing is deleted
DeleteDevicesOlder(c) ==
  \E OlderContact \in 1..(MaxContact + 1), SimulatedOnly \in BOOLEAN :
    Start(c, SetToSeq({d \in deviceRows["Devices"] :
                         /\ SimulatedOnly /\ d \in Simulated
                         /\ contact[d] # 0 /\ contact[d] < OlderContact}), FALSE)

\* DeleteDevice: one transaction per table; a failure is passed over
DeleteStatement(c) ==
  LET j == job[c]  d == Current(j)  t == TableNames[j.step] IN
  /\ j.kind = "delete" /\ j.step \in DOMAIN TableNames
  /\ \/ /\ deviceRows' = [deviceRows EXCEPT ![t] = @ \ {d}]
        /\ job' = [job EXCEPT ![c].step = @ + 1]
        /\ UNCHANGED raced
     \/ /\ job' = [job EXCEPT ![c].step = @ + 1, ![c].clean = FALSE]
        /\ raced' = IF t = "Devices" THEN raced \cup {d} ELSE raced
        /\ UNCHANGED deviceRows
  /\ UNCHANGED <<contact, SNs_, Reverse_SNs_, conn>>

DeleteListed(c) ==
  /\ job[c].kind = "delete" /\ job[c].step = 7
  /\ DeleteSerialNumber(Current(job[c]))
  /\ job' = [job EXCEPT ![c].step = 8]
  /\ UNCHANGED <<deviceRows, contact, conn, raced>>

\* The end of DeleteDevice, and for DELETE /device the disconnection; a
\* connect handler that is running goes on
DeleteDone(c) ==
  LET j == job[c]  d == Current(j) IN
  /\ j.kind = "delete" /\ j.step = 8
  /\ IF j.close /\ conn[d] = "on"
     THEN SetDeviceLastRecordedContact(d) ELSE UNCHANGED <<conn, contact>>
  /\ job' = [job EXCEPT ![c] =
       IF Tail(j.list) = <<>> THEN Free
       ELSE [j EXCEPT !.list = Tail(@), !.step = 1, !.clean = TRUE]]
  /\ UNCHANGED <<deviceRows, SNs_, Reverse_SNs_, raced>>

\* DELETE /devices?simulatedDevices=true, in a thread of its own
DoDeleteSimulated(c) ==
  /\ job[c] = Free
  /\ job' = [job EXCEPT ![c] = [kind |-> "simulated", step |-> 1, clean |-> TRUE]]
  /\ UNCHANGED <<deviceRows, contact, SNs_, Reverse_SNs_, conn, raced>>

\* "delete from t using devices": only rows whose device still has a row
Joined(t) == IF t = "Devices" THEN Simulated ELSE Simulated \cap deviceRows["Devices"]

DeleteSimulatedDevice(c) ==
  LET j == job[c]  t == Statements[j.step] IN
  /\ j.kind = "simulated" /\ j.step \in DOMAIN Statements
  /\ \/ /\ deviceRows' = [deviceRows EXCEPT ![t] = @ \ Joined(t)]
        /\ job' = [job EXCEPT ![c].step = @ + 1,
             ![c].clean = @ /\ deviceRows[t] \cap Simulated \subseteq deviceRows["Devices"]]
     \/ /\ job' = [job EXCEPT ![c].step = @ + 1, ![c].clean = FALSE]
        /\ UNCHANGED deviceRows
  /\ UNCHANGED <<contact, SNs_, Reverse_SNs_, conn, raced>>

DeleteSimulatedDone(c) ==
  /\ job[c].kind = "simulated" /\ job[c].step = 7
  /\ job' = [job EXCEPT ![c] = Free]
  /\ UNCHANGED <<deviceRows, contact, SNs_, Reverse_SNs_, conn, raced>>

\* POST /device/{d}
DoPost_(c) ==
  \/ /\ job[c] = Free
     /\ \E d \in StoredDevice :
          /\ deviceRows' = [deviceRows EXCEPT !["Devices"] = @ \cup {d}]
          /\ contact' = [contact EXCEPT ![d] = IF d \in deviceRows["Devices"] THEN @ ELSE 0]
          /\ raced' = IF \E b \in Deleting(d) : job[b].step \in 2..7
                      THEN raced \cup {d} ELSE raced
          /\ job' = [b \in Caller |->
               IF b = c THEN [kind |-> "create", device |-> d]
               ELSE IF \/ b \in Deleting(d) /\ job[b].step > 1
                       \/ job[b].kind = "simulated" /\ d \in Simulated /\ job[b].step > 6
               THEN [job[b] EXCEPT !.clean = FALSE] ELSE job[b]]
     /\ UNCHANGED <<SNs_, Reverse_SNs_, conn>>
  \/ /\ job[c].kind = "create"
     /\ ListDevice(job[c].device)
     /\ job' = [b \in Caller |->
          IF b = c THEN Free
          ELSE IF b \in Deleting(job[c].device) /\ job[b].step > 7
          THEN [job[b] EXCEPT !.clean = FALSE] ELSE job[b]]
     /\ UNCHANGED <<conn, raced>>

\* The gateway stops at any moment; SerialNumberCache::Start reads the table
Restart_ ==
  /\ SNs_' = Loaded(deviceRows["Devices"])
  /\ Reverse_SNs_' = Loaded({ReverseSerialNumber(d) : d \in deviceRows["Devices"]})
  /\ conn' = [d \in StoredDevice |-> "none"]
  /\ job' = [c \in Caller |-> Free]
  /\ raced' = {}
  /\ UNCHANGED <<deviceRows, contact>>

DsNext ==
  \/ \E d \in Connecting :
       \/ Connect(d) \/ CreateDefaultDevice(d) \/ UpdateDeviceCapabilities(d) \/ Hangup(d)
       \/ \E t \in EventTable : Record(d, t)
  \/ \E c \in Caller :
       \/ DoDeleteDevice(c) \/ DoDeleteSelect(c) \/ DeleteDevicesPattern(c)
       \/ DeleteDevicesOlder(c) \/ DeleteStatement(c) \/ DeleteListed(c) \/ DeleteDone(c)
       \/ DoDeleteSimulated(c) \/ DeleteSimulatedDevice(c) \/ DeleteSimulatedDone(c)
       \/ DoPost_(c)
  \/ Restart_

DsSpec == DsInit /\ [][DsNext]_dsVars

----------------------------------------------------------------------------
\* The two arrays of SerialNumberCache hold the same serial numbers, sorted
\* and without repetition, whatever was added and deleted in which order:
\* every search relies on it.
ArraysAgree ==
  /\ SNs_ = Ascending(ToSet(SNs_))
  /\ Reverse_SNs_ = Ascending({Number(Reverse(IntToSerialNumber(n))) : n \in ToSet(SNs_)})

\* FindNumbers, by prefix or by suffix, returns serial numbers of the cache
\* that match, none twice, and as many as there are up to HowMany.
SearchIsExact ==
  \A k \in 1..SerialDigits, fromEnd \in BOOLEAN, HowMany \in 1..2 :
  \A S \in [1..k -> 0..(Base - 1)] :
    LET found == FindNumbers(S, fromEnd, HowMany)
        matches == {n \in ToSet(SNs_) :
                      IF fromEnd THEN IsSuffix(S, IntToSerialNumber(n))
                                 ELSE IsPrefix(S, IntToSerialNumber(n))}
    IN  /\ ToSet(found) \subseteq matches
        /\ Cardinality(ToSet(found)) = Len(found)
        /\ Len(found) = Min({HowMany, Cardinality(matches)})

\* When DeleteDevice has gone through its tables, and no statement failed
\* and nothing wrote behind it, no table and no cache knows the device;
\* when DeleteSimulatedDevice has, no table knows a simulated device.
DeletionIsComplete ==
  \A c \in Caller :
    /\ job[c].kind = "delete" /\ job[c].step = 8 /\ job[c].clean =>
         /\ \A t \in Table : Current(job[c]) \notin deviceRows[t]
         /\ Number(Current(job[c])) \notin ToSet(SNs_)
    /\ job[c].kind = "simulated" /\ job[c].step = 7 /\ job[c].clean =>
         \A t \in Table : deviceRows[t] \cap Simulated = {}

\* A device that has a row can be found by its serial number once nobody is
\* creating or deleting, unless it was created while it was being deleted
\* (the deletion takes it out of the cache last) or its row outlived a
\* failed statement.
ListedUnlessRaced ==
  (\A c \in Caller : job[c].kind \in {"free", "simulated"}) =>
    \A d \in deviceRows["Devices"] :
      Number(d) \in ToSet(SNs_) \/ conn[d] = "list" \/ d \in raced
============================================================================
