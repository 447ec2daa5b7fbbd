--------------------------- MODULE DeviceCommands ---------------------------
(***************************************************************************)
(* The REST calls that act on a device (RESTAPI_device_commandHandler) and *)
(* the files that a device uploads for them (FileUploader).                *)
(*                                                                         *)
(* A call passes the gate of DoPost, DoGet or DoDelete, then the checks of *)
(* its own handler, and then RESTAPI_RPC::WaitForCommand, and the device   *)
(* may be deleted or disconnected in between.  The exchange with the       *)
(* device (CommandManager.tla) is one step here, with any of its outcomes. *)
(* A trace or a script leaves an upload slot behind, and the upload runs   *)
(* in a thread of its own: the row of the command is only inserted once    *)
(* the device has answered.                                                *)
(*                                                                         *)
(* A request is a record of what the checks tell apart: the serial number  *)
(* in its body ("missing", "same" or "other"), whether its fields are      *)
(* there and whether their values are acceptable, the user's role, ...     *)
(***************************************************************************)
EXTENDS Naturals, Sequences, FiniteSets

CONSTANTS
    CommandUuid,           \* the calls, each the UUID of its command
    Scenario,       \* the devices and the requests to check, as records
    Uploader,       \* the threads of the upload server
    RttyEnabled,    \* rtty.enabled
    MaxTerminals,   \* MaxConcurrentSessions_ of the RTTYS server
    NoRow, NoUuid

(* What the checks tell apart of a device and of a request. *)
DeviceKind ==
    [simulated : BOOLEAN, restricted : BOOLEAN, upgrade : BOOLEAN, signable : BOOLEAN,
     developer : BOOLEAN, dfs : BOOLEAN, rtty : BOOLEAN]

CommandRequest ==
    [method : {"none", "post", "get", "delete"}, command : STRING, parameters : BOOLEAN,
     role : STRING, internal : BOOLEAN, serial : {"missing", "same", "other"},
     fields : BOOLEAN, values : BOOLEAN, when : BOOLEAN, signature : BOOLEAN,
     deferred : BOOLEAN, script : BOOLEAN, scriptId : STRING, type : STRING,
     override : BOOLEAN, statusOnly : BOOLEAN, strict : BOOLEAN]

(* What they tell apart of the row of a command. *)
CommandRow == [status : {"pending", "failed", "completed"}, waiting : BOOLEAN]

ASSUME CommandsAssumption ==
    /\ \A s \in Scenario : /\ s.kind \in DeviceKind
                           /\ s.request \in [CommandUuid -> CommandRequest]
    /\ NoRow \notin CommandRow /\ NoUuid \notin CommandUuid

VARIABLES
    device,         \* the device: its record, its connection, its kind
    request,        \* the request of each call
    stage,          \* how far each call is
    known,           \* the Restrictions that the gate read
    params,         \* what the handler hands to WaitForCommand
    slots,          \* OutStandingUploads_
    rows,           \* the rows of CommandList
    files,          \* the rows of FileUploads
    upload,         \* the upload threads
    terminals,      \* the end points that Rtty created
    lost            \* history: uploads that no row will ever hear of

dcVars == <<device, request, stage, known, params, slots, rows, files, upload,
            terminals, lost>>

Default == [developer |-> FALSE, dfs |-> FALSE, rtty |-> FALSE]

NoParams == [refusal |-> "none", retry |-> FALSE, when |-> FALSE, waiting |-> FALSE,
             slot |-> FALSE, terminal |-> FALSE, signed |-> FALSE, direct |-> FALSE,
             row |-> TRUE]

Idle == [step |-> "idle", uuid |-> NoUuid]

DcInit ==
    /\ \E s \in Scenario :
        /\ device = [kind |-> s.kind, exists |-> TRUE, connected |-> TRUE]
        /\ request = s.request
    /\ stage = [u \in CommandUuid |-> IF request[u].method = "none" THEN "absent" ELSE "new"]
    /\ known = [u \in CommandUuid |-> Default]
    /\ params = [u \in CommandUuid |-> NoParams]
    /\ slots = [u \in CommandUuid |-> "none"]
    /\ rows = [u \in CommandUuid |-> NoRow]
    /\ files = {}
    /\ upload = [p \in Uploader |-> Idle]
    /\ terminals = {}
    /\ lost = {}

-----------------------------------------------------------------------------
(* The gates.  A list of checks is a sequence of pairs <<when, answer>>:   *)
(* the first one that applies is the answer.                               *)

Refusal(checks) ==
    IF \E i \in DOMAIN checks : checks[i][1]
    THEN checks[CHOOSE i \in DOMAIN checks :
                    checks[i][1] /\ \A j \in 1 .. i - 1 : ~checks[j][1]][2]
    ELSE "none"

PostCommands ==
    {"configure", "upgrade", "reboot", "factory", "leds", "trace", "request",
     "wifiscan", "eventqueue", "telemetry", "ping", "rrm", "certupdate", "transfer",
     "script", "powercycle", "fixedconfig", "cablediagnostics", "reenroll", "package"}

RequireConnection(c) == c \notin {"configure", "upgrade", "factory"}

(* CommandRunningForDevice: an RPC of another call is out. *)
DeviceBusy(u) == \E v \in CommandUuid \ {u} : stage[v] = "sent"

DoPost(u) ==
    LET c == request[u].command IN
        << <<~request[u].parameters, "MissingOrInvalidParameters">>,
           <<c = "unknown", "InvalidCommand">>,
           <<~device.exists, "NotFound">>,
           <<c \notin PostCommands, "InvalidCommand">>,
           <<RequireConnection(c) /\ ~device.connected, "DeviceNotConnected">>,
           <<DeviceBusy(u), "DeviceIsAlreadyBusy">> >>

DoGet(u) ==
    << <<~request[u].parameters, "MissingOrInvalidParameters">>,
       <<~device.exists, "NotFound">>,
       <<request[u].command \notin {"rtty", "packages"}, "InvalidCommand">>,
       <<~device.connected, "DeviceNotConnected">>,
       <<request[u].command = "packages" /\ ~request[u].fields,
         "MissingOrInvalidParameters">> >>

DoDelete(u) ==
    << <<~request[u].parameters, "MissingOrInvalidParameters">>,
       <<~device.exists, "NotFound">>,
       <<request[u].command # "unpackage", "InvalidCommand">>,
       <<~device.connected, "DeviceNotConnected">> >>

(* The three commands that need no connection never ask for Restrictions. *)
Restrictions(u) ==
    IF request[u].method = "post" /\ ~RequireConnection(request[u].command)
    THEN Default
    ELSE [developer |-> device.kind.developer, dfs |-> device.kind.dfs,
          rtty |-> device.kind.rtty]

Arrive(u) ==
    /\ stage[u] = "new"
    /\ LET answer == Refusal(CASE request[u].method = "post"   -> DoPost(u)
                               [] request[u].method = "get"    -> DoGet(u)
                               [] request[u].method = "delete" -> DoDelete(u))
       IN  IF answer = "none"
           THEN /\ stage' = [stage EXCEPT ![u] = "admitted"]
                /\ known' = [known EXCEPT ![u] = Restrictions(u)]
           ELSE /\ stage' = [stage EXCEPT ![u] = "refused"]
                /\ UNCHANGED known
    /\ UNCHANGED <<device, request, params, slots, rows, files, upload, terminals, lost>>

-----------------------------------------------------------------------------
(* The handlers: for request q of device d with the restrictions r, the    *)
(* checks in their order and what is then handed to WaitForCommand.        *)

(* A device that was deleted since the gate counts as not simulated. *)
IsDeviceSimulated(d) == d.exists /\ d.kind.simulated

NotSimulated(d) == <<IsDeviceSimulated(d), "SimulatedDeviceNotSupported">>
RootOrAdmin(q) == <<q.role \notin {"root", "admin"}, "ACCESS_DENIED">>
WellFormed(q) == <<~q.fields, "MissingOrInvalidParameters">>
ValidValues(q) == <<~q.values, "MissingOrInvalidParameters">>
Complete(q) == <<q.serial = "missing" \/ ~q.fields, "MissingOrInvalidParameters">>
SerialPresent(q) == <<q.serial = "missing", "MissingSerialNumber">>
SameSerial(q) == <<q.serial = "other", "SerialNumberMismatch">>
StillThere(d) == <<~d.exists, "NotFound">>

Checked(checks, template) == [template EXCEPT !.refusal = Refusal(checks)]
At(q, template) == [template EXCEPT !.when = q.when]
Retried(template) == [template EXCEPT !.retry = TRUE]

GetPackages(q, d, r) == Checked(<<NotSimulated(d)>>, NoParams)

PackageInstall(q, d, r) ==
    Checked(<<RootOrAdmin(q), NotSimulated(d), <<q.serial = "missing",
              "MissingOrInvalidParameters">>, SameSerial(q), WellFormed(q)>>, NoParams)

DeletePackages(q, d, r) ==
    Checked(<<RootOrAdmin(q), NotSimulated(d), <<q.serial = "missing",
              "MissingOrInvalidParameters">>, SameSerial(q), WellFormed(q)>>, NoParams)

Ping(q, d, r) == Checked(<<SerialPresent(q), SameSerial(q)>>, NoParams)

(* Who may run a stored script: ROOT, and the roles it is restricted to. *)
MayRun(q) == q.role = "root" \/ q.role = q.scriptId

(* The signature that Sign() makes for a script is checked and then not    *)
(* used: Params got its signature before.                                  *)
Script(q, d, r) ==
    LET diagnostic == q.type = "diagnostic"
        stored     == q.scriptId # "none"
        unsigned   == ~r.developer /\ d.kind.restricted /\ ~q.signature
    IN  Checked(<< NotSimulated(d), <<~q.fields, "InvalidJSONDocument">>,
                   <<q.script /\ stored, "InvalidScriptSelection">>,
                   <<~q.internal /\ q.role # "root" /\ ~stored, "ACCESS_DENIED">>,
                   <<~q.script /\ ~stored /\ ~diagnostic, "InvalidScriptSelection">>,
                   <<diagnostic /\ (stored \/ q.script), "InvalidScriptSelection">>,
                   <<q.serial # "same", "SerialNumberMismatch">>,
                   <<~q.values, "InvalidURI">>,
                   StillThere(d),
                   <<q.scriptId = "unknown", "MissingOrInvalidParameters">>,
                   <<stored /\ ~MayRun(q), "ACCESS_DENIED">>,
                   <<~stored /\ q.type \notin {"shell", "bundle", "diagnostic"},
                     "MissingOrInvalidParameters">>,
                   <<unsigned /\ ~d.kind.signable, "DeviceRequiresSignature">> >>,
                [NoParams EXCEPT !.waiting = q.deferred, !.slot = TRUE,
                                 !.signed = q.signature])

DoConfigure(q, d, r) ==
    Checked(<<Complete(q), SameSerial(q), StillThere(d), <<~q.values, "ConfigBlockInvalid">> >>,
            Retried(At(q, NoParams)))

(* The signature is made after Params, as in Script. *)
UpgradeMutant(q, d, r) ==
    Checked(<<Complete(q), SameSerial(q), StillThere(d),
              <<d.kind.upgrade /\ ~q.signature /\ ~d.kind.signable,
                "DeviceRequiresSignature">> >>,
            Retried(At(q, [NoParams EXCEPT !.signed = q.signature])))

(* restrictionDetails come from the record, developer from the default. *)
Upgrade(q, d, r) ==
    LET signed == q.signature \/ (d.kind.upgrade /\ d.kind.signable) IN
    Checked(<<Complete(q), SameSerial(q), StillThere(d),
              <<~r.developer /\ ~signed /\ d.kind.upgrade, "DeviceRequiresSignature">> >>,
            Retried(At(q, [NoParams EXCEPT !.signed = signed])))

Reboot(q, d, r) == Checked(<<SerialPresent(q), SameSerial(q)>>, At(q, NoParams))

Factory(q, d, r) == Checked(<<Complete(q), SameSerial(q)>>, Retried(At(q, NoParams)))

LEDs(q, d, r) == Checked(<<Complete(q), SameSerial(q), ValidValues(q)>>, At(q, NoParams))

Trace(q, d, r) ==
    Checked(<<NotSimulated(d), Complete(q), SameSerial(q)>>,
            [NoParams EXCEPT !.waiting = TRUE, !.slot = TRUE])

(* A body without a serial number throws. *)
WifiScan(q, d, r) ==
    Checked(<<NotSimulated(d), <<q.serial = "missing", "InternalError">>, SameSerial(q),
              <<~r.developer /\ r.dfs /\ q.override, "DeviceIsRestricted">> >>, NoParams)

EventQueue(q, d, r) == Checked(<<NotSimulated(d), Complete(q), SameSerial(q)>>, NoParams)

MakeRequest(q, d, r) ==
    Checked(<<NotSimulated(d), Complete(q),
              <<q.serial = "other" \/ ~q.values, "MissingOrInvalidParameters">> >>,
            At(q, NoParams))

Rtty(q, d, r) ==
    Checked(<<NotSimulated(d), <<~r.developer /\ r.rtty, "DeviceIsRestricted">>,
              <<~RttyEnabled, "ServiceUnavailable">>, StillThere(d),
              <<MaxTerminals # 0 /\ Cardinality(terminals) = MaxTerminals,
                "MaximumRTTYSessionsReached">> >>,
            [NoParams EXCEPT !.terminal = TRUE])

(* The telemetry itself is in Telemetry.tla; its row is complete at once. *)
Telemetry(q, d, r) ==
    Checked(<<NotSimulated(d), Complete(q), SameSerial(q)>>,
            [NoParams EXCEPT !.direct = TRUE, !.row = ~q.statusOnly])

RRM(q, d, r) ==
    Checked(<<NotSimulated(d), RootOrAdmin(q), WellFormed(q), <<~q.values, "InvalidRRMAction">> >>,
            [NoParams EXCEPT !.direct = TRUE])

(* A transfer that does not ask whether the device is simulated. *)
TransferMutant(q, d, r) == Checked(<<RootOrAdmin(q), WellFormed(q)>>, NoParams)

(* A certificate update that anybody may ask for. *)
CertUpdateMutant(q, d, r) == Checked(<<NotSimulated(d), WellFormed(q)>>, NoParams)

(* These forward the body as it is: nothing looks at its serial number. *)
Transfer(q, d, r) == Checked(<<RootOrAdmin(q), NotSimulated(d), WellFormed(q)>>, NoParams)
CertUpdate(q, d, r) == Checked(<<RootOrAdmin(q), NotSimulated(d), WellFormed(q)>>, NoParams)
FixedConfig(q, d, r) == Checked(<<NotSimulated(d), WellFormed(q)>>, NoParams)

PowerCycle(q, d, r) ==
    Checked(<<RootOrAdmin(q), NotSimulated(d), WellFormed(q)>>, At(q, NoParams))
CableDiagnostics(q, d, r) ==
    Checked(<<RootOrAdmin(q), NotSimulated(d), WellFormed(q)>>, At(q, NoParams))
ReEnroll(q, d, r) ==
    Checked(<<RootOrAdmin(q), NotSimulated(d), WellFormed(q)>>, At(q, NoParams))

Handling(q, d, r) ==
    CASE q.command = "configure"        -> DoConfigure(q, d, r)
      [] q.command = "upgrade"          -> Upgrade(q, d, r)
      [] q.command = "reboot"           -> Reboot(q, d, r)
      [] q.command = "factory"          -> Factory(q, d, r)
      [] q.command = "leds"             -> LEDs(q, d, r)
      [] q.command = "trace"            -> Trace(q, d, r)
      [] q.command = "request"          -> MakeRequest(q, d, r)
      [] q.command = "wifiscan"         -> WifiScan(q, d, r)
      [] q.command = "eventqueue"       -> EventQueue(q, d, r)
      [] q.command = "telemetry"        -> Telemetry(q, d, r)
      [] q.command = "ping"             -> Ping(q, d, r)
      [] q.command = "rrm"              -> RRM(q, d, r)
      [] q.command = "certupdate"       -> CertUpdate(q, d, r)
      [] q.command = "transfer"         -> Transfer(q, d, r)
      [] q.command = "script"           -> Script(q, d, r)
      [] q.command = "powercycle"       -> PowerCycle(q, d, r)
      [] q.command = "fixedconfig"      -> FixedConfig(q, d, r)
      [] q.command = "cablediagnostics" -> CableDiagnostics(q, d, r)
      [] q.command = "reenroll"         -> ReEnroll(q, d, r)
      [] q.command = "package"          -> PackageInstall(q, d, r)
      [] q.command = "packages"         -> GetPackages(q, d, r)
      [] q.command = "unpackage"        -> DeletePackages(q, d, r)
      [] q.command = "rtty"             -> Rtty(q, d, r)

-----------------------------------------------------------------------------
(* The rows of CommandList and the upload slots.                           *)

(* AddCommand: RemoveOldCommands first drops the uncompleted rows of the   *)
(* same command, and a UUID is inserted once.                              *)
AddCommand(u, status, waiting) ==
    [v \in CommandUuid |->
        CASE v = u -> [status |-> status, waiting |-> waiting]
          [] v # u /\ rows[v] # NoRow /\ request[v].command = request[u].command
               /\ rows[v].status = "pending" -> NoRow
          [] OTHER -> rows[v]]

(* A clean-up that forgets the slots that have not expired. *)
AddUUIDMutant(u) == [v \in CommandUuid |-> IF v = u THEN "open" ELSE "none"]

(* FileUploader::AddUUID: only here do expired slots leave the list. *)
AddUUID(u) ==
    [v \in CommandUuid |-> CASE v = u -> "open"
                      [] v # u /\ slots[v] = "expired" -> "none"
                      [] OTHER -> slots[v]]

Uploading(u) == \E p \in Uploader : upload[p].uuid = u

(* The slots that AddUUID drops. *)
Dropped(u) == {v \in CommandUuid \ {u} : slots[v] = "expired"}

Proceeds(p) == p.refusal = "none"

(* The slot is taken before the checks. *)
TakesSlotMutant(p) == p.slot

TakesSlot(p) == Proceeds(p) /\ p.slot

Handle(u) ==
    /\ stage[u] = "admitted"
    /\ LET p == Handling(request[u], device, known[u]) IN
        /\ params' = [params EXCEPT ![u] = p]
        /\ stage' = [stage EXCEPT ![u] = CASE ~Proceeds(p) -> "refused"
                                          [] Proceeds(p) /\ p.direct -> "done"
                                          [] OTHER -> "ready"]
        /\ IF TakesSlot(p)
           THEN slots' = AddUUID(u) /\ lost' = lost \cup Dropped(u)
           ELSE UNCHANGED <<slots, lost>>
        /\ rows' = IF Proceeds(p) /\ p.direct /\ p.row
                   THEN AddCommand(u, "completed", FALSE) ELSE rows
        /\ terminals' = IF Proceeds(p) /\ p.terminal
                        THEN terminals \cup {u} ELSE terminals
    /\ UNCHANGED <<device, request, known, files, upload>>

(* WaitForCommand up to PostCommand. *)
WaitForCommand(u) ==
    /\ stage[u] = "ready"
    /\ \/ /\ params[u].when \/ (~device.connected /\ params[u].retry)
          /\ rows' = AddCommand(u, "pending", params[u].waiting)
          /\ stage' = [stage EXCEPT ![u] = "unsent"]
       \/ /\ ~params[u].when /\ ~device.connected /\ ~params[u].retry
          /\ rows' = AddCommand(u, "failed", params[u].waiting)
          /\ stage' = [stage EXCEPT ![u] = "unsent"]
       \/ /\ ~params[u].when /\ device.connected
          /\ stage' = [stage EXCEPT ![u] = "sent"]
          /\ UNCHANGED rows
    /\ UNCHANGED <<device, request, known, params, slots, files, upload, terminals, lost>>

(* A device error takes back the wait for the file of a trace or a script. *)
StillWaiting(u, outcome) == params[u].waiting /\ outcome # "error"

StatusOf(u, outcome) ==
    CASE outcome = "success" -> "completed"
      [] outcome = "error" -> IF request[u].command = "configure" /\ ~request[u].strict
                              THEN "completed" ELSE "failed"
      [] outcome = "malformed" -> IF request[u].command = "ping" THEN "completed" ELSE "failed"
      [] outcome = "timeout" -> IF params[u].retry THEN "pending" ELSE "failed"

(* WaitForCommand after PostCommand: the answer, or none (a frame that     *)
(* could not be sent ends like one that was not answered).                 *)
Answered(u, outcome) ==
    /\ stage[u] = "sent"
    /\ rows' = AddCommand(u, StatusOf(u, outcome), StillWaiting(u, outcome))
    /\ stage' = [stage EXCEPT ![u] = "done"]
    /\ UNCHANGED <<device, request, known, params, slots, files, upload, terminals, lost>>

-----------------------------------------------------------------------------
(* The upload server.                                                      *)

SetUpload(p, step, u) == upload' = [upload EXCEPT ![p] = [step |-> step, uuid |-> u]]

(* createRequestHandler: Find and RemoveRequest each take the lock.  An    *)
(* expired slot is found as well.                                          *)
Find(p, u) ==
    /\ upload[p].step = "idle" /\ slots[u] # "none"
    /\ stage[u] \in {"sent", "done"}
    /\ SetUpload(p, "found", u)
    /\ UNCHANGED <<device, request, stage, known, params, slots, rows, files, terminals, lost>>

RemoveRequest(p) ==
    /\ upload[p].step = "found"
    /\ slots' = [slots EXCEPT ![upload[p].uuid] = "none"]
    /\ SetUpload(p, "reading", upload[p].uuid)
    /\ UNCHANGED <<device, request, stage, known, params, rows, files, terminals, lost>>

(* The row that an UPDATE reaches, if there is one. *)
NotWaiting(u) ==
    IF rows[u] = NoRow THEN rows ELSE [rows EXCEPT ![u].waiting = FALSE]

(* AttachFileDataToCommand: the first transaction stores the file, which   *)
(* fails for a UUID that has one; a file that is too large is not stored.  *)
Insert(p) ==
    /\ upload[p].step = "reading"
    /\ LET u == upload[p].uuid IN
        \/ u \notin files /\ files' = files \cup {u} /\ SetUpload(p, "stored", u)
        \/ u \in files /\ UNCHANGED files /\ SetUpload(p, "idle", NoUuid)
        \/ UNCHANGED files /\ SetUpload(p, "stored", u)   \* too large
    /\ UNCHANGED <<device, request, stage, known, params, slots, rows, terminals, lost>>

(* The second transaction, or CancelWaitFile when nothing was readable.    *)
UpdateRow(p) ==
    /\ upload[p].step \in {"stored", "reading"}
    /\ rows' = NotWaiting(upload[p].uuid)
    /\ lost' = IF rows[upload[p].uuid] = NoRow THEN lost \cup {upload[p].uuid} ELSE lost
    /\ SetUpload(p, "idle", NoUuid)
    /\ UNCHANGED <<device, request, stage, known, params, slots, files, terminals>>

-----------------------------------------------------------------------------
(* Operators, devices and the clock.                                       *)

DeleteCommand(u) ==
    /\ rows[u] # NoRow
    /\ rows' = [rows EXCEPT ![u] = NoRow]
    /\ UNCHANGED <<device, request, stage, known, params, slots, files, upload, terminals, lost>>

RemoveAttachedFile(u) ==
    /\ u \in files
    /\ files' = files \ {u}
    /\ UNCHANGED <<device, request, stage, known, params, slots, rows, upload, terminals, lost>>

DeviceChanges ==
    /\ \/ device.connected /\ device' = [device EXCEPT !.connected = FALSE]
       \/ device.exists /\ device' = [device EXCEPT !.exists = FALSE]
    /\ UNCHANGED <<request, stage, known, params, slots, rows, files, upload, terminals, lost>>

Expire(u) ==
    /\ slots[u] = "open"
    /\ slots' = [slots EXCEPT ![u] = "expired"]
    /\ UNCHANGED <<device, request, stage, known, params, rows, files, upload, terminals, lost>>

(* The gateway restarts: calls, slots, uploads and terminals are in memory *)
(* only.                                                                   *)
Restart ==
    /\ stage' = [u \in CommandUuid |-> IF stage[u] \in {"admitted", "ready", "sent"}
                                 THEN "lost" ELSE stage[u]]
    /\ slots' = [u \in CommandUuid |-> "none"]
    /\ upload' = [p \in Uploader |-> Idle]
    /\ terminals' = {}
    /\ lost' = lost \cup {u \in CommandUuid : slots[u] # "none" \/ Uploading(u)}
    /\ UNCHANGED <<device, request, known, params, rows, files>>

DcNext ==
    \/ \E u \in CommandUuid : \/ Arrive(u) \/ Handle(u) \/ WaitForCommand(u)
                       \/ \E o \in {"success", "error", "malformed", "timeout"} :
                              Answered(u, o)
                       \/ DeleteCommand(u) \/ RemoveAttachedFile(u) \/ Expire(u)
                       \/ \E p \in Uploader : Find(p, u)
    \/ \E p \in Uploader : RemoveRequest(p) \/ Insert(p) \/ UpdateRow(p)
    \/ DeviceChanges
    \/ Restart

DcSpec == DcInit /\ [][DcNext]_dcVars

-----------------------------------------------------------------------------
(* RESTAPI_file::DoGet with GetAttachedFileContent. *)
FileAnswer(u) ==
    CASE rows[u] = NoRow -> "NotFound"
      [] rows[u] # NoRow /\ rows[u].waiting -> "Accepted"
      [] OTHER -> IF u \in files THEN "content" ELSE "empty"

(* Properties. *)

(* The answer 202 promises a file: the slot is open or the upload runs,    *)
(* unless the slot was dropped after it expired, a restart forgot it, or   *)
(* the upload was over before the row of the command was inserted (the     *)
(* UPDATE of AttachFileDataToCommand and CancelWaitFile then changes       *)
(* nothing, and the row is inserted as waiting).                           *)
AcceptedMeansComing ==
    \A u \in CommandUuid : FileAnswer(u) = "Accepted" =>
        slots[u] # "none" \/ Uploading(u) \/ u \in lost

(* A refused request leaves nothing behind: no row, slot, file or terminal.*)
RefusedLeavesNothing ==
    \A u \in CommandUuid : stage[u] \in {"refused", "admitted"} =>
        rows[u] = NoRow /\ slots[u] = "none" /\ u \notin files \cup terminals

Underway(u) == stage[u] \in {"ready", "sent"}

(* A simulated device is only sent what its simulator answers, unless it   *)
(* was deleted between the two lookups of its record.                      *)
SimulatedIsSpared ==
    \A u \in CommandUuid : Underway(u) /\ device.kind.simulated /\ device.exists =>
        request[u].command \in {"configure", "upgrade", "reboot", "factory", "leds", "ping"}

(* An upgrade of a device with restricted upgrades carries a signature,    *)
(* whatever connection is there when it is sent.                           *)
RestrictedUpgradeIsSigned ==
    \A u \in CommandUuid : Underway(u) /\ request[u].command = "upgrade" /\ device.kind.upgrade =>
        params[u].signed

(* A command for another serial number than its body names is only sent    *)
(* for ROOT or ADMIN, or is a fixedconfig.                                 *)
ForeignBodyNeedsRole ==
    \A u \in CommandUuid : Underway(u) /\ request[u].serial = "other" =>
        \/ request[u].role \in {"root", "admin"}
        \/ request[u].command = "fixedconfig"
        \/ request[u].method = "get"

(* What the checks of RESTAPI_device_commandHandler let through is fit to  *)
(* be sent, although they look at the device in several steps; what they   *)
(* do not let through leaves no trace.                                     *)
ChecksHold ==
    /\ RefusedLeavesNothing /\ SimulatedIsSpared
    /\ RestrictedUpgradeIsSigned /\ ForeignBodyNeedsRole
=============================================================================
