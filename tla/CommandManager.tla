--------------------------- MODULE CommandManager ---------------------------
(***************************************************************************)
(* The commands that the gateway sends to devices: CommandManager (the map *)
(* of outstanding RPCs, the thread that handles the answers, the janitor,  *)
(* the scheduler), the REST call that sends a command and waits for its    *)
(* answer (RESTAPI_RPC), the CommandList table (storage_command) and the   *)
(* commands that a connection itself posts (LookForUpgrade, recovery).     *)
(*                                                                         *)
(* A command has at most one poster at a time: its REST call or connection *)
(* handler, and later the scheduler, which only sees commands that have a  *)
(* row.  What the answer to a configure does to the device's record is not *)
(* part of this module.                                                    *)
(*                                                                         *)
(* PostCommand locks another mutex than the rest of CommandManager does;   *)
(* here every access to the map is atomic.                                 *)
(***************************************************************************)
EXTENDS Integers, Sequences, FiniteSets

CONSTANTS
    Cmd,           \* commands, each with its UUID
    NoCmd,
    Serial,        \* devices
    SerialNumber,  \* command -> its device
    Command,       \* command -> its method
    Origin,        \* command -> "rest", "upgrade" or "recovery"
    Deferred,      \* the scripts that answer first and upload later
    Scheduled,     \* the commands with a RunAt
    Stored,        \* the commands that may be in the table to begin with
    Answers,       \* the answers that devices give
    Page,          \* page size of the scheduler (200 in the code)
    MaxId,         \* bound: RPC ids
    MaxQueue       \* bound: answers waiting

Method == {"configure", "upgrade", "factory", "script", "trace", "telemetry",
           "ping", "reboot"}

(* ok and error have a status; error64 is an error that comes with         *)
(* result_64 in place of result; the others lack the status or the result. *)
Answer == {"ok", "error", "error64", "nostatus", "noresult"}

FirstId == 3
RpcId   == FirstId + 1 .. MaxId

ASSUME CommandAssumption ==
    /\ NoCmd \notin Cmd
    /\ SerialNumber \in [Cmd -> Serial]
    /\ Command \in [Cmd -> Method]
    /\ Origin \in [Cmd -> {"rest", "upgrade", "recovery"}]
    /\ Deferred \subseteq {u \in Cmd : Command[u] = "script"}
    /\ Scheduled \subseteq Cmd
    /\ Stored \subseteq Cmd
    /\ IsFiniteSet(Stored)
    /\ Answers \subseteq Answer
    /\ Page \in Nat \ {0}
    /\ MaxId \in Nat
    /\ MaxQueue \in Nat

VARIABLES
    Id_,                    \* the last RPC id given out
    OutStandingRequests_,   \* the ids in the map
    rpc,                    \* id -> CommandInfo
    aged,                   \* ids submitted more than 10 minutes ago
    ResponseQueue_,         \* answers that the manager thread has not seen
    delivered,              \* ids that reached their device
    link,                   \* device -> state of its connection
    row,                    \* CommandList, the row of every command
    Submitted,              \* command -> order of submission
    pc,                     \* where the poster of the command is
    rpcid,                  \* the poster's RPC id
    outcome,                \* the status its call ends with
    sched,                  \* what the scheduler is doing
    batch,                  \* the commands of its page still to be handled
    offset, fetched,        \* its offset and the size of the page
    sends,                  \* history: how often SendFrame reported success
    forgotten,              \* history: ids erased without an answer
    owed                    \* history: what this pass has to attempt

mapVars   == <<OutStandingRequests_, rpc, aged>>
netVars   == <<ResponseQueue_, delivered, link>>
rowVars   == <<row, Submitted>>
callVars  == <<pc, rpcid, outcome>>
schedVars == <<sched, batch, offset, fetched>>
vars == <<Id_, mapVars, netVars, rowVars, callVars, schedVars, sends,
          forgotten, owed>>

Status == {"none", "pending", "executed", "completed", "failed", "timedout",
           "expired"}
Row    == [status : Status, Executed : BOOLEAN, Completed : BOOLEAN,
           held : BOOLEAN, old : BOOLEAN]
NoRow  == [status |-> "none", Executed |-> FALSE, Completed |-> FALSE,
           held |-> FALSE, old |-> FALSE]

(* A promise that has been kept holds the answer and where it came from.   *)
NoAnswer == [from |-> "nobody", answer |-> "none"]
Info     == [cmd : Cmd \cup {NoCmd}, by : {"nobody", "rest", "disk", "system"},
             State : 0..2,
             rpc_entry : {NoAnswer} \cup [from : Serial, answer : Answer]]
NoInfo   == [cmd |-> NoCmd, by |-> "nobody", State |-> 0,
             rpc_entry |-> NoAnswer]

Connected(s) == link[s] = "up"

(* RetryLater and RequireConnection of the table of REST commands. *)
RetryLater(u)        == Command[u] \in {"configure", "upgrade", "factory"}
RequireConnection(u) == ~RetryLater(u)

(* CommandRunningForDevice *)
Busy(s) ==
    \E id \in OutStandingRequests_ : SerialNumber[rpc[id].cmd] = s

IsCommandRunning(u) == \E id \in OutStandingRequests_ : rpc[id].cmd = u

Init ==
    /\ Id_ = FirstId
    /\ OutStandingRequests_ = {}
    /\ rpc = [id \in RpcId |-> NoInfo]
    /\ aged = {}
    /\ ResponseQueue_ = <<>>
    /\ delivered = {}
    /\ link \in [Serial -> {"down", "up"}]
    /\ \E S \in SUBSET Stored : \E f \in [S -> 1..Cardinality(S)] :
         /\ \A u, v \in S : f[u] = f[v] => u = v
         /\ row = [u \in Cmd |-> IF u \in S
                                 THEN [NoRow EXCEPT !.status = "pending",
                                                    !.held = u \in Scheduled]
                                 ELSE NoRow]
         /\ Submitted = [u \in Cmd |-> IF u \in S THEN f[u] ELSE 0]
         /\ pc = [u \in Cmd |-> IF u \in S THEN "done" ELSE "idle"]
    /\ rpcid = [u \in Cmd |-> 0]
    /\ outcome = [u \in Cmd |-> "none"]
    /\ sched = "idle" /\ batch = {} /\ offset = 0 /\ fetched = 0
    /\ sends = [u \in Cmd |-> 0]
    /\ forgotten = {}
    /\ owed = {}

-----------------------------------------------------------------------------
(* The table.  An UPDATE leaves a command without a row alone. *)

Update(u, r) == [row EXCEPT ![u] = IF @ = NoRow THEN @ ELSE r]

SetCommandExecuted(u) ==
    Update(u, [row[u] EXCEPT !.Executed = TRUE, !.status = "executed"])
SetCommandTimedOut(u) ==
    Update(u, [row[u] EXCEPT !.Executed = TRUE, !.status = "timedout"])
SetCommandLastTry(u) == Update(u, [row[u] EXCEPT !.held = TRUE])
CommandCompleted(u) ==
    Update(u, [row[u] EXCEPT !.Completed = TRUE, !.status = "completed"])

(* RemovedExpiredCommands, then RemoveTimedOutCommands. *)
Retire(r) ==
    CASE r.old /\ ~r.Completed -> [r EXCEPT !.Executed = TRUE, !.status = "timedout"]
      [] r.old /\ r.Completed /\ ~r.Executed ->
                                  [r EXCEPT !.Executed = TRUE, !.status = "expired"]
      [] OTHER -> r

(* RemoveOldCommands: the unfinished commands of the device with the same  *)
(* method make room for the new one.                                       *)
RemoveOldCommands(u) ==
    [v \in Cmd |-> IF /\ SerialNumber[v] = SerialNumber[u]
                      /\ Command[v] = Command[u]
                      /\ ~row[v].Completed
                   THEN NoRow ELSE row[v]]

(* AddCommand.  A call that was sent and not answered has set Executed, so *)
(* its row is pending with an Executed of its own.                         *)
NewRow(u) ==
    [status    |-> IF outcome[u] = "unanswered" THEN "pending" ELSE outcome[u],
     Executed  |-> outcome[u] # "pending",
     Completed |-> outcome[u] \in {"completed", "failed"},
     held      |-> u \in Scheduled,
     old       |-> FALSE]

-----------------------------------------------------------------------------
(* Posting a command. *)

Goto(u, l) == pc' = [pc EXCEPT ![u] = l]

(* The RPC enters the map before the frame is sent.                        *)
EntersMapMutant(when) == when = "sent"
EntersMap(when) == when = "posted"

By(u) == IF u \in batch THEN "disk"
         ELSE IF Origin[u] = "rest" THEN "rest" ELSE "system"

(* LookForUpgrade stores its command and then posts it, Process_recovery   *)
(* posts it first.                                                         *)
PostsFirst(u) == Origin[u] = "recovery"

(* PostCommand up to SendFrame. *)
PostCommand(u) ==
    /\ pc[u] = "post"
    /\ Id_ < MaxId
    /\ Id_' = Id_ + 1
    /\ rpc' = [rpc EXCEPT ![Id_ + 1] =
                 [cmd       |-> u,
                  by        |-> By(u),
                  State     |-> IF u \in Deferred /\ By(u) = "rest" THEN 2 ELSE 1,
                  rpc_entry |-> NoAnswer]]
    /\ OutStandingRequests_' =
         IF EntersMap("posted") THEN OutStandingRequests_ \cup {Id_ + 1}
         ELSE OutStandingRequests_
    /\ rpcid' = [rpcid EXCEPT ![u] = Id_ + 1]
    /\ Goto(u, "send")
    /\ owed' = {v \in owed : SerialNumber[v] # SerialNumber[u]}
    /\ UNCHANGED <<aged, netVars, rowVars, outcome, schedVars, sends,
                   forgotten>>

(* The frame arrives.  SendFrame asks for a connection, not for one that   *)
(* is past its connect message.                                            *)
Deliver(u) ==
    /\ pc[u] = "send"
    /\ link[SerialNumber[u]] # "down"
    /\ delivered' = delivered \cup {rpcid[u]}
    /\ UNCHANGED <<Id_, mapVars, ResponseQueue_, link, rowVars, callVars,
                   schedVars, sends, forgotten, owed>>

(* SendFrame has seen the acknowledgement. *)
Sent(u) ==
    /\ pc[u] = "send"
    /\ rpcid[u] \in delivered
    /\ sends' = [sends EXCEPT ![u] = @ + 1]
    /\ OutStandingRequests_' =
         IF EntersMap("sent") THEN OutStandingRequests_ \cup {rpcid[u]}
         ELSE OutStandingRequests_
    /\ Goto(u, CASE rpc[rpcid[u]].by = "disk" -> "mark"
                 [] rpc[rpcid[u]].by = "rest" -> "wait"
                 [] rpc[rpcid[u]].by = "system" /\ PostsFirst(u) -> "store"
                 [] OTHER                     -> "done")
    /\ UNCHANGED <<Id_, rpc, aged, netVars, rowVars, rpcid, outcome,
                   schedVars, forgotten, owed>>

(* SendFrame has not, in 4 seconds, or there was no connection or an       *)
(* error: the frame may have arrived all the same.                         *)
NotSent(u) ==
    /\ pc[u] = "send"
    /\ OutStandingRequests_' = OutStandingRequests_ \ {rpcid[u]}
    /\ forgotten' = forgotten \cup {rpcid[u]}
    /\ outcome' = [outcome EXCEPT ![u] =
                     IF rpc[rpcid[u]].by # "rest" THEN @
                     ELSE IF RetryLater(u) THEN "pending" ELSE "failed"]
    /\ Goto(u, CASE rpc[rpcid[u]].by = "disk" -> "requeue"
                 [] rpc[rpcid[u]].by = "rest" -> "store"
                 [] rpc[rpcid[u]].by = "system" /\ PostsFirst(u) -> "store"
                 [] OTHER                     -> "done")
    /\ UNCHANGED <<Id_, rpc, aged, netVars, rowVars, rpcid, schedVars, sends,
                   owed>>

-----------------------------------------------------------------------------
(* The REST call. *)

(* DoPost turns a request away when the device is busy or, for most        *)
(* commands, not connected.                                                *)
DoPost(u) ==
    /\ pc[u] = "idle"
    /\ Origin[u] = "rest"
    /\ RequireConnection(u) => Connected(SerialNumber[u])
    /\ ~Busy(SerialNumber[u])
    /\ Goto(u, "begin")
    /\ UNCHANGED <<Id_, mapVars, netVars, rowVars, rpcid, outcome, schedVars,
                   sends, forgotten, owed>>

NextSubmitted == Cardinality({v \in Cmd : Submitted[v] > 0}) + 1

(* WaitForCommand up to PostCommand. *)
WaitForCommand(u) ==
    /\ pc[u] = "begin"
    /\ Submitted' = [Submitted EXCEPT ![u] = NextSubmitted]
    /\ \/ /\ u \in Scheduled \/ ~Connected(SerialNumber[u])
          /\ outcome' = [outcome EXCEPT ![u] =
                           IF u \in Scheduled \/ RetryLater(u)
                           THEN "pending" ELSE "failed"]
          /\ Goto(u, "store")
       \/ /\ u \notin Scheduled /\ Connected(SerialNumber[u])
          /\ Goto(u, "post")
          /\ UNCHANGED outcome
    /\ UNCHANGED <<Id_, mapVars, netVars, row, rpcid, schedVars, sends,
                   forgotten, owed>>

(* A failed configure counts as failed only in strict mode, a parameter of *)
(* the request.                                                            *)
OutcomesMutant(u, a) == {a}
Outcomes(u, a) ==
    CASE a = "noresult" -> {"failed"}
      [] a = "nostatus" -> {IF Command[u] = "ping" THEN "completed" ELSE "failed"}
      [] a = "ok"       -> {"completed"}
      [] OTHER          -> IF Command[u] = "configure" THEN {"completed", "failed"}
                           ELSE {"failed"}

Answered(u) ==
    /\ pc[u] = "wait"
    /\ rpc[rpcid[u]].rpc_entry # NoAnswer
    /\ \E o \in Outcomes(u, rpc[rpcid[u]].rpc_entry.answer) :
         outcome' = [outcome EXCEPT ![u] = o]
    /\ Goto(u, "store")
    /\ UNCHANGED <<Id_, mapVars, netVars, rowVars, rpcid, schedVars, sends,
                   forgotten, owed>>

(* wait_for times out ... *)
TimeOutNever(u) == FALSE
TimeOut(u) ==
    /\ pc[u] = "wait"
    /\ rpc[rpcid[u]].rpc_entry = NoAnswer
    /\ Goto(u, "giveup")
    /\ UNCHANGED <<Id_, mapVars, netVars, rowVars, rpcid, outcome, schedVars,
                   sends, forgotten, owed>>

(* RemovePendingCommand *)
WithoutPendingMutant(id) == OutStandingRequests_
WithoutPending(id) == OutStandingRequests_ \ {id}

(* ... and the call gives up, whatever arrived in the meantime.            *)
GiveUp(u) ==
    /\ pc[u] = "giveup"
    /\ OutStandingRequests_' = WithoutPending(rpcid[u])
    /\ forgotten' = forgotten \cup {rpcid[u]}
    /\ outcome' = [outcome EXCEPT ![u] =
                     IF RetryLater(u) THEN "unanswered" ELSE "failed"]
    /\ Goto(u, "store")
    /\ UNCHANGED <<Id_, rpc, aged, netVars, rowVars, rpcid, schedVars, sends,
                   owed>>

-----------------------------------------------------------------------------
(* LookForUpgrade and Process_recovery run in the handler of the device's  *)
(* connection: until they return, nothing that the device sends is read.   *)
(* A device keeps to one connection here: its next one is not read before  *)
(* the handler of the last one has returned.                               *)
HandlerFree(s) ==
    \A u \in Cmd : SerialNumber[u] = s /\ Origin[u] # "rest" /\ u \notin batch
                   => pc[u] \in {"idle", "done"}

SystemCommand(u) ==
    /\ pc[u] = "idle"
    /\ Origin[u] # "rest"
    /\ HandlerFree(SerialNumber[u])
    /\ link[SerialNumber[u]] # "down"
    /\ outcome' = [outcome EXCEPT ![u] = "executed"]
    /\ Submitted' = [Submitted EXCEPT ![u] = NextSubmitted]
    /\ Goto(u, IF PostsFirst(u) THEN "post" ELSE "store")
    /\ UNCHANGED <<Id_, mapVars, netVars, row, rpcid, schedVars, sends,
                   forgotten, owed>>

(* AddCommand is two transactions. *)
StoreRemove(u) ==
    /\ pc[u] = "store"
    /\ row' = RemoveOldCommands(u)
    /\ Goto(u, "insert")
    /\ owed' = {v \in owed : row'[v] # NoRow}
    /\ UNCHANGED <<Id_, mapVars, netVars, Submitted, rpcid, outcome, schedVars,
                   sends, forgotten>>

StoreInsert(u) ==
    /\ pc[u] = "insert"
    /\ row' = [row EXCEPT ![u] = NewRow(u)]
    /\ outcome' = [outcome EXCEPT ![u] = "none"]
    /\ Goto(u, IF Origin[u] = "rest" \/ PostsFirst(u) THEN "done" ELSE "post")
    /\ UNCHANGED <<Id_, mapVars, netVars, Submitted, rpcid, schedVars,
                   sends, forgotten, owed>>

-----------------------------------------------------------------------------
(* Devices. *)

ReadingMutant(s) == link[s] # "down"
Reading(s) == link[s] # "down" /\ HandlerFree(s)

(* ProcessJSONRPCResult.  A device answers what it received; what it sends *)
(* for the id of another device is as possible.                            *)
PostCommandResult(s, id, a) ==
    /\ Len(ResponseQueue_) < MaxQueue
    /\ Reading(s)
    /\ id <= Id_
    /\ id \in delivered \/ SerialNumber[rpc[id].cmd] # s
    /\ ResponseQueue_' = Append(ResponseQueue_,
                               [id |-> id, serial |-> s, answer |-> a])
    /\ UNCHANGED <<Id_, mapVars, delivered, link, rowVars, callVars, schedVars,
                   sends, forgotten, owed>>

OfDevice(s) == {id \in OutStandingRequests_ : SerialNumber[rpc[id].cmd] = s}

(* A connect message, which clears the device's RPCs. *)
ConnectMessage(s) ==
    /\ HandlerFree(s)
    /\ link' = [link EXCEPT ![s] = "greeting"]
    /\ OutStandingRequests_' = OutStandingRequests_ \ OfDevice(s)
    /\ forgotten' = forgotten \cup OfDevice(s)
    /\ owed' = {v \in owed : SerialNumber[v] # s}
    /\ UNCHANGED <<Id_, rpc, aged, ResponseQueue_, delivered, rowVars, callVars,
                   schedVars, sends>>

ConnectDone(s) ==
    /\ link[s] = "greeting"
    /\ HandlerFree(s)
    /\ link' = [link EXCEPT ![s] = "up"]
    /\ UNCHANGED <<Id_, mapVars, ResponseQueue_, delivered, rowVars, callVars,
                   schedVars, sends, forgotten, owed>>

ConnectionLost(s) ==
    /\ link[s] # "down"
    /\ link' = [link EXCEPT ![s] = "down"]
    /\ owed' = {v \in owed : SerialNumber[v] # s}
    /\ UNCHANGED <<Id_, mapVars, ResponseQueue_, delivered, rowVars, callVars,
                   schedVars, sends, forgotten>>

-----------------------------------------------------------------------------
(* The manager thread: run. *)

FromAnyDevice(r) == TRUE
FromItsDevice(r) == SerialNumber[rpc[r.id].cmd] = r.serial

(* set_value throws when the promise has been kept already: nothing more   *)
(* happens to the answer.                                                  *)
KeepPromiseMutant(info, r) == info.rpc_entry
KeepPromise(info, r) ==
    IF info.by = "rest" /\ info.rpc_entry = NoAnswer
    THEN [from |-> r.serial, answer |-> r.answer] ELSE info.rpc_entry

(* The answers to a deferred script: one when it starts, one at its end.   *)
(* CompleteScriptCommand reads the result of an error and throws where the *)
(* device gave a result_64.                                                *)
ScriptState(info, a) ==
    CASE info.State = 1                       -> 0
      [] info.State = 2 /\ a = "ok"           -> 1
      [] info.State = 2 /\ a \in {"error", "noresult"} -> 0
      [] OTHER                                -> info.State
ScriptCompleted(info, a) == info.State = 1 \/ a \in {"ok", "error", "error64"}
ScriptReply(info, a)     == info.State = 2 /\ a # "error64"

DeferredScript(info) == info.cmd \in Deferred /\ info.by = "rest"

(* Every other answer completes its command; CompleteConfigureCommand does *)
(* it for a configure that nobody waits for.                               *)
NewState(info, a)  == IF DeferredScript(info) THEN ScriptState(info, a) ELSE 0
Completes(info, a) == DeferredScript(info) => ScriptCompleted(info, a)
Replies(info, a)   == DeferredScript(info) => ScriptReply(info, a)

HandleResponse ==
    /\ ResponseQueue_ # <<>>
    /\ ResponseQueue_' = Tail(ResponseQueue_)
    /\ LET r    == Head(ResponseQueue_)
           info == rpc[r.id]
       IN  \/ /\ r.id \in OutStandingRequests_ /\ FromItsDevice(r)
              /\ rpc' = [rpc EXCEPT ![r.id] =
                           [info EXCEPT !.State = NewState(info, r.answer),
                                        !.rpc_entry = IF Replies(info, r.answer)
                                                      THEN KeepPromise(info, r)
                                                      ELSE @]]
              /\ OutStandingRequests_' =
                   IF NewState(info, r.answer) = 0
                   THEN OutStandingRequests_ \ {r.id} ELSE OutStandingRequests_
              /\ row' = IF Completes(info, r.answer)
                        THEN CommandCompleted(info.cmd) ELSE row
           \/ /\ ~(r.id \in OutStandingRequests_ /\ FromItsDevice(r))
              /\ UNCHANGED <<rpc, OutStandingRequests_, row>>
    /\ UNCHANGED <<Id_, aged, delivered, link, Submitted, callVars, schedVars,
                   sends, forgotten, owed>>

-----------------------------------------------------------------------------
(* onJanitorTimer drops what is older than ten minutes. *)

JanitorMutant(ids) == ids
JanitorKeeps(ids) == ids \ aged

Janitor ==
    LET late == OutStandingRequests_ \cap aged
    IN  /\ late # {}
        /\ OutStandingRequests_' = JanitorKeeps(OutStandingRequests_)
        /\ forgotten' = forgotten \cup late
        /\ row' = [u \in Cmd |->
              IF row[u] # NoRow /\ \E id \in late : rpc[id].cmd = u
              THEN [row[u] EXCEPT
                      !.Executed = TRUE, !.status = "timedout",
                      !.Completed = @ \/ Command[u] = "trace"
                                      \/ \E id \in late : /\ rpc[id].cmd = u
                                                          /\ DeferredScript(rpc[id])]
              ELSE row[u]]
        /\ UNCHANGED <<Id_, rpc, aged, netVars, Submitted, callVars, schedVars,
                       sends, owed>>

(* An operator deletes a command: RemoveCommand, then DeleteCommand. *)
DeleteCommand(u) ==
    /\ Submitted[u] > 0
    /\ LET ids == {id \in OutStandingRequests_ : rpc[id].cmd = u}
       IN  /\ OutStandingRequests_' = OutStandingRequests_ \ ids
           /\ forgotten' = forgotten \cup ids
    /\ row' = [row EXCEPT ![u] = NoRow]
    /\ owed' = owed \ {u}
    /\ UNCHANGED <<Id_, rpc, aged, netVars, Submitted, callVars, schedVars, sends>>

-----------------------------------------------------------------------------
(* The scheduler: onCommandRunnerTimer. *)

Ready(r) == r # NoRow /\ ~r.held /\ ~r.Executed

Rank(u) == Cardinality({v \in Cmd : Ready(row[v]) /\ Submitted[v] < Submitted[u]})

SchedulerStart ==
    /\ sched = "idle"
    /\ sched' = "fetch"
    /\ offset' = 0
    /\ row' = [u \in Cmd |-> Retire(row[u])]
    /\ owed' = {u \in Cmd : /\ Ready(row'[u])
                            /\ Connected(SerialNumber[u])
                            /\ ~Busy(SerialNumber[u])}
    /\ UNCHANGED <<Id_, mapVars, netVars, Submitted, callVars, batch, fetched,
                   sends, forgotten>>

(* GetReadyToExecuteCommands: a page of the ready rows, of which only the  *)
(* connected devices' are returned.  None returned ends the pass.          *)
SchedulerFetch ==
    LET page == {u \in Cmd : /\ Ready(row[u])
                            /\ offset <= Rank(u) /\ Rank(u) < offset + Page}
        got  == {u \in page : Connected(SerialNumber[u])}
    IN  /\ sched = "fetch"
        /\ sched' = IF got = {} THEN "idle" ELSE "pick"
        /\ batch' = got
        /\ fetched' = Cardinality(got)
        /\ offset' = IF got = {} THEN 0 ELSE offset
        /\ UNCHANGED <<Id_, mapVars, netVars, rowVars, callVars, sends,
                       forgotten, owed>>

First(u) == u \in batch /\ \A v \in batch : Submitted[u] <= Submitted[v]

(* On to the next command, or to the next page. *)
AdvanceMutant(u) ==
    /\ batch' = {}
    /\ sched' = "fetch"
    /\ offset' = offset + fetched
    /\ UNCHANGED fetched
Advance(u) ==
    /\ batch' = batch \ {u}
    /\ sched' = IF batch = {u} THEN "fetch" ELSE "pick"
    /\ offset' = IF batch = {u} THEN offset + fetched ELSE offset
    /\ UNCHANGED fetched

DeviceFreeMutant(s) == TRUE
DeviceFree(s) == ~Busy(s)

(* A command that is not posted now: it is running, or has expired, or its *)
(* device has gone or is busy, or its details do not parse.                *)
SchedulerSkip(u) ==
    /\ sched = "pick" /\ First(u)
    /\ \/ IsCommandRunning(u) /\ UNCHANGED row
       \/ ~IsCommandRunning(u) /\ row[u].old /\ row' = SetCommandTimedOut(u)
       \/ /\ ~IsCommandRunning(u) /\ ~row[u].old
          /\ ~Connected(SerialNumber[u])
          /\ row' = SetCommandLastTry(u)
       \/ /\ ~IsCommandRunning(u) /\ ~row[u].old
          /\ Connected(SerialNumber[u])
          /\ \/ ~DeviceFree(SerialNumber[u]) /\ UNCHANGED row
             \/ DeviceFree(SerialNumber[u]) /\ row' = SetCommandExecuted(u)
    /\ Advance(u)
    /\ owed' = owed \ {u}
    /\ UNCHANGED <<Id_, mapVars, netVars, Submitted, callVars, sends, forgotten>>

SchedulerPost(u) ==
    /\ sched = "pick" /\ First(u)
    /\ ~IsCommandRunning(u) /\ ~row[u].old
    /\ Connected(SerialNumber[u])
    /\ DeviceFree(SerialNumber[u])
    /\ Goto(u, "post")
    /\ sched' = "post"
    /\ owed' = owed \ {u}
    /\ UNCHANGED <<Id_, mapVars, netVars, rowVars, rpcid, outcome, batch,
                   offset, fetched, sends, forgotten>>

(* What the pass writes when PostCommand is back. *)
AfterPostMutant(u) == IF pc[u] = "mark" THEN row ELSE SetCommandLastTry(u)
AfterPost(u) == IF pc[u] = "mark" THEN SetCommandExecuted(u)
                ELSE SetCommandLastTry(u)

SchedulerMark(u) ==
    /\ pc[u] \in {"mark", "requeue"}
    /\ row' = AfterPost(u)
    /\ Goto(u, "done")
    /\ Advance(u)
    /\ UNCHANGED <<Id_, mapVars, netVars, Submitted, rpcid, outcome, sends,
                   forgotten, owed>>

-----------------------------------------------------------------------------
(* Time passes. *)

(* RunAt, or LastTry and the retry interval, is reached. *)
BecomesDue(u) ==
    /\ row[u].held
    /\ row' = [row EXCEPT ![u].held = FALSE]
    /\ UNCHANGED <<Id_, mapVars, netVars, Submitted, callVars, schedVars, sends,
                   forgotten, owed>>

(* commandTimeOut_ is reached. *)
GrowsOld(u) ==
    /\ row[u] # NoRow /\ ~row[u].old
    /\ ~(row[u].Executed /\ row[u].Completed)
    /\ row' = [row EXCEPT ![u].old = TRUE]
    /\ owed' = owed \ {u}
    /\ UNCHANGED <<Id_, mapVars, netVars, Submitted, callVars, schedVars, sends,
                   forgotten>>

(* Ten minutes after the post.  No call waits that long for its answer.    *)
Ages(id) ==
    /\ id \in OutStandingRequests_ \ aged
    /\ pc[rpc[id].cmd] \notin {"send", "wait", "giveup"}
    /\ aged' = aged \cup {id}
    /\ UNCHANGED <<Id_, OutStandingRequests_, rpc, netVars, rowVars, callVars,
                   schedVars, sends, forgotten, owed>>

-----------------------------------------------------------------------------
Call(u) ==
    \/ DoPost(u) \/ SystemCommand(u)
    \/ WaitForCommand(u) \/ Answered(u) \/ TimeOut(u) \/ GiveUp(u)
    \/ PostCommand(u) \/ Sent(u) \/ NotSent(u)
    \/ StoreRemove(u) \/ StoreInsert(u)

Scheduler ==
    \/ SchedulerStart \/ SchedulerFetch
    \/ \E u \in Cmd : SchedulerSkip(u) \/ SchedulerPost(u) \/ SchedulerMark(u)

Device(s) ==
    \/ \E id \in RpcId, a \in Answers : PostCommandResult(s, id, a)
    \/ ConnectMessage(s) \/ ConnectDone(s) \/ ConnectionLost(s)

Next ==
    \/ \E u \in Cmd : \/ Call(u) \/ Deliver(u) \/ DeleteCommand(u)
                       \/ BecomesDue(u) \/ GrowsOld(u)
    \/ HandleResponse \/ Janitor \/ Scheduler
    \/ \E s \in Serial : Device(s)
    \/ \E id \in RpcId : Ages(id)

Spec == Init /\ [][Next]_vars

(***************************************************************************)
(* The threads and the timers keep running and time passes; devices and    *)
(* operators owe nothing.                                                  *)
(***************************************************************************)
Fairness ==
    /\ WF_vars(HandleResponse) /\ WF_vars(Janitor)
    /\ \A u \in Cmd : WF_vars(pc[u] # "idle" /\ Call(u))
    /\ \A id \in RpcId : WF_vars(Ages(id))

FairSpec == Spec /\ Fairness

-----------------------------------------------------------------------------
(* Properties. *)

TypeOK ==
    /\ Id_ \in FirstId..(FirstId + MaxId)
    /\ OutStandingRequests_ \subseteq RpcId
    /\ rpc \in [RpcId -> Info]
    /\ aged \subseteq RpcId
    /\ ResponseQueue_ \in Seq([id : RpcId, serial : Serial, answer : Answer])
    /\ delivered \subseteq RpcId
    /\ link \in [Serial -> {"down", "greeting", "up"}]
    /\ row \in [Cmd -> Row]
    /\ Submitted \in [Cmd -> Nat]
    /\ pc \in [Cmd -> {"idle", "begin", "post", "send", "wait", "giveup",
                       "store", "insert", "mark", "requeue", "done"}]
    /\ rpcid \in [Cmd -> {0} \cup RpcId]
    /\ outcome \in [Cmd -> {"none", "pending", "unanswered", "failed",
                            "completed", "executed"}]
    /\ sched \in {"idle", "fetch", "pick", "post"}
    /\ batch \subseteq Cmd /\ owed \subseteq Cmd
    /\ offset \in Nat /\ fetched \in Nat
    /\ sends \in [Cmd -> Nat]
    /\ forgotten \subseteq RpcId

(* The answer that a REST call waits for can only come from the device the *)
(* command was sent to, whatever ids other devices answer.                 *)
AnswerFromTarget ==
    \A id \in RpcId :
        rpc[id].rpc_entry # NoAnswer
            => rpc[id].rpc_entry.from = SerialNumber[rpc[id].cmd]

(* An RPC that has reached its device is in the map until it is answered   *)
(* or dropped on purpose: an answer that overtakes the return of SendFrame *)
(* finds its entry.                                                        *)
DeliveredIsTracked ==
    \A id \in delivered :
        id \in OutStandingRequests_ \/ rpc[id].State = 0 \/ id \in forgotten

(* When a REST call has returned, its RPC no longer keeps the device busy; *)
(* only a deferred script that has answered a first time goes on.          *)
ReturnedIsNotBusy ==
    \A id \in OutStandingRequests_ :
        rpc[id].by = "rest" /\ pc[rpc[id].cmd] = "done"
            => DeferredScript(rpc[id]) /\ rpc[id].rpc_entry # NoAnswer

(* What the map of outstanding RPCs says of an RPC is so: for the device,  *)
(* the answer on its way and the call alike.                               *)
EntriesAreTrue == AnswerFromTarget /\ DeliveredIsTracked /\ ReturnedIsNotBusy

(* The scheduler keeps a device busy with one command at a time.           *)
OneQueuedCommandPerDevice ==
    \A i, j \in OutStandingRequests_ :
        /\ rpc[i].by = "disk" /\ rpc[j].by = "disk"
        /\ SerialNumber[rpc[i].cmd] = SerialNumber[rpc[j].cmd]
        => i = j

(* A command that was sent with success is never sent again, by the call   *)
(* or by the scheduler.                                                    *)
SentAtMostOnce == \A u \in Cmd : sends[u] <= 1

(* The commands in the table are sent one by one, each of them once.       *)
SentInTurn == OneQueuedCommandPerDevice /\ SentAtMostOnce

(* An answer that the manager accepted is in the table once the command's  *)
(* poster is done: the row is completed, unless the row is gone or the     *)
(* call had already given up (its RPC is forgotten).                       *)
AcceptedIsRecorded ==
    \A id \in RpcId :
        LET u == rpc[id].cmd
        IN  u # NoCmd /\ rpc[id].State = 0 /\ id \notin forgotten /\ pc[u] = "done"
              => row[u] = NoRow \/ row[u].Completed

(* At the end of a pass, every command that was ready when it began and    *)
(* whose device stayed connected and idle has had its turn.                *)
NothingOwed == sched = "idle" => owed = {}

(* The first answer to the RPC of a call that has not given up is handed   *)
(* to the call.                                                            *)
AnswerReachesCall ==
    [][\A id \in RpcId :
          /\ rpc[id].by = "rest" /\ rpc[id].rpc_entry = NoAnswer
          /\ pc[rpc[id].cmd] \in {"send", "wait"}
          /\ ResponseQueue_ # <<>> /\ ResponseQueue_' = Tail(ResponseQueue_)
          /\ LET r == Head(ResponseQueue_)
             IN  r.id = id /\ r.serial = SerialNumber[rpc[id].cmd]
          /\ id \notin forgotten
          => rpc'[id].rpc_entry # NoAnswer]_vars

(* A command that the table shows as pending is one that the scheduler     *)
(* will look at.                                                           *)
PendingIsRetried ==
    \A u \in Cmd : row[u].status = "pending" => ~row[u].Executed

(* Every call returns, answered or not. *)
CallReturns == \A u \in Cmd : pc[u] = "begin" ~> pc[u] = "done"

(* No RPC keeps its device busy for ever. *)
EntryLeaves ==
    \A id \in RpcId :
        id \in OutStandingRequests_ ~> id \notin OutStandingRequests_

(* A call and its RPC come to an end, whatever the device does.            *)
CallEnds == CallReturns /\ EntryLeaves
=============================================================================
