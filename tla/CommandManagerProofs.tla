---------------------- MODULE CommandManagerProofs ----------------------
(***************************************************************************)
(* Proofs about CommandManager, for any commands, devices and RPC ids.     *)
(***************************************************************************)
EXTENDS CommandManager, FiniteSetTheorems, TLAPS

(* The poster of a command holds an RPC id here ...                        *)
Linked == {"send", "wait", "giveup", "mark", "requeue"}
(* ... and the scheduler is the poster of a command of its page here.      *)
ByScheduler == {"post", "send", "mark", "requeue"}
(* The REST call or connection handler still has to end the call.          *)
InCall(u) == u \notin batch /\ pc[u] \in {"send", "wait", "giveup"}

(* Finitely many commands have been submitted, and a command that has gone *)
(* beyond its begin is one of them.                                        *)
Submissions ==
    /\ IsFiniteSet({v \in Cmd : Submitted[v] > 0})
    /\ \A u \in Cmd : pc[u] \notin {"idle", "begin"} => Submitted[u] > 0

(* Ids are given out one by one, and only ids that were given out occur.   *)
Issued ==
    /\ \A id \in OutStandingRequests_ \cup delivered : id <= Id_
    /\ \A id \in RpcId :
         IF id <= Id_ THEN rpc[id].cmd \in Cmd /\ rpc[id].by # "nobody"
         ELSE rpc[id] = NoInfo
    /\ \A n \in 1..Len(ResponseQueue_) : ResponseQueue_[n].id <= Id_

(* A poster with an id finds its own command under it.                     *)
Posters ==
    \A u \in Cmd :
       /\ pc[u] \in Linked => /\ rpcid[u] \in RpcId /\ rpcid[u] <= Id_
                              /\ rpc[rpcid[u]].cmd = u
       /\ pc[u] = "send" => rpc[rpcid[u]].by = By(u)
       /\ pc[u] \in {"wait", "giveup"} => rpc[rpcid[u]].by = "rest"
       /\ pc[u] \in {"begin", "wait", "giveup"} => Origin[u] = "rest"
       /\ Origin[u] # "rest" /\ pc[u] \in {"store", "insert"} => outcome[u] = "executed"
       /\ PostsFirst(u) /\ u \notin batch /\ pc[u] \in {"post", "send"}
             => outcome[u] = "executed"

(* The scheduler posts one command of its page at a time, and only         *)
(* commands that have no other poster.                                     *)
Pass ==
    /\ sched \in {"idle", "fetch"} => batch = {}
    /\ \A u \in batch : pc[u] = "done" \/ (sched = "post" /\ pc[u] \in ByScheduler)
    /\ \A u, v \in batch : pc[u] # "done" /\ pc[v] # "done" => u = v
    /\ \A u \in Cmd : pc[u] \in {"mark", "requeue"} => u \in batch

(* A command has a row when its poster is done with it, but for the        *)
(* configure of LookForUpgrade, which is stored as executed and then sent. *)
Rows ==
    \A u \in Cmd :
       row[u] # NoRow /\ u \notin batch
          => \/ pc[u] = "done"
             \/ Origin[u] = "upgrade" /\ row[u].Executed /\ pc[u] \in {"post", "send"}

(* The call of u has posted nothing yet.                                   *)
Unposted(u) ==
    \/ pc[u] \in {"idle", "begin"}
    \/ pc[u] = "post" /\ u \notin batch
    \/ Origin[u] = "upgrade" /\ pc[u] \in {"store", "insert"}

(* A call posts its command once.                                          *)
PostedOnce ==
    \A id \in RpcId : rpc[id].cmd # NoCmd =>
       LET u == rpc[id].cmd
       IN  /\ ~Unposted(u)
           /\ InCall(u) => rpcid[u] = id
           /\ rpc[id].by = "disk" => u \in batch \/ pc[u] = "done"
           /\ rpc[id].by = "rest" => Origin[u] = "rest"
           /\ rpc[id].by = "system" => Origin[u] # "rest"

Structure == Submissions /\ Issued /\ Posters /\ Pass /\ Rows /\ PostedOnce

-----------------------------------------------------------------------------
(* An RPC that was given out is in the map, answered or forgotten: it is   *)
(* there before the frame is sent.                                         *)
Tracked ==
    \A id \in RpcId :
       id <= Id_ => \/ id \in OutStandingRequests_ \/ rpc[id].State = 0
                    \/ id \in forgotten

(* The RPC of a REST call that is in the map belongs to a call that is     *)
(* still waiting, or to a deferred script that has answered.               *)
RestWaits ==
    \A id \in OutStandingRequests_ : rpc[id].by = "rest" =>
       /\ rpc[id].rpc_entry # NoAnswer => DeferredScript(rpc[id])
       /\ rpc[id].rpc_entry = NoAnswer => InCall(rpc[id].cmd)

(* A REST call's RPC is not over before the promise is kept, and the       *)
(* second half of a deferred script begins with its first answer.          *)
RestAnswered ==
    \A id \in RpcId : rpc[id].by = "rest" =>
       /\ rpc[id].State = 0 => rpc[id].rpc_entry # NoAnswer
       /\ rpc[id].cmd \in Deferred /\ rpc[id].State = 1 => rpc[id].rpc_entry # NoAnswer

(* Nothing of the scheduler runs on the device it is about to post to.     *)
QueueFree ==
    \A u \in batch : pc[u] = "post" =>
       \A id \in OutStandingRequests_ :
          rpc[id].by = "disk" => SerialNumber[rpc[id].cmd] # SerialNumber[u]

(* The call of u is past its frame: a row that it leaves is executed.      *)
Passed(u) ==
    \/ pc[u] \in {"wait", "giveup", "mark"}
    \/ pc[u] \in {"store", "insert"} /\ outcome[u] # "pending" /\ Origin[u] # "upgrade"
    \/ pc[u] = "done" /\ u \notin batch /\ (row[u] = NoRow \/ row[u].Executed)

(* A command that was sent is not posted again.                            *)
SentOnce ==
    \A u \in Cmd : sends[u] <= 1 /\ (sends[u] > 0 => Passed(u))

(* Nothing is read from a device while Process_recovery is posting.        *)
HandlerHoldsQueue ==
    \A n \in 1..Len(ResponseQueue_) :
       LET r == ResponseQueue_[n]
           u == rpc[r.id].cmd
       IN  rpc[r.id].by = "system" /\ PostsFirst(u) /\ r.serial = SerialNumber[u]
             => pc[u] = "done" \/ u \in batch

(* A REST call that has its answer, a poster that is done, and a row that  *)
(* is complete or gone.                                                    *)
Concluded(u) == pc[u] \in {"store", "insert"} /\ outcome[u] \in {"completed", "failed"}
Over(u)      == pc[u] = "done" \/ u \in batch
Settled(u)   == row[u] = NoRow \/ row[u].Completed

(* A REST call that did not give its RPC up ends with a completed row, and *)
(* so does every other RPC that is answered.                               *)
RecordedFor(id, u) ==
    u # NoCmd /\ id \notin forgotten =>
       /\ rpc[id].by = "rest" => \/ InCall(u) \/ Concluded(u)
                                 \/ Over(u) /\ Settled(u)
       /\ rpc[id].by # "rest" /\ rpc[id].State = 0 =>
             (Over(u) \/ Origin[u] = "upgrade") /\ Settled(u)

Recorded == \A id \in RpcId : RecordedFor(id, rpc[id].cmd)

CommandInv ==
    /\ TypeOK /\ Structure
    /\ Tracked /\ RestWaits /\ RestAnswered /\ AnswerFromTarget
    /\ OneQueuedCommandPerDevice /\ QueueFree /\ SentOnce
    /\ HandlerHoldsQueue /\ Recorded

-----------------------------------------------------------------------------
(* The table. *)

(* A row that is not the poster's own only leaves the table or goes on.    *)
RowsAdvance ==
    /\ row' \in [Cmd -> Row]
    /\ \A u \in Cmd : row'[u] # NoRow =>
          /\ row[u] # NoRow
          /\ row[u].Executed => row'[u].Executed
          /\ row[u].Completed => row'[u].Completed

LEMMA OneRowAdvances ==
    ASSUME row \in [Cmd -> Row], NEW u \in Cmd, NEW r \in Row,
           row' = [row EXCEPT ![u] = r],
           r # NoRow => /\ row[u] # NoRow
                        /\ row[u].Executed => r.Executed
                        /\ row[u].Completed => r.Completed
    PROVE  RowsAdvance
BY DEF RowsAdvance

LEMMA UpdateAdvances ==
    ASSUME row \in [Cmd -> Row], NEW u \in Cmd, NEW r \in Row,
           row' = Update(u, r),
           row[u].Executed => r.Executed,
           row[u].Completed => r.Completed
    PROVE  RowsAdvance
<1> DEFINE new == IF row[u] = NoRow THEN NoRow ELSE r
<1>1. NoRow \in Row
    BY DEF NoRow, Row, Status
<1>2. row' = [row EXCEPT ![u] = new] /\ new \in Row
    BY <1>1 DEF Update
<1> QED BY <1>2, OneRowAdvances

LEMMA SetsAdvance ==
    ASSUME row \in [Cmd -> Row], NEW u \in Cmd,
           \/ row' = SetCommandExecuted(u) \/ row' = SetCommandTimedOut(u)
           \/ row' = SetCommandLastTry(u) \/ row' = CommandCompleted(u)
    PROVE  RowsAdvance
<1>0. row[u] \in Row
    OBVIOUS
<1>1. CASE row' = SetCommandExecuted(u)
    <2> DEFINE r == [row[u] EXCEPT !.Executed = TRUE, !.status = "executed"]
    <2>1. r \in Row /\ r.Executed /\ r.Completed = row[u].Completed
        BY <1>0 DEF Row, Status
    <2> QED BY <1>1, <2>1, UpdateAdvances DEF SetCommandExecuted
<1>2. CASE row' = SetCommandTimedOut(u)
    <2> DEFINE r == [row[u] EXCEPT !.Executed = TRUE, !.status = "timedout"]
    <2>1. r \in Row /\ r.Executed /\ r.Completed = row[u].Completed
        BY <1>0 DEF Row, Status
    <2> QED BY <1>2, <2>1, UpdateAdvances DEF SetCommandTimedOut
<1>3. CASE row' = SetCommandLastTry(u)
    <2> DEFINE r == [row[u] EXCEPT !.held = TRUE]
    <2>1. r \in Row /\ r.Executed = row[u].Executed /\ r.Completed = row[u].Completed
        BY <1>0 DEF Row, Status
    <2> QED BY <1>3, <2>1, UpdateAdvances DEF SetCommandLastTry
<1>4. CASE row' = CommandCompleted(u)
    <2> DEFINE r == [row[u] EXCEPT !.Completed = TRUE, !.status = "completed"]
    <2>1. r \in Row /\ r.Executed = row[u].Executed /\ r.Completed
        BY <1>0 DEF Row, Status
    <2> QED BY <1>4, <2>1, UpdateAdvances DEF CommandCompleted
<1> QED BY <1>1, <1>2, <1>3, <1>4

LEMMA RetireAdvances ==
    ASSUME row \in [Cmd -> Row], row' = [u \in Cmd |-> Retire(row[u])]
    PROVE  RowsAdvance
<1>1. \A r \in Row : /\ Retire(r) \in Row
                     /\ r.Executed => Retire(r).Executed
                     /\ Retire(r).Completed = r.Completed
    BY DEF Row, Retire, Status
<1>2. Retire(NoRow) = NoRow
    BY DEF Retire, NoRow
<1> QED BY <1>1, <1>2 DEF RowsAdvance

(* The other rows that a step of Next writes.                              *)
LEMMA StepsAdvance ==
    ASSUME TypeOK, NEW u \in Cmd,
           \/ row' = row \/ row' = RemoveOldCommands(u)
           \/ row' = [row EXCEPT ![u] = NoRow] \/ BecomesDue(u) \/ GrowsOld(u)
    PROVE  RowsAdvance
<1>0. row \in [Cmd -> Row] /\ row[u] \in Row /\ NoRow \in Row
    BY DEF TypeOK, NoRow, Row, Status
<1>1. CASE row' = row \/ row' = RemoveOldCommands(u)
    BY <1>0, <1>1 DEF RemoveOldCommands, RowsAdvance
<1>2. CASE row' = [row EXCEPT ![u] = NoRow]
    BY <1>0, <1>2, OneRowAdvances
<1>3. CASE BecomesDue(u)
    <2> DEFINE r == [row[u] EXCEPT !.held = FALSE]
    <2>1. /\ r \in Row /\ r.Executed = row[u].Executed
          /\ r.Completed = row[u].Completed
        BY <1>0 DEF Row, Status
    <2>2. row' = [row EXCEPT ![u] = r] /\ row[u] # NoRow
        BY <1>0, <1>3 DEF BecomesDue, NoRow
    <2> QED BY <1>0, <2>1, <2>2, OneRowAdvances
<1>4. CASE GrowsOld(u)
    <2> DEFINE r == [row[u] EXCEPT !.old = TRUE]
    <2>1. /\ r \in Row /\ r.Executed = row[u].Executed
          /\ r.Completed = row[u].Completed
        BY <1>0 DEF Row, Status
    <2>2. row' = [row EXCEPT ![u] = r] /\ row[u] # NoRow
        BY <1>0, <1>4 DEF GrowsOld
    <2> QED BY <1>0, <2>1, <2>2, OneRowAdvances
<1> QED BY <1>1, <1>2, <1>3, <1>4

LEMMA JanitorAdvances ==
    ASSUME TypeOK, Janitor
    PROVE  RowsAdvance
<1> DEFINE late == OutStandingRequests_ \cap aged
           done(u) == row[u].Completed \/ Command[u] = "trace"
                         \/ \E id \in late : rpc[id].cmd = u /\ DeferredScript(rpc[id])
           r(u) == [row[u] EXCEPT !.Executed = TRUE, !.status = "timedout",
                                  !.Completed = done(u)]
           hit(u) == row[u] # NoRow /\ \E id \in late : rpc[id].cmd = u
<1>1. row' = [u \in Cmd |-> IF hit(u) THEN r(u) ELSE row[u]]
    BY DEF Janitor
<1>2. \A u \in Cmd : done(u) \in BOOLEAN
    BY DEF TypeOK, Row
<1>3. \A u \in Cmd : row[u].Completed => done(u)
    OBVIOUS
<1> HIDE DEF done
<1>4. \A u \in Cmd : /\ r(u) \in Row /\ r(u).Executed
                     /\ row[u].Completed => r(u).Completed
    BY <1>2, <1>3 DEF TypeOK, Row, Status
<1> HIDE DEF r
<1> QED BY <1>1, <1>4 DEF TypeOK, RowsAdvance

-----------------------------------------------------------------------------
(* Types. *)

LEMMA NoRowType == NoRow \in Row
BY DEF NoRow, Row, Status

LEMMA NewIdType ==
    ASSUME TypeOK, Id_ < MaxId
    PROVE  /\ Id_ + 1 \in RpcId /\ Id_ + 1 \in FirstId..(FirstId + MaxId)
           /\ Id_ \in Nat
BY CommandAssumption DEF CommandAssumption, TypeOK, RpcId, FirstId

LEMMA SubmittedIsCounted ==
    ASSUME TypeOK, Submissions, NEW u \in Cmd,
           Submitted' = [Submitted EXCEPT ![u] = NextSubmitted]
    PROVE  /\ Submitted' \in [Cmd -> Nat] /\ Submitted'[u] > 0
           /\ \A v \in Cmd : v # u => Submitted'[v] = Submitted[v]
           /\ IsFiniteSet({v \in Cmd : Submitted'[v] > 0})
<1> DEFINE S == {v \in Cmd : Submitted[v] > 0}
           T == {v \in Cmd : Submitted'[v] > 0}
<1>1. Cardinality(S) \in Nat
    BY FS_CardinalityType DEF Submissions
<1>2. NextSubmitted \in Nat /\ NextSubmitted > 0
    BY <1>1 DEF NextSubmitted
<1>3. /\ Submitted' \in [Cmd -> Nat] /\ Submitted'[u] > 0
      /\ \A v \in Cmd : v # u => Submitted'[v] = Submitted[v]
    BY <1>2 DEF TypeOK
<1>4. T = S \cup {u}
    BY <1>3
<1>5. IsFiniteSet(S \cup {u})
    BY FS_AddElement DEF Submissions
<1> QED BY <1>3, <1>4, <1>5

(* What HandleResponse does to the entry of an answer.                     *)
LEMMA EntryType ==
    ASSUME NEW info \in Info, NEW r \in [id : RpcId, serial : Serial, answer : Answer]
    PROVE  [info EXCEPT !.State = NewState(info, r.answer),
                        !.rpc_entry = IF Replies(info, r.answer)
                                      THEN KeepPromise(info, r) ELSE @] \in Info
<1>1. NewState(info, r.answer) \in 0..2
    BY DEF NewState, ScriptState, Info
<1>2. KeepPromise(info, r) \in {NoAnswer} \cup [from : Serial, answer : Answer]
    BY DEF KeepPromise, Info
<1> DEFINE e == IF Replies(info, r.answer) THEN KeepPromise(info, r) ELSE info.rpc_entry
           s == NewState(info, r.answer)
<1>3. e \in {NoAnswer} \cup [from : Serial, answer : Answer] /\ s \in 0..2
    BY <1>1, <1>2 DEF Info
<1> HIDE DEF e, s
<1>4. [info EXCEPT !.State = s, !.rpc_entry = e] \in Info
    BY <1>3 DEF Info
<1> QED BY <1>4 DEF e, s

LEMMA PostTypes ==
    ASSUME TypeOK, NEW u \in Cmd, PostCommand(u)
    PROVE  TypeOK'
<1> DEFINE new == [cmd |-> u, by |-> By(u),
                   State |-> IF u \in Deferred /\ By(u) = "rest" THEN 2 ELSE 1,
                   rpc_entry |-> NoAnswer]
<1>1. Id_ + 1 \in RpcId /\ Id_' \in FirstId..(FirstId + MaxId)
    BY NewIdType DEF PostCommand
<1>2. new \in Info
    BY DEF Info, By
<1> HIDE DEF new
<1>3. rpc' = [rpc EXCEPT ![Id_ + 1] = new]
    BY DEF PostCommand, new
<1>4. rpc' \in [RpcId -> Info] /\ OutStandingRequests_' \subseteq RpcId
    BY <1>1, <1>2, <1>3 DEF PostCommand, EntersMap, TypeOK
<1>5. /\ rpcid' \in [Cmd -> {0} \cup RpcId] /\ owed' \subseteq Cmd
      /\ pc' = [pc EXCEPT ![u] = "send"]
    BY <1>1 DEF PostCommand, TypeOK, Goto
<1> QED BY <1>1, <1>4, <1>5 DEF PostCommand, TypeOK, netVars, rowVars, schedVars

LEMMA CallTypes ==
    ASSUME TypeOK, Structure, NEW u \in Cmd, Call(u)
    PROVE  TypeOK'
<1>1. CASE DoPost(u)
    BY <1>1 DEF DoPost, Goto, TypeOK, mapVars, netVars, rowVars, schedVars
<1>2. CASE SystemCommand(u)
    <2>1. Submitted' \in [Cmd -> Nat]
        BY <1>2, SubmittedIsCounted DEF SystemCommand, Structure
    <2> QED BY <1>2, <2>1
            DEF SystemCommand, Goto, TypeOK, mapVars, netVars, schedVars
<1>3. CASE WaitForCommand(u)
    <2>1. Submitted' \in [Cmd -> Nat]
        BY <1>3, SubmittedIsCounted DEF WaitForCommand, Structure
    <2> QED BY <1>3, <2>1
            DEF WaitForCommand, Goto, TypeOK, mapVars, netVars, schedVars
<1>4. CASE Answered(u)
    <2>1. PICK o \in Outcomes(u, rpc[rpcid[u]].rpc_entry.answer) :
             outcome' = [outcome EXCEPT ![u] = o]
        BY <1>4 DEF Answered
    <2>2. o \in {"completed", "failed"}
        BY DEF Outcomes
    <2> QED BY <1>4, <2>1, <2>2
            DEF Answered, Goto, TypeOK, mapVars, netVars, rowVars, schedVars
<1>5. CASE TimeOut(u)
    BY <1>5 DEF TimeOut, Goto, TypeOK, mapVars, netVars, rowVars, schedVars
<1>6. CASE GiveUp(u)
    <2>1. rpcid[u] \in RpcId
        BY <1>6 DEF GiveUp, Structure, Posters, Linked
    <2> QED BY <1>6, <2>1 DEF GiveUp, WithoutPending, Goto, TypeOK, netVars,
                              rowVars, schedVars
<1>7. CASE PostCommand(u)
    BY <1>7, PostTypes
<1>8. CASE Sent(u)
    <2>1. OutStandingRequests_' = OutStandingRequests_ /\ sends' \in [Cmd -> Nat]
        BY <1>8 DEF Sent, EntersMap, TypeOK
    <2>2. pc' \in [Cmd -> {"idle", "begin", "post", "send", "wait", "giveup",
                           "store", "insert", "mark", "requeue", "done"}]
        BY <1>8 DEF Sent, Goto, TypeOK
    <2> QED BY <1>8, <2>1, <2>2 DEF Sent, TypeOK, netVars, rowVars, schedVars
<1>9. CASE NotSent(u)
    <2>1. rpcid[u] \in RpcId
        BY <1>9 DEF NotSent, Structure, Posters, Linked
    <2>2. pc' \in [Cmd -> {"idle", "begin", "post", "send", "wait", "giveup",
                           "store", "insert", "mark", "requeue", "done"}]
        BY <1>9 DEF NotSent, Goto, TypeOK
    <2>3. outcome' \in [Cmd -> {"none", "pending", "unanswered", "failed",
                                "completed", "executed"}]
        BY <1>9 DEF NotSent, TypeOK
    <2> QED BY <1>9, <2>1, <2>2, <2>3 DEF NotSent, TypeOK, netVars, rowVars, schedVars
<1>10. CASE StoreRemove(u)
    <2>1. row' \in [Cmd -> Row]
        BY <1>10, StepsAdvance DEF StoreRemove, RowsAdvance
    <2> QED BY <1>10, <2>1 DEF StoreRemove, Goto, TypeOK, mapVars, netVars, schedVars
<1>11. CASE StoreInsert(u)
    <2>1. NewRow(u) \in Row
        BY DEF NewRow, Row, Status, TypeOK
    <2> QED BY <1>11, <2>1 DEF StoreInsert, Goto, TypeOK, mapVars, netVars, schedVars
<1> QED BY <1>1, <1>2, <1>3, <1>4, <1>5, <1>6, <1>7, <1>8, <1>9, <1>10, <1>11 DEF Call

LEMMA SchedulerTypes ==
    ASSUME TypeOK, Structure, Scheduler
    PROVE  TypeOK'
<1>1. CASE SchedulerStart
    <2>1. row' \in [Cmd -> Row]
        BY <1>1, RetireAdvances DEF SchedulerStart, RowsAdvance, TypeOK
    <2> QED BY <1>1, <2>1 DEF SchedulerStart, TypeOK, mapVars, netVars, callVars
<1>2. CASE SchedulerFetch
    <2> DEFINE got == {u \in {v \in Cmd : /\ Ready(row[v])
                                          /\ offset <= Rank(v)
                                          /\ Rank(v) < offset + Page} :
                         Connected(SerialNumber[u])}
    <2>1. got \subseteq {v \in Cmd : Submitted[v] > 0}
        <3>1. \A v \in Cmd : Ready(row[v]) => Submitted[v] > 0
            BY <1>2 DEF SchedulerFetch, Ready, Structure, Rows, Pass, Submissions
        <3> QED BY <3>1
    <2>2. Cardinality(got) \in Nat
        <3>1. IsFiniteSet({v \in Cmd : Submitted[v] > 0})
            BY DEF Structure, Submissions
        <3>2. IsFiniteSet(got)
            BY <2>1, <3>1, FS_Subset
        <3> QED BY <3>2, FS_CardinalityType
    <2>3. /\ sched' = IF got = {} THEN "idle" ELSE "pick"
          /\ batch' = got /\ fetched' = Cardinality(got)
          /\ offset' = IF got = {} THEN 0 ELSE offset
          /\ UNCHANGED <<Id_, mapVars, netVars, rowVars, callVars, sends,
                         forgotten, owed>>
        BY <1>2 DEF SchedulerFetch
    <2>4. got \subseteq Cmd
        OBVIOUS
    <2> HIDE DEF got
    <2> QED BY <2>2, <2>3, <2>4 DEF TypeOK, mapVars, netVars, rowVars, callVars
<1> SUFFICES ASSUME NEW u \in Cmd,
                    SchedulerSkip(u) \/ SchedulerPost(u) \/ SchedulerMark(u)
             PROVE  TypeOK'
    BY <1>1, <1>2 DEF Scheduler
<1>3. ASSUME Advance(u)
      PROVE  /\ batch' \subseteq Cmd /\ sched' \in {"idle", "fetch", "pick", "post"}
             /\ offset' \in Nat /\ fetched' \in Nat
    BY <1>3 DEF Advance, TypeOK
<1>4. CASE SchedulerSkip(u)
    <2>1. row' \in [Cmd -> Row]
        <3>1. \/ row' = row \/ row' = SetCommandTimedOut(u)
              \/ row' = SetCommandLastTry(u) \/ row' = SetCommandExecuted(u)
            BY <1>4 DEF SchedulerSkip
        <3> QED BY <3>1, SetsAdvance DEF RowsAdvance, TypeOK
    <2>2. Advance(u) /\ owed' = owed \ {u}
        BY <1>4 DEF SchedulerSkip
    <2> QED BY <1>3, <1>4, <2>1, <2>2
            DEF SchedulerSkip, TypeOK, mapVars, netVars, callVars
<1>5. CASE SchedulerPost(u)
    BY <1>5 DEF SchedulerPost, Goto, TypeOK, mapVars, netVars, rowVars
<1>6. CASE SchedulerMark(u)
    <2>1. row' \in [Cmd -> Row]
        <3>1. row' = SetCommandExecuted(u) \/ row' = SetCommandLastTry(u)
            BY <1>6 DEF SchedulerMark, AfterPost
        <3> QED BY <3>1, SetsAdvance DEF RowsAdvance, TypeOK
    <2>2. Advance(u) /\ pc' = [pc EXCEPT ![u] = "done"]
        BY <1>6 DEF SchedulerMark, Goto
    <2> QED BY <1>3, <1>6, <2>1, <2>2 DEF SchedulerMark, TypeOK, mapVars, netVars
<1> QED BY <1>4, <1>5, <1>6

LEMMA OtherTypes ==
    ASSUME TypeOK, Structure, NEW u \in Cmd,
           Deliver(u) \/ DeleteCommand(u) \/ BecomesDue(u) \/ GrowsOld(u)
    PROVE  TypeOK'
<1>1. CASE Deliver(u)
    <2>1. rpcid[u] \in RpcId
        BY <1>1 DEF Deliver, Structure, Posters, Linked
    <2> QED BY <1>1, <2>1 DEF Deliver, TypeOK, mapVars, rowVars, callVars, schedVars
<1>2. CASE DeleteCommand(u)
    <2>1. row' \in [Cmd -> Row]
        BY <1>2, StepsAdvance DEF DeleteCommand, RowsAdvance
    <2> QED BY <1>2, <2>1 DEF DeleteCommand, TypeOK, netVars, callVars, schedVars
<1>3. CASE BecomesDue(u)
    <2>1. row' \in [Cmd -> Row]
        BY <1>3, StepsAdvance DEF RowsAdvance
    <2> QED BY <1>3, <2>1 DEF BecomesDue, TypeOK, mapVars, netVars, callVars, schedVars
<1>4. CASE GrowsOld(u)
    <2>1. row' \in [Cmd -> Row]
        BY <1>4, StepsAdvance DEF RowsAdvance
    <2> QED BY <1>4, <2>1 DEF GrowsOld, TypeOK, mapVars, netVars, callVars, schedVars
<1> QED BY <1>1, <1>2, <1>3, <1>4

LEMMA JanitorTypes ==
    ASSUME TypeOK, Janitor
    PROVE  TypeOK'
<1>1. row' \in [Cmd -> Row]
    BY JanitorAdvances DEF RowsAdvance
<1>2. /\ OutStandingRequests_' \subseteq RpcId /\ forgotten' \subseteq RpcId
      /\ UNCHANGED <<Id_, rpc, aged, netVars, Submitted, callVars, schedVars,
                     sends, owed>>
    BY DEF Janitor, JanitorKeeps, TypeOK
<1> QED BY <1>1, <1>2 DEF TypeOK, netVars, callVars, schedVars

(* What is at the head of the queue.                                       *)
LEMMA HeadOfQueue ==
    ASSUME TypeOK, ResponseQueue_ # <<>>
    PROVE  /\ Head(ResponseQueue_) \in [id : RpcId, serial : Serial, answer : Answer]
           /\ Head(ResponseQueue_) = ResponseQueue_[1]
           /\ 1 \in 1..Len(ResponseQueue_)
           /\ Tail(ResponseQueue_) \in Seq([id : RpcId, serial : Serial, answer : Answer])
           /\ Len(Tail(ResponseQueue_)) = Len(ResponseQueue_) - 1
           /\ \A n \in 1..Len(Tail(ResponseQueue_)) :
                 /\ n + 1 \in 1..Len(ResponseQueue_)
                 /\ Tail(ResponseQueue_)[n] = ResponseQueue_[n + 1]
<1> DEFINE R == [id : RpcId, serial : Serial, answer : Answer]
<1>1. ResponseQueue_ \in Seq(R)
    BY DEF TypeOK
<1> HIDE DEF R
<1>2. Len(ResponseQueue_) \in Nat /\ Len(ResponseQueue_) # 0
    BY <1>1
<1>3. Head(ResponseQueue_) = ResponseQueue_[1] /\ 1 \in 1..Len(ResponseQueue_)
    BY <1>1, <1>2
<1>4. Head(ResponseQueue_) \in R
    BY <1>1, <1>3
<1>5. /\ Tail(ResponseQueue_) \in Seq(R)
      /\ Len(Tail(ResponseQueue_)) = Len(ResponseQueue_) - 1
    BY <1>1, <1>2
<1>6. \A n \in 1..(Len(ResponseQueue_) - 1) :
         Tail(ResponseQueue_)[n] = ResponseQueue_[n + 1]
    BY <1>1, <1>2
<1> QED BY <1>2, <1>3, <1>4, <1>5, <1>6 DEF R

(* The manager takes answer r for the RPC of its id, whose entry becomes e. *)
Accepts(r, e) ==
    /\ r.id \in OutStandingRequests_ /\ SerialNumber[rpc[r.id].cmd] = r.serial
    /\ rpc[r.id].cmd \in Cmd
    /\ rpc' = [rpc EXCEPT ![r.id] = e]
    /\ e.cmd = rpc[r.id].cmd /\ e.by = rpc[r.id].by
    /\ e.State = NewState(rpc[r.id], r.answer)
    /\ e.rpc_entry = IF Replies(rpc[r.id], r.answer) THEN KeepPromise(rpc[r.id], r)
                     ELSE rpc[r.id].rpc_entry
    /\ OutStandingRequests_' = IF e.State = 0 THEN OutStandingRequests_ \ {r.id}
                               ELSE OutStandingRequests_
    /\ row' = IF Completes(rpc[r.id], r.answer)
              THEN CommandCompleted(rpc[r.id].cmd) ELSE row

(* The manager takes answer r and does nothing with it.                    *)
Ignores(r) ==
    /\ ~(r.id \in OutStandingRequests_ /\ SerialNumber[rpc[r.id].cmd] = r.serial)
    /\ UNCHANGED <<rpc, OutStandingRequests_, row>>

LEMMA ResponseStep ==
    ASSUME TypeOK, Structure, HandleResponse
    PROVE  /\ ResponseQueue_ # <<>> /\ ResponseQueue_' = Tail(ResponseQueue_)
           /\ UNCHANGED <<Id_, aged, delivered, link, Submitted, callVars,
                          schedVars, sends, forgotten, owed>>
           /\ \E r \in [id : RpcId, serial : Serial, answer : Answer] :
                 /\ r = Head(ResponseQueue_) /\ r = ResponseQueue_[1]
                 /\ 1 \in 1..Len(ResponseQueue_)
                 /\ Ignores(r) \/ \E e \in Info : Accepts(r, e)
<1> DEFINE r == Head(ResponseQueue_)
           info == rpc[r.id]
           e == [info EXCEPT !.State = NewState(info, r.answer),
                             !.rpc_entry = IF Replies(info, r.answer)
                                           THEN KeepPromise(info, r) ELSE @]
<1>1. /\ r \in [id : RpcId, serial : Serial, answer : Answer]
      /\ r = ResponseQueue_[1] /\ 1 \in 1..Len(ResponseQueue_)
    BY HeadOfQueue DEF HandleResponse
<1>2. info \in Info
    BY <1>1 DEF TypeOK
<1>3. e \in Info
    BY <1>1, <1>2, EntryType
<1>4. /\ e.cmd = info.cmd /\ e.by = info.by
      /\ e.State = NewState(info, r.answer)
      /\ e.rpc_entry = IF Replies(info, r.answer) THEN KeepPromise(info, r)
                       ELSE info.rpc_entry
    BY <1>2 DEF Info
<1>5. r.id \in OutStandingRequests_ => info.cmd \in Cmd
    BY <1>1 DEF Structure, Issued
<1>6. /\ ResponseQueue_ # <<>> /\ ResponseQueue_' = Tail(ResponseQueue_)
      /\ UNCHANGED <<Id_, aged, delivered, link, Submitted, callVars,
                     schedVars, sends, forgotten, owed>>
    BY DEF HandleResponse
<1>7. \/ /\ r.id \in OutStandingRequests_ /\ SerialNumber[info.cmd] = r.serial
         /\ rpc' = [rpc EXCEPT ![r.id] = e]
         /\ OutStandingRequests_' =
              IF NewState(info, r.answer) = 0
              THEN OutStandingRequests_ \ {r.id} ELSE OutStandingRequests_
         /\ row' = IF Completes(info, r.answer)
                   THEN CommandCompleted(info.cmd) ELSE row
      \/ Ignores(r)
    BY DEF HandleResponse, FromItsDevice, Ignores
<1> HIDE DEF e
<1>8. Ignores(r) \/ Accepts(r, e)
    BY <1>4, <1>5, <1>7 DEF Accepts
<1> HIDE DEF r
<1> QED BY <1>1, <1>3, <1>6, <1>8 DEF r

LEMMA ResponseTypes ==
    ASSUME TypeOK, Structure, HandleResponse
    PROVE  TypeOK' /\ RowsAdvance
<1>1. PICK r \in [id : RpcId, serial : Serial, answer : Answer] :
         Ignores(r) \/ \E e \in Info : Accepts(r, e)
    BY ResponseStep
<1>2. ResponseQueue_' \in Seq([id : RpcId, serial : Serial, answer : Answer])
    BY ResponseStep, HeadOfQueue
<1>3. rpc' \in [RpcId -> Info] /\ OutStandingRequests_' \subseteq RpcId
    BY <1>1 DEF TypeOK, Ignores, Accepts
<1>4. RowsAdvance
    <2>1. CASE row' = row
        BY <2>1 DEF RowsAdvance, TypeOK
    <2>2. CASE rpc[r.id].cmd \in Cmd /\ row' = CommandCompleted(rpc[r.id].cmd)
        BY <2>2, SetsAdvance DEF TypeOK
    <2> QED BY <1>1, <2>1, <2>2 DEF Ignores, Accepts
<1>5. UNCHANGED <<Id_, aged, delivered, link, Submitted, callVars,
                  schedVars, sends, forgotten, owed>>
    BY ResponseStep
<1> QED BY <1>2, <1>3, <1>4, <1>5 DEF TypeOK, RowsAdvance, callVars, schedVars

LEMMA DeviceTypes ==
    ASSUME TypeOK, NEW s \in Serial, Device(s)
    PROVE  TypeOK'
<1>1. ASSUME NEW id \in RpcId, NEW a \in Answers, PostCommandResult(s, id, a)
      PROVE  TypeOK'
    <2> DEFINE r == [id |-> id, serial |-> s, answer |-> a]
    <2>1. r \in [id : RpcId, serial : Serial, answer : Answer]
        BY CommandAssumption DEF CommandAssumption
    <2>2. ResponseQueue_' = Append(ResponseQueue_, r)
        BY <1>1 DEF PostCommandResult
    <2> HIDE DEF r
    <2>3. ResponseQueue_' \in Seq([id : RpcId, serial : Serial, answer : Answer])
        BY <2>1, <2>2 DEF TypeOK
    <2> QED BY <1>1, <2>3 DEF PostCommandResult, TypeOK, mapVars, rowVars, callVars,
                              schedVars
<1>2. CASE ConnectMessage(s)
    BY <1>2 DEF ConnectMessage, OfDevice, TypeOK, rowVars, callVars, schedVars
<1>3. CASE ConnectDone(s) \/ ConnectionLost(s)
    BY <1>3 DEF ConnectDone, ConnectionLost, TypeOK, mapVars, rowVars, callVars,
                schedVars
<1> QED BY <1>1, <1>2, <1>3 DEF Device

LEMMA TypesHold ==
    ASSUME TypeOK, Structure, [Next]_vars
    PROVE  TypeOK'
<1>1. ASSUME NEW id \in RpcId, Ages(id)
      PROVE  TypeOK'
    BY <1>1 DEF Ages, TypeOK, netVars, rowVars, callVars, schedVars
<1>2. CASE UNCHANGED vars
    BY <1>2 DEF vars, TypeOK, mapVars, netVars, rowVars, callVars, schedVars
<1> QED BY <1>1, <1>2, CallTypes, OtherTypes, ResponseTypes, JanitorTypes,
           SchedulerTypes, DeviceTypes DEF Next

-----------------------------------------------------------------------------
(* Posters, scheduler and rows. *)

(* Steps that move no poster: the devices, the manager thread, the timers. *)
LEMMA QuietKeepsStructure ==
    ASSUME TypeOK, TypeOK', Structure, RowsAdvance,
           UNCHANGED <<Id_, Submitted, pc, rpcid, outcome, batch>>,
           sched' = sched \/ (sched = "idle" /\ sched' = "fetch"),
           \A id \in RpcId : /\ rpc'[id].cmd = rpc[id].cmd /\ rpc'[id].by = rpc[id].by
                             /\ id > Id_ => rpc'[id] = rpc[id],
           OutStandingRequests_' \subseteq OutStandingRequests_,
           \A id \in delivered' : id <= Id_,
           \A n \in 1..Len(ResponseQueue_') : ResponseQueue_'[n].id <= Id_
    PROVE  Structure'
<1> USE DEF Structure
<1>1. Submissions'
    BY DEF Submissions
<1>2. Issued'
    <2>1. \A id \in OutStandingRequests_' \cup delivered' : id <= Id_
        BY DEF Issued
    <2>2. \A id \in RpcId : IF id <= Id_ THEN rpc'[id].cmd \in Cmd /\ rpc'[id].by # "nobody"
                            ELSE rpc'[id] = NoInfo
        <3> SUFFICES ASSUME NEW id \in RpcId
                     PROVE  IF id <= Id_ THEN rpc'[id].cmd \in Cmd /\ rpc'[id].by # "nobody"
                            ELSE rpc'[id] = NoInfo
            OBVIOUS
        <3>1. id <= Id_ \/ id > Id_
            BY DEF TypeOK, RpcId, FirstId
        <3> QED BY <3>1 DEF Issued
    <2> QED BY <2>1, <2>2 DEF Issued
<1>3. Posters'
    <2> SUFFICES ASSUME NEW u \in Cmd
                 PROVE
       /\ pc[u] \in Linked => /\ rpcid[u] \in RpcId /\ rpcid[u] <= Id_
                              /\ rpc'[rpcid[u]].cmd = u
       /\ pc[u] = "send" => rpc'[rpcid[u]].by = By(u)
       /\ pc[u] \in {"wait", "giveup"} => rpc'[rpcid[u]].by = "rest"
       /\ pc[u] \in {"begin", "wait", "giveup"} => Origin[u] = "rest"
       /\ Origin[u] # "rest" /\ pc[u] \in {"store", "insert"} => outcome[u] = "executed"
       /\ PostsFirst(u) /\ u \notin batch /\ pc[u] \in {"post", "send"}
             => outcome[u] = "executed"
        BY DEF Posters, By, PostsFirst
    <2> QED BY DEF Posters, Linked
<1>4. Pass'
    BY DEF Pass
<1>5. Rows'
    BY DEF Rows, RowsAdvance
<1>6. PostedOnce'
    <2> SUFFICES ASSUME NEW id \in RpcId, rpc[id].cmd # NoCmd
                 PROVE  LET u == rpc[id].cmd
                        IN  /\ ~Unposted(u)'
                            /\ InCall(u)' => rpcid[u] = id
                            /\ rpc[id].by = "disk" => u \in batch \/ pc[u] = "done"
                            /\ rpc[id].by = "rest" => Origin[u] = "rest"
                            /\ rpc[id].by = "system" => Origin[u] # "rest"
        BY DEF PostedOnce, Unposted, InCall
    <2> QED BY DEF PostedOnce, Unposted, InCall
<1> QED BY <1>1, <1>2, <1>3, <1>4, <1>5, <1>6

LEMMA PostKeepsStructure ==
    ASSUME TypeOK, TypeOK', Structure, NEW u \in Cmd, PostCommand(u)
    PROVE  Structure'
<1> USE DEF Structure
<1> DEFINE new == [cmd |-> u, by |-> By(u),
                   State |-> IF u \in Deferred /\ By(u) = "rest" THEN 2 ELSE 1,
                   rpc_entry |-> NoAnswer]
<1>1. /\ pc[u] = "post" /\ Id_' = Id_ + 1
      /\ rpc' = [rpc EXCEPT ![Id_ + 1] = new]
      /\ OutStandingRequests_' = OutStandingRequests_ \cup {Id_ + 1}
      /\ rpcid' = [rpcid EXCEPT ![u] = Id_ + 1]
      /\ pc' = [pc EXCEPT ![u] = "send"]
      /\ UNCHANGED <<aged, netVars, rowVars, outcome, schedVars, sends, forgotten>>
    BY DEF PostCommand, EntersMap, Goto
<1>2. Id_ + 1 \in RpcId /\ Id_ \in Nat
    BY NewIdType DEF PostCommand
<1>3. new.cmd = u /\ new.by = By(u) /\ By(u) \in {"rest", "disk", "system"}
    BY DEF By
<1> HIDE DEF new
<1>4. u # NoCmd
    BY CommandAssumption DEF CommandAssumption
<1>5. rpc[Id_ + 1] = NoInfo /\ \A id \in RpcId : id <= Id_ + 1 /\ id # Id_ + 1 => id <= Id_
    BY <1>2 DEF Issued, RpcId, FirstId
<1>6. rpc'[Id_ + 1] = new /\ \A id \in RpcId : id # Id_ + 1 => rpc'[id] = rpc[id]
    BY <1>1, <1>2 DEF TypeOK
<1>7. /\ pc'[u] = "send" /\ rpcid'[u] = Id_ + 1
      /\ \A v \in Cmd : v # u => pc'[v] = pc[v] /\ rpcid'[v] = rpcid[v]
    BY <1>1 DEF TypeOK
<1>8. UNCHANGED <<delivered, ResponseQueue_, row, Submitted, outcome, sched, batch>>
    BY <1>1 DEF netVars, rowVars, schedVars
<1>9. Submissions'
    BY <1>1, <1>7, <1>8 DEF Submissions
<1>10. Issued'
    <2>1. \A id \in OutStandingRequests_' \cup delivered' : id <= Id_'
        BY <1>1, <1>2, <1>8 DEF Issued, TypeOK, RpcId, FirstId
    <2>2. \A id \in RpcId : IF id <= Id_' THEN rpc'[id].cmd \in Cmd /\ rpc'[id].by # "nobody"
                            ELSE rpc'[id] = NoInfo
        BY <1>1, <1>2, <1>3, <1>5, <1>6 DEF Issued, RpcId, FirstId
    <2>3. \A n \in 1..Len(ResponseQueue_') : ResponseQueue_'[n].id <= Id_'
        <3> SUFFICES ASSUME NEW n \in 1..Len(ResponseQueue_)
                     PROVE  ResponseQueue_[n].id <= Id_ + 1
            BY <1>1, <1>8
        <3>1. ResponseQueue_[n].id <= Id_
            BY DEF Issued
        <3>2. ResponseQueue_[n].id \in RpcId
            <4> DEFINE R == [id : RpcId, serial : Serial, answer : Answer]
            <4>1. ResponseQueue_ \in Seq(R)
                BY DEF TypeOK
            <4> HIDE DEF R
            <4>2. ResponseQueue_[n] \in R
                BY <4>1
            <4> QED BY <4>2 DEF R
        <3> QED BY <1>2, <3>1, <3>2 DEF RpcId, FirstId
    <2> QED BY <2>1, <2>2, <2>3 DEF Issued
<1>11. Posters'
    <2> SUFFICES ASSUME NEW v \in Cmd
                 PROVE
       /\ pc'[v] \in Linked => /\ rpcid'[v] \in RpcId /\ rpcid'[v] <= Id_ + 1
                               /\ rpc'[rpcid'[v]].cmd = v
       /\ pc'[v] = "send" => rpc'[rpcid'[v]].by = By(v)
       /\ pc'[v] \in {"wait", "giveup"} => rpc'[rpcid'[v]].by = "rest"
       /\ pc'[v] \in {"begin", "wait", "giveup"} => Origin[v] = "rest"
       /\ Origin[v] # "rest" /\ pc'[v] \in {"store", "insert"} => outcome[v] = "executed"
       /\ PostsFirst(v) /\ v \notin batch /\ pc'[v] \in {"post", "send"}
             => outcome[v] = "executed"
        BY <1>1, <1>8 DEF Posters, By, PostsFirst
    <2>1. CASE v = u
        BY <1>1, <1>2, <1>3, <1>6, <1>7, <2>1 DEF Posters, RpcId, FirstId
    <2>2. CASE v # u
        <3>1. pc[v] \in Linked => /\ rpcid[v] \in RpcId /\ rpcid[v] <= Id_
                                  /\ rpcid[v] # Id_ + 1 /\ rpcid[v] <= Id_ + 1
            BY <1>2 DEF Posters, RpcId, FirstId
        <3> QED BY <1>6, <1>7, <2>2, <3>1 DEF Posters, Linked
    <2> QED BY <2>1, <2>2
<1>12. Pass'
    BY <1>1, <1>7, <1>8 DEF Pass, ByScheduler
<1>13. Rows'
    BY <1>1, <1>7, <1>8 DEF Rows
<1>14. PostedOnce'
    <2> SUFFICES ASSUME NEW id \in RpcId, rpc'[id].cmd # NoCmd, NEW v, v = rpc'[id].cmd
                 PROVE  /\ ~Unposted(v)'
                        /\ InCall(v)' => rpcid'[v] = id
                        /\ rpc'[id].by = "disk" => v \in batch \/ pc'[v] = "done"
                        /\ rpc'[id].by = "rest" => Origin[v] = "rest"
                        /\ rpc'[id].by = "system" => Origin[v] # "rest"
        BY <1>8 DEF PostedOnce
    <2>1. CASE id = Id_ + 1
        BY <1>3, <1>6, <1>7, <1>8, <2>1 DEF Unposted, By
    <2>2. CASE id # Id_ + 1
        <3>1. rpc'[id] = rpc[id] /\ v \in Cmd
            BY <1>2, <1>6, <2>2 DEF TypeOK, Info
        <3>2. CASE v = u
            BY <1>1, <1>7, <1>8, <3>1, <3>2 DEF PostedOnce, Unposted, InCall
        <3>3. CASE v # u
            BY <1>7, <1>8, <3>1, <3>3 DEF PostedOnce, Unposted, InCall
        <3> QED BY <3>2, <3>3
    <2> QED BY <2>1, <2>2
<1> QED BY <1>9, <1>10, <1>11, <1>12, <1>13, <1>14

(* A call goes on: poster u moves from one place to another.  It gives no  *)
(* RPC out, and either it leaves rows to advance or it writes its own.     *)
CallMoves(u) ==
    /\ UNCHANGED <<Id_, rpc, delivered, ResponseQueue_, rpcid, sched, batch>>
    /\ OutStandingRequests_' \subseteq OutStandingRequests_
    /\ \A v \in Cmd : v # u => /\ pc'[v] = pc[v] /\ outcome'[v] = outcome[v]
                               /\ Submitted'[v] = Submitted[v]
    /\ Submitted'[u] > 0 \/ (Submitted'[u] = Submitted[u])
    /\ IsFiniteSet({v \in Cmd : Submitted'[v] > 0})
    /\ pc'[u] \notin {"idle", "begin"} => Submitted'[u] > 0

LEMMA MoveKeepsStructure ==
    ASSUME TypeOK, TypeOK', Structure, NEW u \in Cmd, CallMoves(u),
           \* where the call may go
           pc'[u] \in Linked => pc[u] \in Linked,
           pc'[u] = "send" => pc[u] = "send",
           pc'[u] \in {"wait", "giveup"} => rpc[rpcid[u]].by = "rest",
           pc'[u] \in {"begin", "wait", "giveup"} => Origin[u] = "rest",
           Origin[u] # "rest" /\ pc'[u] \in {"store", "insert"} => outcome'[u] = "executed",
           PostsFirst(u) /\ u \notin batch /\ pc'[u] \in {"post", "send"}
              => outcome'[u] = "executed",
           \* what it has to do with the scheduler
           pc[u] # "done",
           u \in batch => pc[u] = "send" /\ pc'[u] \in {"mark", "requeue"},
           pc'[u] \in {"mark", "requeue"} => u \in batch,
           \* what its row may be
           RowsAdvance \/ \A v \in Cmd : v # u => row'[v] = row[v],
           row'[u] # NoRow => \/ pc'[u] = "done" \/ u \in batch
                              \/ /\ Origin[u] = "upgrade" /\ row'[u].Executed
                                 /\ pc'[u] \in {"post", "send"},
           \* what it has posted
           Unposted(u)' => Unposted(u),
           InCall(u)' => InCall(u)
    PROVE  Structure'
<1> USE DEF Structure, CallMoves
<1>1. Submissions'
    BY DEF Submissions
<1>2. Issued'
    BY DEF Issued, TypeOK
<1>3. Posters'
    <2> SUFFICES ASSUME NEW v \in Cmd
                 PROVE
       /\ pc'[v] \in Linked => /\ rpcid[v] \in RpcId /\ rpcid[v] <= Id_
                               /\ rpc[rpcid[v]].cmd = v
       /\ pc'[v] = "send" => rpc[rpcid[v]].by = By(v)
       /\ pc'[v] \in {"wait", "giveup"} => rpc[rpcid[v]].by = "rest"
       /\ pc'[v] \in {"begin", "wait", "giveup"} => Origin[v] = "rest"
       /\ Origin[v] # "rest" /\ pc'[v] \in {"store", "insert"} => outcome'[v] = "executed"
       /\ PostsFirst(v) /\ v \notin batch /\ pc'[v] \in {"post", "send"}
             => outcome'[v] = "executed"
        BY DEF Posters, By, PostsFirst
    <2>1. CASE v = u
        BY <2>1 DEF Posters
    <2>2. CASE v # u
        BY <2>2 DEF Posters
    <2> QED BY <2>1, <2>2
<1>f. /\ batch' = batch /\ sched' = sched
      /\ \A v \in Cmd : v # u => pc'[v] = pc[v]
      /\ batch \subseteq Cmd
    BY DEF TypeOK
<1>4. Pass'
    <2>0. Pass
        OBVIOUS
    <2>1. \A v \in batch : pc'[v] = "done" \/ (sched = "post" /\ pc'[v] \in ByScheduler)
        <3> SUFFICES ASSUME NEW v \in batch
                     PROVE  pc'[v] = "done" \/ (sched = "post" /\ pc'[v] \in ByScheduler)
            OBVIOUS
        <3>1. CASE v = u
            BY <2>0, <3>1 DEF Pass, ByScheduler
        <3>2. CASE v # u
            BY <1>f, <2>0, <3>2 DEF Pass, ByScheduler
        <3> QED BY <3>1, <3>2
    <2>2. \A v, w \in batch : pc'[v] # "done" /\ pc'[w] # "done" => v = w
        <3>1. \A v \in batch : pc'[v] # "done" => pc[v] # "done"
            BY <1>f
        <3> QED BY <2>0, <3>1 DEF Pass
    <2>3. \A v \in Cmd : pc'[v] \in {"mark", "requeue"} => v \in batch
        BY <1>f, <2>0 DEF Pass
    <2> QED BY <1>f, <2>0, <2>1, <2>2, <2>3 DEF Pass
<1>5. Rows'
    BY DEF Rows, RowsAdvance
<1>6. PostedOnce'
    <2> SUFFICES ASSUME NEW id \in RpcId, rpc[id].cmd # NoCmd, NEW v \in Cmd, v = rpc[id].cmd
                 PROVE  /\ ~Unposted(v)'
                        /\ InCall(v)' => rpcid[v] = id
                        /\ rpc[id].by = "disk" => v \in batch \/ pc'[v] = "done"
        BY DEF PostedOnce, TypeOK, Info
    <2>0. /\ ~Unposted(v)
          /\ InCall(v) => rpcid[v] = id
          /\ rpc[id].by = "disk" => v \in batch \/ pc[v] = "done"
        BY DEF PostedOnce
    <2>1. CASE v = u
        <3>1. rpc[id].by = "disk" => v \in batch \/ pc'[v] = "done"
            BY <2>0, <2>1
        <3>2. ~Unposted(v)'
            BY <2>0, <2>1 DEF Unposted
        <3>3. InCall(v)' => rpcid[v] = id
            BY <2>0, <2>1 DEF InCall
        <3> QED BY <3>1, <3>2, <3>3
    <2>2. CASE v # u
        <3>1. batch' = batch /\ pc'[v] = pc[v]
            BY <1>f, <2>2
        <3>2. ~Unposted(v)'
            BY <2>0, <3>1 DEF Unposted
        <3>3. InCall(v)' => rpcid[v] = id
            BY <2>0, <3>1 DEF InCall
        <3> QED BY <2>0, <3>1, <3>2, <3>3
    <2> QED BY <2>1, <2>2
<1> QED BY <1>1, <1>2, <1>3, <1>4, <1>5, <1>6

(* The steps of a call that submit nothing.                                *)
LEMMA PlainMove ==
    ASSUME TypeOK, Structure, NEW u \in Cmd,
           UNCHANGED <<Id_, rpc, delivered, ResponseQueue_, rpcid, sched, batch, Submitted>>,
           OutStandingRequests_' \subseteq OutStandingRequests_,
           \A v \in Cmd : v # u => pc'[v] = pc[v] /\ outcome'[v] = outcome[v],
           pc[u] \notin {"idle", "begin"}
    PROVE  CallMoves(u)
<1>1. Submitted[u] > 0 /\ IsFiniteSet({v \in Cmd : Submitted[v] > 0})
    BY DEF Structure, Submissions
<1> QED BY <1>1 DEF CallMoves

LEMMA CallKeepsStructure ==
    ASSUME TypeOK, TypeOK', Structure, NEW u \in Cmd, Call(u)
    PROVE  Structure'
<1>0. /\ Posters /\ Pass /\ Rows
      /\ pc \in [Cmd -> {"idle", "begin", "post", "send", "wait", "giveup",
                         "store", "insert", "mark", "requeue", "done"}]
      /\ outcome \in [Cmd -> {"none", "pending", "unanswered", "failed",
                              "completed", "executed"}]
    BY DEF Structure, TypeOK
<1>b. u \in batch => pc[u] \in {"done", "post", "send", "mark", "requeue"}
    BY <1>0 DEF Pass, ByScheduler
<1>r. row[u] # NoRow /\ u \notin batch => pc[u] \in {"done", "post", "send"}
    BY <1>0 DEF Rows
<1>1. CASE DoPost(u)
    <2>1. /\ pc[u] = "idle" /\ pc'[u] = "begin" /\ Origin[u] = "rest"
          /\ \A v \in Cmd : v # u => pc'[v] = pc[v] /\ outcome'[v] = outcome[v]
          /\ UNCHANGED <<Id_, rpc, OutStandingRequests_, delivered, ResponseQueue_,
                         rpcid, sched, batch, Submitted, row>>
        BY <1>0, <1>1 DEF DoPost, Goto, mapVars, netVars, rowVars, schedVars
    <2>2. CallMoves(u)
        BY <2>1 DEF CallMoves, Structure, Submissions
    <2> QED BY <1>b, <1>r, <2>1, <2>2, MoveKeepsStructure DEF Linked, Unposted, InCall
<1>2. CASE SystemCommand(u)
    <2>1. /\ pc[u] = "idle" /\ pc'[u] = IF PostsFirst(u) THEN "post" ELSE "store"
          /\ outcome'[u] = "executed" /\ Origin[u] # "rest"
          /\ \A v \in Cmd : v # u => pc'[v] = pc[v] /\ outcome'[v] = outcome[v]
          /\ UNCHANGED <<Id_, rpc, OutStandingRequests_, delivered, ResponseQueue_,
                         rpcid, sched, batch, row>>
        BY <1>0, <1>2 DEF SystemCommand, Goto, mapVars, netVars, schedVars
    <2>2. Submitted' = [Submitted EXCEPT ![u] = NextSubmitted] /\ Submissions
        BY <1>2 DEF SystemCommand, Structure
    <2>3. CallMoves(u)
        BY <2>1, <2>2, SubmittedIsCounted DEF CallMoves
    <2> QED BY <1>b, <1>r, <2>1, <2>3, MoveKeepsStructure DEF Linked, Unposted, InCall
<1>3. CASE WaitForCommand(u)
    <2>1. /\ pc[u] = "begin" /\ pc'[u] \in {"store", "post"}
          /\ \A v \in Cmd : v # u => pc'[v] = pc[v] /\ outcome'[v] = outcome[v]
          /\ UNCHANGED <<Id_, rpc, OutStandingRequests_, delivered, ResponseQueue_,
                         rpcid, sched, batch, row>>
        BY <1>0, <1>3 DEF WaitForCommand, Goto, mapVars, netVars, schedVars
    <2>2. Submitted' = [Submitted EXCEPT ![u] = NextSubmitted] /\ Submissions
        BY <1>3 DEF WaitForCommand, Structure
    <2>3. CallMoves(u)
        BY <2>1, <2>2, SubmittedIsCounted DEF CallMoves
    <2>4. Origin[u] = "rest"
        BY <1>0, <2>1 DEF Posters
    <2> QED BY <1>b, <1>r, <2>1, <2>3, <2>4, MoveKeepsStructure
            DEF Linked, Unposted, InCall, PostsFirst
<1>4. CASE Answered(u) \/ TimeOut(u) \/ GiveUp(u)
    <2>1. /\ pc[u] \in {"wait", "giveup"} /\ pc'[u] \in {"store", "giveup"}
          /\ pc'[u] = "giveup" => pc[u] = "wait"
          /\ \A v \in Cmd : v # u => pc'[v] = pc[v] /\ outcome'[v] = outcome[v]
          /\ UNCHANGED <<Id_, rpc, delivered, ResponseQueue_, rpcid, sched, batch,
                         Submitted, row>>
          /\ OutStandingRequests_' \subseteq OutStandingRequests_
        BY <1>0, <1>4 DEF Answered, TimeOut, GiveUp, WithoutPending, Goto, mapVars,
                          netVars, rowVars, schedVars
    <2>2. CallMoves(u)
        BY <2>1, PlainMove
    <2>3. Origin[u] = "rest" /\ rpc[rpcid[u]].by = "rest"
        BY <1>0, <2>1 DEF Posters
    <2> QED BY <1>b, <1>r, <2>1, <2>2, <2>3, MoveKeepsStructure
            DEF Linked, Unposted, InCall, PostsFirst
<1>5. CASE Sent(u)
    <2> DEFINE by == rpc[rpcid[u]].by
    <2>1. /\ pc[u] = "send" /\ outcome' = outcome
          /\ pc'[u] = CASE by = "disk" -> "mark"
                        [] by = "rest" -> "wait"
                        [] by = "system" /\ PostsFirst(u) -> "store"
                        [] OTHER       -> "done"
          /\ \A v \in Cmd : v # u => pc'[v] = pc[v]
          /\ UNCHANGED <<Id_, rpc, delivered, ResponseQueue_, rpcid, sched, batch,
                         Submitted, row, OutStandingRequests_>>
        BY <1>0, <1>5 DEF Sent, EntersMap, Goto, netVars, rowVars, schedVars
    <2>2. CallMoves(u)
        BY <2>1, PlainMove
    <2>3. by = By(u)
        BY <1>0, <2>1 DEF Posters
    <2>4. PostsFirst(u) /\ u \notin batch => outcome[u] = "executed"
        BY <1>0, <2>1 DEF Posters
    <2>5. u \in batch => pc'[u] = "mark"
        BY <2>1, <2>3 DEF By
    <2>6. u \notin batch => by = IF Origin[u] = "rest" THEN "rest" ELSE "system"
        BY <2>3 DEF By
    <2>7. pc'[u] \in {"mark", "requeue"} => u \in batch
        BY <2>1, <2>6
    <2>8. pc'[u] = "wait" => by = "rest" /\ Origin[u] = "rest"
        BY <2>1, <2>5, <2>6
    <2>9. pc'[u] \in {"store", "insert"} => PostsFirst(u) /\ u \notin batch
        BY <2>1, <2>5, <2>6
    <2>10. pc'[u] \in {"mark", "wait", "store", "done"}
        BY <2>1
    <2>11. row[u] # NoRow => pc'[u] = "done" \/ u \in batch
        <3> SUFFICES ASSUME row[u] # NoRow, u \notin batch
                     PROVE  pc'[u] = "done"
            OBVIOUS
        <3>1. Origin[u] = "upgrade"
            BY <1>0, <2>1 DEF Rows
        <3> QED BY <2>1, <2>6, <3>1 DEF PostsFirst
    <2> QED BY <2>1, <2>2, <2>4, <2>5, <2>7, <2>8, <2>9, <2>10, <2>11, MoveKeepsStructure
            DEF Linked, Unposted, InCall, PostsFirst
<1>6. CASE NotSent(u)
    <2> DEFINE by == rpc[rpcid[u]].by
    <2>1. /\ pc[u] = "send"
          /\ pc'[u] = CASE by = "disk" -> "requeue"
                        [] by = "rest" -> "store"
                        [] by = "system" /\ PostsFirst(u) -> "store"
                        [] OTHER       -> "done"
          /\ by # "rest" => outcome'[u] = outcome[u]
          /\ \A v \in Cmd : v # u => pc'[v] = pc[v] /\ outcome'[v] = outcome[v]
          /\ UNCHANGED <<Id_, rpc, delivered, ResponseQueue_, rpcid, sched, batch,
                         Submitted, row>>
          /\ OutStandingRequests_' \subseteq OutStandingRequests_
        BY <1>0, <1>6 DEF NotSent, Goto, netVars, rowVars, schedVars
    <2>2. CallMoves(u)
        BY <2>1, PlainMove
    <2>3. by = By(u)
        BY <1>0, <2>1 DEF Posters
    <2>4. PostsFirst(u) /\ u \notin batch => outcome[u] = "executed"
        BY <1>0, <2>1 DEF Posters
    <2>5. u \in batch => pc'[u] = "requeue"
        BY <2>1, <2>3 DEF By
    <2>6. u \notin batch => by = IF Origin[u] = "rest" THEN "rest" ELSE "system"
        BY <2>3 DEF By
    <2>7. pc'[u] \in {"mark", "requeue"} => u \in batch
        BY <2>1, <2>6
    <2>8. /\ pc'[u] \in {"requeue", "store", "done"}
          /\ pc'[u] = "store" => u \notin batch /\ (Origin[u] = "rest" \/ PostsFirst(u))
        BY <2>1, <2>5, <2>6
    <2>9. Origin[u] # "rest" /\ pc'[u] = "store" => outcome'[u] = "executed"
        BY <2>1, <2>4, <2>6, <2>8
    <2>10. row[u] # NoRow => pc'[u] = "done" \/ u \in batch
        <3> SUFFICES ASSUME row[u] # NoRow, u \notin batch
                     PROVE  pc'[u] = "done"
            OBVIOUS
        <3>1. Origin[u] = "upgrade"
            BY <1>0, <2>1 DEF Rows
        <3> QED BY <2>1, <2>6, <3>1 DEF PostsFirst
    <2> QED BY <2>1, <2>2, <2>5, <2>7, <2>8, <2>9, <2>10, MoveKeepsStructure
            DEF Linked, Unposted, InCall, PostsFirst
<1>7. CASE StoreRemove(u)
    <2>1. /\ pc[u] = "store" /\ pc'[u] = "insert" /\ outcome' = outcome
          /\ \A v \in Cmd : v # u => pc'[v] = pc[v]
          /\ UNCHANGED <<Id_, rpc, delivered, ResponseQueue_, rpcid, sched, batch,
                         Submitted, OutStandingRequests_>>
        BY <1>0, <1>7 DEF StoreRemove, Goto, mapVars, netVars, schedVars
    <2>2. CallMoves(u)
        BY <2>1, PlainMove
    <2>3. RowsAdvance
        BY <1>7, StepsAdvance DEF StoreRemove
    <2>4. row'[u] = NoRow
        BY <1>b, <1>r, <2>1, <2>3 DEF RowsAdvance
    <2>5. Origin[u] # "rest" => outcome[u] = "executed"
        BY <1>0, <2>1 DEF Posters
    <2> QED BY <1>b, <2>1, <2>2, <2>3, <2>4, <2>5, MoveKeepsStructure
            DEF Linked, Unposted, InCall
<1>8. CASE StoreInsert(u)
    <2>1. /\ pc[u] = "insert"
          /\ pc'[u] = IF Origin[u] = "rest" \/ PostsFirst(u) THEN "done" ELSE "post"
          /\ row'[u] = NewRow(u)
          /\ \A v \in Cmd : v # u => /\ pc'[v] = pc[v] /\ outcome'[v] = outcome[v]
                                     /\ row'[v] = row[v]
          /\ UNCHANGED <<Id_, rpc, delivered, ResponseQueue_, rpcid, sched, batch,
                         Submitted, OutStandingRequests_>>
        BY <1>0, <1>8 DEF StoreInsert, Goto, mapVars, netVars, schedVars, TypeOK
    <2>2. CallMoves(u)
        BY <2>1, PlainMove
    <2>3. pc'[u] = "post" => Origin[u] = "upgrade"
        BY <2>1, CommandAssumption DEF CommandAssumption, PostsFirst
    <2>4. pc'[u] = "post" => row'[u].Executed
        <3>1. Origin[u] # "rest" => outcome[u] = "executed"
            BY <1>0, <2>1 DEF Posters
        <3>2. NewRow(u).Executed = (outcome[u] # "pending")
            BY DEF NewRow
        <3> QED BY <2>1, <2>3, <3>1, <3>2
    <2> QED BY <1>b, <2>1, <2>2, <2>3, <2>4, MoveKeepsStructure
            DEF Linked, Unposted, InCall, PostsFirst
<1> QED BY <1>1, <1>2, <1>3, <1>4, <1>5, <1>6, <1>7, <1>8, PostKeepsStructure DEF Call

LEMMA SchedulerKeepsStructure ==
    ASSUME TypeOK, TypeOK', Structure, Scheduler
    PROVE  Structure'
<1>0. /\ Posters /\ Pass /\ Rows /\ PostedOnce /\ Issued /\ Submissions
      /\ batch \subseteq Cmd
      /\ pc \in [Cmd -> {"idle", "begin", "post", "send", "wait", "giveup",
                         "store", "insert", "mark", "requeue", "done"}]
    BY DEF Structure, TypeOK
<1>1. CASE SchedulerStart
    <2>1. /\ sched = "idle" /\ sched' = "fetch"
          /\ row' = [u \in Cmd |-> Retire(row[u])]
          /\ UNCHANGED <<Id_, rpc, OutStandingRequests_, delivered, ResponseQueue_,
                         Submitted, pc, rpcid, outcome, batch>>
        BY <1>1 DEF SchedulerStart, mapVars, netVars, callVars
    <2>2. RowsAdvance
        BY <2>1, RetireAdvances DEF TypeOK
    <2> QED BY <1>0, <2>1, <2>2, QuietKeepsStructure DEF Issued
<1>2. CASE SchedulerFetch
    <2>1. /\ batch = {} /\ \A u \in batch' : Ready(row[u])
          /\ batch' # {} \/ sched' = "idle"
          /\ sched' = "pick" \/ batch' = {}
          /\ UNCHANGED <<Id_, rpc, OutStandingRequests_, delivered, ResponseQueue_,
                         Submitted, row, pc, rpcid, outcome>>
        BY <1>0, <1>2 DEF SchedulerFetch, mapVars, netVars, rowVars, callVars, Pass
    <2>2. \A u \in batch' : u \in Cmd /\ pc[u] = "done"
        <3>1. batch' \subseteq Cmd
            BY DEF TypeOK
        <3> QED BY <1>0, <2>1, <3>1 DEF Rows, Ready
    <2>3. \A u \in Cmd : pc[u] # "done" => (u \in batch' <=> u \in batch)
        BY <2>1, <2>2
    <2>4. Submissions' /\ Issued'
        BY <1>0, <2>1 DEF Submissions, Issued
    <2>5. Posters'
        BY <1>0, <2>1, <2>3 DEF Posters, By, PostsFirst
    <2>6. Pass'
        <3>1. sched' \in {"idle", "pick"}
            BY <1>2 DEF SchedulerFetch
        <3> QED BY <1>0, <2>1, <2>2, <3>1 DEF Pass
    <2>7. Rows'
        BY <1>0, <2>1 DEF Rows
    <2>8. PostedOnce'
        <3> SUFFICES ASSUME NEW id \in RpcId, rpc[id].cmd # NoCmd,
                            NEW u \in Cmd, u = rpc[id].cmd
                     PROVE  /\ ~Unposted(u)'
                            /\ InCall(u)' => rpcid[u] = id
                            /\ rpc[id].by = "disk" => u \in batch' \/ pc[u] = "done"
            BY <1>0, <2>1 DEF PostedOnce, Issued, NoInfo
        <3> QED BY <1>0, <2>1, <2>3 DEF PostedOnce, Unposted, InCall
    <2> QED BY <2>4, <2>5, <2>6, <2>7, <2>8 DEF Structure
<1> SUFFICES ASSUME NEW u \in Cmd,
                    SchedulerSkip(u) \/ SchedulerPost(u) \/ SchedulerMark(u)
             PROVE  Structure'
    BY <1>1, <1>2 DEF Scheduler
<1>3. CASE SchedulerPost(u)
    <2>1. /\ sched = "pick" /\ sched' = "post" /\ u \in batch /\ pc'[u] = "post"
          /\ \A v \in Cmd : v # u => pc'[v] = pc[v]
          /\ UNCHANGED <<Id_, rpc, OutStandingRequests_, delivered, ResponseQueue_,
                         Submitted, row, rpcid, outcome, batch>>
        BY <1>0, <1>3 DEF SchedulerPost, First, Goto, mapVars, netVars, rowVars
    <2>2. \A v \in batch : pc[v] = "done"
        BY <1>0, <2>1 DEF Pass
    <2>3. Submissions'
        BY <1>0, <2>1, <2>2 DEF Submissions
    <2>4. Issued'
        BY <1>0, <2>1 DEF Issued
    <2>5. Posters'
        BY <1>0, <2>1 DEF Posters, By, PostsFirst, Linked
    <2>6. Pass'
        <3>1. \A v \in Cmd : pc'[v] \in {"mark", "requeue"} => v \in batch
            BY <1>0, <2>1 DEF Pass
        <3>2. \A v \in batch : pc'[v] = "done" \/ v = u
            BY <1>0, <2>1, <2>2
        <3> QED BY <2>1, <3>1, <3>2 DEF Pass, ByScheduler
    <2>7. Rows'
        BY <1>0, <2>1 DEF Rows
    <2>8. PostedOnce'
        <3> SUFFICES ASSUME NEW id \in RpcId, rpc[id].cmd # NoCmd,
                            NEW v \in Cmd, v = rpc[id].cmd
                     PROVE  /\ ~Unposted(v)'
                            /\ InCall(v)' => rpcid[v] = id
                            /\ rpc[id].by = "disk" => v \in batch \/ pc'[v] = "done"
            BY <1>0, <2>1 DEF PostedOnce, Issued, NoInfo
        <3> QED BY <1>0, <2>1 DEF PostedOnce, Unposted, InCall
    <2> QED BY <2>3, <2>4, <2>5, <2>6, <2>7, <2>8 DEF Structure
<1>4. CASE SchedulerSkip(u) \/ SchedulerMark(u)
    <2>1. /\ batch' = batch \ {u}
          /\ sched' = IF batch = {u} THEN "fetch" ELSE "pick"
          /\ u \in batch /\ pc'[u] = "done"
          /\ \A v \in Cmd : v # u => pc'[v] = pc[v]
          /\ UNCHANGED <<Id_, rpc, OutStandingRequests_, delivered, ResponseQueue_,
                         Submitted, rpcid, outcome>>
        <3>1. CASE SchedulerSkip(u)
            <4>1. u \in batch /\ sched = "pick" /\ UNCHANGED pc
                BY <3>1 DEF SchedulerSkip, First, callVars
            <4>2. pc[u] = "done"
                BY <1>0, <4>1 DEF Pass
            <4> QED BY <3>1, <4>1, <4>2
                    DEF SchedulerSkip, Advance, mapVars, netVars, callVars
        <3>2. CASE SchedulerMark(u)
            BY <1>0, <3>2 DEF SchedulerMark, Advance, Goto, mapVars, netVars, Pass
        <3> QED BY <1>4, <3>1, <3>2
    <2>2. RowsAdvance
        <3>1. \/ row' = row \/ row' = SetCommandTimedOut(u)
              \/ row' = SetCommandLastTry(u) \/ row' = SetCommandExecuted(u)
            BY <1>4 DEF SchedulerSkip, SchedulerMark, AfterPost
        <3>2. CASE row' = row
            BY <3>2, StepsAdvance
        <3> QED BY <3>1, <3>2, SetsAdvance DEF TypeOK
    <2>3. \A v \in batch' : pc'[v] = "done"
        <3>1. \A v \in batch : v # u => pc[v] = "done"
            <4>1. CASE SchedulerSkip(u)
                BY <1>0, <4>1 DEF SchedulerSkip, Pass
            <4>2. CASE SchedulerMark(u)
                <5>1. pc[u] # "done"
                    BY <4>2 DEF SchedulerMark
                <5> QED BY <1>0, <2>1, <5>1 DEF Pass
            <4> QED BY <1>4, <4>1, <4>2
        <3> QED BY <1>0, <2>1, <3>1
    <2>4. Submissions'
        BY <1>0, <2>1 DEF Submissions, Pass, ByScheduler
    <2>5. Issued'
        BY <1>0, <2>1 DEF Issued
    <2>6. Posters'
        <3>1. \A v \in Cmd : v # u => (v \in batch' <=> v \in batch)
            BY <2>1
        <3> QED BY <1>0, <2>1, <3>1 DEF Posters, By, PostsFirst, Linked
    <2>7. Pass'
        <3>1. \A v \in Cmd : pc'[v] \in {"mark", "requeue"} => v \in batch'
            BY <1>0, <2>1 DEF Pass
        <3>2. sched' \in {"idle", "fetch"} => batch' = {}
            BY <2>1
        <3> QED BY <2>3, <3>1, <3>2 DEF Pass
    <2>8. Rows'
        BY <1>0, <2>1, <2>2 DEF Rows, RowsAdvance
    <2>9. PostedOnce'
        <3> SUFFICES ASSUME NEW id \in RpcId, rpc[id].cmd # NoCmd,
                            NEW v \in Cmd, v = rpc[id].cmd
                     PROVE  /\ ~Unposted(v)'
                            /\ InCall(v)' => rpcid[v] = id
                            /\ rpc[id].by = "disk" => v \in batch' \/ pc'[v] = "done"
            BY <1>0, <2>1 DEF PostedOnce, Issued, NoInfo
        <3>1. /\ ~Unposted(v)
              /\ InCall(v) => rpcid[v] = id
              /\ rpc[id].by = "disk" => v \in batch \/ pc[v] = "done"
            BY <1>0 DEF PostedOnce
        <3>2. CASE v = u
            BY <2>1, <3>2 DEF Unposted, InCall
        <3>3. CASE v # u
            BY <2>1, <3>1, <3>3 DEF Unposted, InCall
        <3> QED BY <3>2, <3>3
    <2> QED BY <2>4, <2>5, <2>6, <2>7, <2>8, <2>9 DEF Structure
<1> QED BY <1>3, <1>4

LEMMA QueueGrows ==
    ASSUME TypeOK, NEW s \in Serial, NEW id \in RpcId, NEW a \in Answers,
           PostCommandResult(s, id, a)
    PROVE  /\ Len(ResponseQueue_') = Len(ResponseQueue_) + 1 /\ Len(ResponseQueue_) \in Nat
           /\ ResponseQueue_'[Len(ResponseQueue_) + 1]
                 = [id |-> id, serial |-> s, answer |-> a]
           /\ \A n \in 1..Len(ResponseQueue_) : ResponseQueue_'[n] = ResponseQueue_[n]
<1> DEFINE R == [id : RpcId, serial : Serial, answer : Answer]
           r == [id |-> id, serial |-> s, answer |-> a]
<1>1. ResponseQueue_ \in Seq(R) /\ ResponseQueue_' = Append(ResponseQueue_, r)
    BY DEF TypeOK, PostCommandResult
<1> HIDE DEF R, r
<1>2. Len(ResponseQueue_) \in Nat
    BY <1>1
<1>3. Len(ResponseQueue_') = Len(ResponseQueue_) + 1
    BY <1>1
<1>4. \A n \in 1..Len(ResponseQueue_) : ResponseQueue_'[n] = ResponseQueue_[n]
    BY <1>1, <1>2
<1>5. ResponseQueue_'[Len(ResponseQueue_) + 1] = r
    BY <1>1, <1>2
<1> QED BY <1>2, <1>3, <1>4, <1>5 DEF r

LEMMA DeviceKeepsStructure ==
    ASSUME TypeOK, TypeOK', Structure, NEW s \in Serial, Device(s)
    PROVE  Structure'
<1>0. Issued /\ RowsAdvance
    <2>1. row' = row
        BY DEF Device, PostCommandResult, ConnectMessage, ConnectDone,
               ConnectionLost, rowVars
    <2> QED BY <2>1 DEF Structure, RowsAdvance, TypeOK
<1>1. ASSUME NEW id \in RpcId, NEW a \in Answers, PostCommandResult(s, id, a)
      PROVE  Structure'
    <2>1. /\ id <= Id_
          /\ UNCHANGED <<Id_, rpc, OutStandingRequests_, delivered, Submitted, pc,
                         rpcid, outcome, sched, batch>>
        BY <1>1 DEF PostCommandResult, mapVars, rowVars, callVars, schedVars
    <2>2. \A n \in 1..Len(ResponseQueue_') : ResponseQueue_'[n].id <= Id_
        <3> SUFFICES ASSUME NEW n \in 1..(Len(ResponseQueue_) + 1)
                     PROVE  ResponseQueue_'[n].id <= Id_
            BY <1>1, QueueGrows
        <3>1. CASE n \in 1..Len(ResponseQueue_)
            BY <1>0, <1>1, <3>1, QueueGrows DEF Issued
        <3>2. CASE n = Len(ResponseQueue_) + 1
            <4>1. ResponseQueue_'[n] = [id |-> id, serial |-> s, answer |-> a]
                BY <1>1, <3>2, QueueGrows
            <4> QED BY <2>1, <4>1
        <3>3. Len(ResponseQueue_) \in Nat
            BY <1>1, QueueGrows
        <3> QED BY <3>1, <3>2, <3>3
    <2> QED BY <1>0, <2>1, <2>2, QuietKeepsStructure DEF Issued
<1>2. CASE ConnectMessage(s) \/ ConnectDone(s) \/ ConnectionLost(s)
    <2>1. /\ OutStandingRequests_' \subseteq OutStandingRequests_
          /\ UNCHANGED <<Id_, rpc, ResponseQueue_, delivered, Submitted, pc, rpcid,
                         outcome, sched, batch>>
        BY <1>2 DEF ConnectMessage, ConnectDone, ConnectionLost, mapVars, rowVars,
                    callVars, schedVars
    <2> QED BY <1>0, <2>1, QuietKeepsStructure DEF Issued
<1> QED BY <1>1, <1>2 DEF Device

LEMMA ResponseKeepsStructure ==
    ASSUME TypeOK, TypeOK', Structure, HandleResponse
    PROVE  Structure'
<1>0. Issued /\ RowsAdvance
    BY ResponseTypes DEF Structure
<1>1. PICK r \in [id : RpcId, serial : Serial, answer : Answer] :
         Ignores(r) \/ \E e \in Info : Accepts(r, e)
    BY ResponseStep
<1>2. UNCHANGED <<Id_, delivered, Submitted, pc, rpcid, outcome, sched, batch>>
    BY ResponseStep DEF callVars, schedVars
<1>3. \A id \in RpcId : /\ rpc'[id].cmd = rpc[id].cmd /\ rpc'[id].by = rpc[id].by
                        /\ id > Id_ => rpc'[id] = rpc[id]
    <2> SUFFICES ASSUME NEW id \in RpcId
                 PROVE  /\ rpc'[id].cmd = rpc[id].cmd /\ rpc'[id].by = rpc[id].by
                        /\ id > Id_ => rpc'[id] = rpc[id]
        OBVIOUS
    <2>1. CASE Ignores(r)
        BY <2>1 DEF Ignores
    <2>2. ASSUME NEW e \in Info, Accepts(r, e)
          PROVE  /\ rpc'[id].cmd = rpc[id].cmd /\ rpc'[id].by = rpc[id].by
                 /\ id > Id_ => rpc'[id] = rpc[id]
        <3>1. CASE id = r.id
            <4>1. id <= Id_ /\ id \in Int /\ Id_ \in Int
                BY <1>0, <2>2, <3>1 DEF Accepts, Issued, TypeOK, RpcId, FirstId
            <4> QED BY <2>2, <3>1, <4>1 DEF Accepts, TypeOK
        <3>2. CASE id # r.id
            BY <2>2, <3>2 DEF Accepts, TypeOK
        <3> QED BY <3>1, <3>2
    <2> QED BY <1>1, <2>1, <2>2
<1>4. OutStandingRequests_' \subseteq OutStandingRequests_
    BY <1>1 DEF Ignores, Accepts
<1>5. \A n \in 1..Len(ResponseQueue_') : ResponseQueue_'[n].id <= Id_
    <2> SUFFICES ASSUME NEW n \in 1..Len(Tail(ResponseQueue_))
                 PROVE  Tail(ResponseQueue_)[n].id <= Id_
        BY ResponseStep
    <2>1. /\ n + 1 \in 1..Len(ResponseQueue_)
          /\ Tail(ResponseQueue_)[n] = ResponseQueue_[n + 1]
        BY ResponseStep, HeadOfQueue
    <2> QED BY <1>0, <2>1 DEF Issued
<1> QED BY <1>0, <1>2, <1>3, <1>4, <1>5, QuietKeepsStructure DEF Issued

LEMMA StructureHolds ==
    ASSUME TypeOK, Structure, [Next]_vars
    PROVE  Structure'
<1>0. Issued /\ TypeOK'
    BY TypesHold DEF Structure
<1>1. ASSUME NEW u \in Cmd,
             Deliver(u) \/ DeleteCommand(u) \/ BecomesDue(u) \/ GrowsOld(u)
      PROVE  Structure'
    <2>1. RowsAdvance
        BY <1>1, StepsAdvance DEF Deliver, DeleteCommand, rowVars
    <2>2. /\ OutStandingRequests_' \subseteq OutStandingRequests_
          /\ UNCHANGED <<Id_, rpc, ResponseQueue_, Submitted, pc, rpcid,
                         outcome, sched, batch>>
        BY <1>1 DEF Deliver, DeleteCommand, BecomesDue, GrowsOld, mapVars, netVars,
                    rowVars, callVars, schedVars
    <2>3. \A id \in delivered' : id <= Id_
        <3>1. CASE Deliver(u)
            <4>1. delivered' = delivered \cup {rpcid[u]} /\ pc[u] = "send"
                BY <3>1 DEF Deliver
            <4> QED BY <1>0, <4>1 DEF Structure, Posters, Linked, Issued
        <3>2. CASE ~Deliver(u)
            BY <1>0, <1>1, <3>2 DEF DeleteCommand, BecomesDue, GrowsOld, netVars, Issued
        <3> QED BY <3>1, <3>2
    <2> QED BY <1>0, <2>1, <2>2, <2>3, QuietKeepsStructure DEF Issued
<1>2. ASSUME Janitor \/ (\E id \in RpcId : Ages(id)) \/ UNCHANGED vars
      PROVE  Structure'
    <2>1. RowsAdvance
        <3>1. CASE row' = row
            BY <3>1 DEF RowsAdvance, TypeOK
        <3> QED BY <1>2, <3>1, JanitorAdvances DEF Ages, vars, rowVars
    <2>2. /\ OutStandingRequests_' \subseteq OutStandingRequests_
          /\ UNCHANGED <<Id_, rpc, ResponseQueue_, delivered, Submitted, pc, rpcid,
                         outcome, sched, batch>>
        BY <1>2 DEF Janitor, JanitorKeeps, Ages, vars, mapVars, netVars, rowVars,
                    callVars, schedVars
    <2> QED BY <1>0, <2>1, <2>2, QuietKeepsStructure DEF Issued
<1> QED BY <1>0, <1>1, <1>2, CallKeepsStructure, ResponseKeepsStructure,
           SchedulerKeepsStructure, DeviceKeepsStructure DEF Next

-----------------------------------------------------------------------------
(* Calls and their entries. *)

Entries == Tracked /\ RestWaits /\ RestAnswered /\ AnswerFromTarget

(* Steps that change no entry: what leaves the map is forgotten, and no    *)
(* call ends before its promise is kept or its RPC forgotten.              *)
LEMMA ForgettingKeepsEntries ==
    ASSUME TypeOK, Structure, Entries,
           UNCHANGED <<Id_, rpc>>,
           OutStandingRequests_' \subseteq OutStandingRequests_,
           OutStandingRequests_ \ OutStandingRequests_' \subseteq forgotten',
           forgotten \subseteq forgotten',
           \A u \in Cmd : InCall(u) => \/ InCall(u)'
                                       \/ rpcid[u] \notin OutStandingRequests_'
                                       \/ rpc[rpcid[u]].by # "rest"
                                       \/ rpc[rpcid[u]].rpc_entry # NoAnswer
    PROVE  Entries'
<1>1. Tracked'
    BY DEF Entries, Tracked
<1>2. RestWaits'
    <2> SUFFICES ASSUME NEW id \in OutStandingRequests_', rpc[id].by = "rest",
                        rpc[id].rpc_entry = NoAnswer, NEW u \in Cmd, u = rpc[id].cmd
                 PROVE  InCall(u)'
        BY DEF Entries, RestWaits, DeferredScript, Structure, Issued, TypeOK
    <2>1. InCall(u)
        BY DEF Entries, RestWaits
    <2>2. id \in RpcId /\ u # NoCmd
        BY CommandAssumption DEF CommandAssumption, TypeOK
    <2>3. rpcid[u] = id
        BY <2>1, <2>2 DEF Structure, PostedOnce
    <2> QED BY <2>1, <2>3
<1>3. RestAnswered' /\ AnswerFromTarget'
    BY DEF Entries, RestAnswered, AnswerFromTarget
<1> QED BY <1>1, <1>2, <1>3 DEF Entries

LEMMA PostKeepsEntries ==
    ASSUME TypeOK, Structure, Entries, NEW u \in Cmd, PostCommand(u)
    PROVE  Entries'
<1> DEFINE new == [cmd |-> u, by |-> By(u),
                   State |-> IF u \in Deferred /\ By(u) = "rest" THEN 2 ELSE 1,
                   rpc_entry |-> NoAnswer]
<1>1. /\ pc[u] = "post" /\ Id_' = Id_ + 1
      /\ rpc' = [rpc EXCEPT ![Id_ + 1] = new]
      /\ OutStandingRequests_' = OutStandingRequests_ \cup {Id_ + 1}
      /\ rpcid' = [rpcid EXCEPT ![u] = Id_ + 1]
      /\ pc' = [pc EXCEPT ![u] = "send"]
      /\ UNCHANGED <<forgotten, batch>>
    BY DEF PostCommand, EntersMap, Goto, schedVars
<1>2. Id_ + 1 \in RpcId /\ Id_ \in Nat
    BY NewIdType DEF PostCommand
<1>3. /\ new.cmd = u /\ new.by = By(u) /\ new.State # 0 /\ new.rpc_entry = NoAnswer
      /\ u \in Deferred /\ new.by = "rest" => new.State = 2
      /\ By(u) = "rest" => u \notin batch
    BY DEF By
<1> HIDE DEF new
<1>4. rpc'[Id_ + 1] = new /\ \A id \in RpcId : id # Id_ + 1 => rpc'[id] = rpc[id]
    BY <1>1, <1>2 DEF TypeOK
<1>5. pc'[u] = "send" /\ \A v \in Cmd : v # u => pc'[v] = pc[v]
    BY <1>1 DEF TypeOK
<1>6. \A id \in RpcId : id <= Id_ + 1 /\ id # Id_ + 1 => id <= Id_
    BY <1>2 DEF RpcId, FirstId
<1>7. Tracked'
    BY <1>1, <1>2, <1>4, <1>6 DEF Entries, Tracked
<1>8. RestWaits'
    <2> SUFFICES ASSUME NEW id \in OutStandingRequests_', rpc'[id].by = "rest",
                        NEW v, v = rpc'[id].cmd
                 PROVE  /\ rpc'[id].rpc_entry # NoAnswer => DeferredScript(rpc'[id])
                        /\ rpc'[id].rpc_entry = NoAnswer => InCall(v)'
        BY DEF RestWaits, DeferredScript, InCall
    <2>1. CASE id = Id_ + 1
        BY <1>1, <1>3, <1>4, <1>5, <2>1 DEF InCall
    <2>2. CASE id # Id_ + 1
        <3>1. id \in OutStandingRequests_ /\ id \in RpcId /\ rpc'[id] = rpc[id]
            BY <1>1, <1>4, <2>2 DEF TypeOK
        <3>2. v \in Cmd /\ v = rpc[id].cmd
            BY <3>1 DEF Structure, Issued
        <3>3. rpc[id].rpc_entry = NoAnswer => InCall(v) /\ v # u
            BY <1>1, <3>1, <3>2 DEF Entries, RestWaits, InCall
        <3>4. rpc[id].rpc_entry = NoAnswer => InCall(v)'
            BY <1>1, <1>5, <3>2, <3>3 DEF InCall
        <3>5. rpc[id].rpc_entry # NoAnswer => DeferredScript(rpc[id])
            BY <3>1 DEF Entries, RestWaits
        <3> QED BY <3>1, <3>4, <3>5
    <2> QED BY <2>1, <2>2
<1>9. RestAnswered'
    BY <1>3, <1>4 DEF Entries, RestAnswered
<1>10. AnswerFromTarget'
    BY <1>3, <1>4 DEF Entries, AnswerFromTarget
<1> QED BY <1>7, <1>8, <1>9, <1>10 DEF Entries

(* What an accepted answer makes of an entry.                              *)
LEMMA AcceptedEntry ==
    ASSUME TypeOK, Structure, Entries,
           NEW r \in [id : RpcId, serial : Serial, answer : Answer],
           NEW e \in Info, Accepts(r, e)
    PROVE  /\ e.State # 0 => DeferredScript(rpc[r.id]) /\ DeferredScript(e)
           /\ e.rpc_entry = NoAnswer => rpc[r.id].rpc_entry = NoAnswer
           /\ e.by = "rest" /\ e.State = 0 => e.rpc_entry # NoAnswer
           /\ e.by = "rest" /\ e.cmd \in Deferred /\ e.State = 1
                 => e.rpc_entry # NoAnswer
           /\ e.rpc_entry # NoAnswer => e.rpc_entry.from = SerialNumber[e.cmd]
<1> DEFINE info == rpc[r.id]
           kept == [from |-> r.serial, answer |-> r.answer]
<1>1. /\ info \in Info /\ r.id \in RpcId
      /\ e.cmd = info.cmd /\ e.by = info.by
      /\ e.State = NewState(info, r.answer)
      /\ e.rpc_entry = IF Replies(info, r.answer) THEN KeepPromise(info, r)
                       ELSE info.rpc_entry
      /\ SerialNumber[info.cmd] = r.serial
    BY DEF Accepts, TypeOK
<1>2. kept # NoAnswer /\ kept.from = r.serial
    BY DEF NoAnswer, Answer
<1>3. KeepPromise(info, r) \in {kept, info.rpc_entry}
    BY DEF KeepPromise
<1>4. info.rpc_entry # NoAnswer => KeepPromise(info, r) # NoAnswer
    BY DEF KeepPromise
<1>5. info.by = "rest" => KeepPromise(info, r) # NoAnswer
    BY <1>2, <1>4 DEF KeepPromise
<1> HIDE DEF kept
<1>6. e.rpc_entry \in {kept, info.rpc_entry}
    BY <1>1, <1>3
<1>7. e.rpc_entry = NoAnswer => info.rpc_entry = NoAnswer
    BY <1>1, <1>4
<1>8. info.by = "rest" /\ info.State = 0 => info.rpc_entry # NoAnswer
    BY <1>1 DEF Entries, RestAnswered
<1>9. info.by = "rest" /\ info.cmd \in Deferred /\ info.State = 1
         => info.rpc_entry # NoAnswer
    BY <1>1 DEF Entries, RestAnswered
<1>10. info.rpc_entry # NoAnswer => info.rpc_entry.from = SerialNumber[info.cmd]
    BY <1>1 DEF Entries, AnswerFromTarget
<1>11. e.State # 0 => DeferredScript(info) /\ DeferredScript(e)
    BY <1>1 DEF NewState, DeferredScript
<1>12. ASSUME e.by = "rest", info.State = 2,
              e.State = 0 \/ (e.cmd \in Deferred /\ e.State = 1)
       PROVE  Replies(info, r.answer)
    <2>1. CASE ~DeferredScript(info)
        BY <2>1 DEF Replies
    <2>2. CASE DeferredScript(info)
        <3>1. e.State = ScriptState(info, r.answer)
            BY <1>1, <2>2 DEF NewState
        <3>2. r.answer # "error64"
            BY <1>12, <3>1 DEF ScriptState
        <3> QED BY <1>12, <2>2, <3>2 DEF Replies, ScriptReply
    <2> QED BY <2>1, <2>2
<1>13. ASSUME e.by = "rest", e.State = 0 \/ (e.cmd \in Deferred /\ e.State = 1)
       PROVE  e.rpc_entry # NoAnswer
    <2>1. CASE info.State = 2
        BY <1>1, <1>5, <1>12, <1>13, <2>1
    <2>2. CASE info.State = 0
        BY <1>1, <1>7, <1>8, <1>13, <2>2
    <2>3. CASE info.State = 1 /\ info.cmd \in Deferred
        BY <1>1, <1>7, <1>9, <1>13, <2>3
    <2>4. CASE info.State = 1 /\ info.cmd \notin Deferred
        BY <1>1, <1>5, <1>13, <2>4 DEF Replies, DeferredScript
    <2>5. info.State \in {0, 1, 2}
        BY <1>1 DEF Info
    <2> QED BY <2>1, <2>2, <2>3, <2>4, <2>5
<1>14. e.rpc_entry # NoAnswer => e.rpc_entry.from = SerialNumber[e.cmd]
    BY <1>1, <1>2, <1>6, <1>10 DEF kept
<1> QED BY <1>7, <1>11, <1>13, <1>14

LEMMA ResponseKeepsEntries ==
    ASSUME TypeOK, Structure, Entries, HandleResponse
    PROVE  Entries'
<1>1. PICK r \in [id : RpcId, serial : Serial, answer : Answer] :
         Ignores(r) \/ \E e \in Info : Accepts(r, e)
    BY ResponseStep
<1>2. UNCHANGED <<Id_, forgotten, pc, batch, rpcid>>
    BY ResponseStep DEF callVars, schedVars
<1>3. CASE Ignores(r)
    BY <1>2, <1>3, ForgettingKeepsEntries DEF Ignores, InCall
<1>4. ASSUME NEW e \in Info, Accepts(r, e)
      PROVE  Entries'
    <2>1. /\ r.id \in RpcId /\ rpc'[r.id] = e /\ e.cmd = rpc[r.id].cmd /\ e.by = rpc[r.id].by
          /\ \A id \in RpcId : id # r.id => rpc'[id] = rpc[id]
          /\ OutStandingRequests_' = IF e.State = 0 THEN OutStandingRequests_ \ {r.id}
                                     ELSE OutStandingRequests_
          /\ r.id \in OutStandingRequests_
        BY <1>4 DEF Accepts, TypeOK
    <2>2. /\ e.State # 0 => DeferredScript(rpc[r.id]) /\ DeferredScript(e)
          /\ e.rpc_entry = NoAnswer => rpc[r.id].rpc_entry = NoAnswer
          /\ e.by = "rest" /\ e.State = 0 => e.rpc_entry # NoAnswer
          /\ e.by = "rest" /\ e.cmd \in Deferred /\ e.State = 1
                => e.rpc_entry # NoAnswer
          /\ e.rpc_entry # NoAnswer => e.rpc_entry.from = SerialNumber[e.cmd]
        BY <1>4, AcceptedEntry
    <2>3. Tracked'
        BY <1>2, <2>1 DEF Entries, Tracked
    <2>4. RestWaits'
        <3> SUFFICES ASSUME NEW id \in OutStandingRequests_', rpc'[id].by = "rest"
                     PROVE  /\ rpc'[id].rpc_entry # NoAnswer => DeferredScript(rpc'[id])
                            /\ rpc'[id].rpc_entry = NoAnswer => InCall(rpc'[id].cmd)
            BY <1>2 DEF RestWaits, DeferredScript, InCall
        <3>1. CASE id = r.id
            BY <2>1, <2>2, <3>1 DEF Entries, RestWaits
        <3>2. CASE id # r.id
            BY <2>1, <3>2 DEF Entries, RestWaits, TypeOK
        <3> QED BY <3>1, <3>2
    <2>5. RestAnswered'
        BY <2>1, <2>2 DEF Entries, RestAnswered
    <2>6. AnswerFromTarget'
        BY <2>1, <2>2 DEF Entries, AnswerFromTarget
    <2> QED BY <2>3, <2>4, <2>5, <2>6 DEF Entries
<1> QED BY <1>1, <1>3, <1>4

LEMMA CallKeepsEntries ==
    ASSUME TypeOK, Structure, Entries, NEW u \in Cmd, Call(u)
    PROVE  Entries'
<1>0. pc \in [Cmd -> {"idle", "begin", "post", "send", "wait", "giveup",
                      "store", "insert", "mark", "requeue", "done"}]
    BY DEF TypeOK
<1>1. CASE \/ DoPost(u) \/ SystemCommand(u) \/ WaitForCommand(u) \/ Answered(u)
           \/ TimeOut(u) \/ StoreRemove(u) \/ StoreInsert(u)
    <2>1. /\ UNCHANGED <<Id_, rpc, OutStandingRequests_, forgotten, batch>>
          /\ \A v \in Cmd : v # u => pc'[v] = pc[v]
          /\ \/ pc[u] \in {"idle", "begin", "store", "insert"}
             \/ pc[u] = "wait" /\ rpc[rpcid[u]].rpc_entry # NoAnswer
             \/ pc'[u] = "giveup"
        BY <1>0, <1>1 DEF DoPost, SystemCommand, WaitForCommand, Answered, TimeOut,
           StoreRemove, StoreInsert, Goto, mapVars, schedVars
    <2> QED BY <2>1, ForgettingKeepsEntries DEF InCall
<1>2. CASE GiveUp(u) \/ NotSent(u)
    <2>1. /\ UNCHANGED <<Id_, rpc, batch>>
          /\ OutStandingRequests_' = OutStandingRequests_ \ {rpcid[u]}
          /\ forgotten' = forgotten \cup {rpcid[u]}
          /\ \A v \in Cmd : v # u => pc'[v] = pc[v]
        BY <1>0, <1>2 DEF GiveUp, NotSent, WithoutPending, Goto, schedVars
    <2> QED BY <2>1, ForgettingKeepsEntries DEF InCall
<1>3. CASE Sent(u)
    <2>1. /\ UNCHANGED <<Id_, rpc, OutStandingRequests_, forgotten, batch>>
          /\ \A v \in Cmd : v # u => pc'[v] = pc[v]
          /\ rpc[rpcid[u]].by = "rest" => pc'[u] = "wait"
        BY <1>0, <1>3 DEF Sent, EntersMap, Goto, schedVars
    <2> QED BY <2>1, ForgettingKeepsEntries DEF InCall
<1> QED BY <1>1, <1>2, <1>3, PostKeepsEntries DEF Call

LEMMA EntriesHold ==
    ASSUME TypeOK, Structure, Structure', Entries, [Next]_vars
    PROVE  Entries'
<1>1. CASE Scheduler
    <2>1. UNCHANGED <<Id_, rpc, OutStandingRequests_, forgotten>>
        BY <1>1 DEF Scheduler, SchedulerStart, SchedulerFetch, SchedulerSkip,
                    SchedulerPost, SchedulerMark, mapVars
    <2>2. ASSUME NEW v \in Cmd, InCall(v)
          PROVE  InCall(v)'
        <3>1. CASE SchedulerStart \/ SchedulerFetch
            <4>1. UNCHANGED pc /\ sched' # "post"
                BY <3>1 DEF SchedulerStart, SchedulerFetch, callVars
            <4>2. v \notin batch'
                BY <2>2, <4>1 DEF InCall, Structure, Pass
            <4> QED BY <2>2, <4>1, <4>2 DEF InCall
        <3>2. ASSUME NEW u \in Cmd, SchedulerSkip(u) \/ SchedulerPost(u) \/ SchedulerMark(u)
              PROVE  InCall(v)'
            <4>1. u \in batch /\ batch' \subseteq batch
                BY <3>2 DEF SchedulerSkip, SchedulerPost, SchedulerMark, First, Advance,
                            Structure, Pass
            <4>2. pc'[v] = pc[v]
                BY <2>2, <3>2, <4>1 DEF SchedulerSkip, SchedulerPost, SchedulerMark, Goto,
                                        callVars, InCall, TypeOK
            <4> QED BY <2>2, <4>1, <4>2 DEF InCall
        <3> QED BY <1>1, <3>1, <3>2 DEF Scheduler
    <2> QED BY <2>1, <2>2, ForgettingKeepsEntries
<1>2. ASSUME NEW u \in Cmd,
             Deliver(u) \/ DeleteCommand(u) \/ BecomesDue(u) \/ GrowsOld(u)
      PROVE  Entries'
    <2>1. /\ UNCHANGED <<Id_, rpc, pc, batch>> /\ forgotten \subseteq forgotten'
          /\ OutStandingRequests_' \subseteq OutStandingRequests_
          /\ OutStandingRequests_ \ OutStandingRequests_' \subseteq forgotten'
        BY <1>2 DEF Deliver, DeleteCommand, BecomesDue, GrowsOld, mapVars, callVars,
                    schedVars
    <2> QED BY <2>1, ForgettingKeepsEntries DEF InCall
<1>3. CASE Janitor \/ (\E id \in RpcId : Ages(id)) \/ UNCHANGED vars
    <2>1. /\ UNCHANGED <<Id_, rpc, pc, batch>> /\ forgotten \subseteq forgotten'
          /\ OutStandingRequests_' \subseteq OutStandingRequests_
          /\ OutStandingRequests_ \ OutStandingRequests_' \subseteq forgotten'
        BY <1>3 DEF Janitor, JanitorKeeps, Ages, vars, mapVars, callVars, schedVars
    <2> QED BY <2>1, ForgettingKeepsEntries DEF InCall
<1>4. ASSUME NEW s \in Serial, Device(s)
      PROVE  Entries'
    <2>1. /\ UNCHANGED <<Id_, rpc, pc, batch>> /\ forgotten \subseteq forgotten'
          /\ OutStandingRequests_' \subseteq OutStandingRequests_
          /\ OutStandingRequests_ \ OutStandingRequests_' \subseteq forgotten'
        BY <1>4 DEF Device, PostCommandResult, ConnectMessage, ConnectDone,
                    ConnectionLost, mapVars, callVars, schedVars
    <2> QED BY <2>1, ForgettingKeepsEntries DEF InCall
<1> QED BY <1>1, <1>2, <1>3, <1>4, CallKeepsEntries, ResponseKeepsEntries DEF Next

-----------------------------------------------------------------------------
(* The kinds of steps. *)

(* Steps that move no poster ...                                           *)
Quiet ==
    /\ UNCHANGED <<Id_, pc, rpcid, outcome, batch, sends>>
    /\ RowsAdvance
    /\ OutStandingRequests_' \subseteq OutStandingRequests_
    /\ forgotten \subseteq forgotten'
    /\ \A id \in RpcId : rpc'[id].cmd = rpc[id].cmd /\ rpc'[id].by = rpc[id].by

(* ... steps of a page, where command u has its turn or has had it ...     *)
Turn(u) ==
    /\ UNCHANGED <<Id_, rpc, OutStandingRequests_, ResponseQueue_, rpcid, outcome,
                   sends, forgotten>>
    /\ RowsAdvance
    /\ u \in batch
    /\ \A v \in Cmd : v # u => pc'[v] = pc[v] /\ (v \in batch' <=> v \in batch)
    /\ \/ /\ pc[u] = "done" /\ pc'[u] = "post" /\ u \in batch'
          /\ ~Busy(SerialNumber[u])
       \/ /\ pc[u] = "done" /\ pc'[u] = "done" /\ u \notin batch'
       \/ /\ pc[u] \in {"mark", "requeue"} /\ pc'[u] = "done" /\ u \notin batch'
          /\ pc[u] = "mark" => row'[u] = NoRow \/ row'[u].Executed

(* ... and the step that begins a page.                                    *)
NewPage ==
    /\ UNCHANGED <<Id_, rpc, OutStandingRequests_, ResponseQueue_, row, pc, rpcid,
                   outcome, sends, forgotten>>
    /\ batch = {}
    /\ \A u \in batch' : u \in Cmd /\ pc[u] = "done" /\ row[u] # NoRow /\ ~row[u].Executed

LEMMA ResponseIsQuiet ==
    ASSUME TypeOK, Structure, HandleResponse
    PROVE  Quiet
<1>1. PICK r \in [id : RpcId, serial : Serial, answer : Answer] :
         Ignores(r) \/ \E e \in Info : Accepts(r, e)
    BY ResponseStep
<1>2. UNCHANGED <<Id_, pc, rpcid, outcome, batch, sends, forgotten>> /\ RowsAdvance
    BY ResponseStep, ResponseTypes DEF callVars, schedVars
<1>3. CASE Ignores(r)
    BY <1>2, <1>3 DEF Ignores, Quiet
<1>4. ASSUME NEW e \in Info, Accepts(r, e)
      PROVE  Quiet
    <2>1. /\ rpc' = [rpc EXCEPT ![r.id] = e] /\ e.cmd = rpc[r.id].cmd
          /\ e.by = rpc[r.id].by /\ OutStandingRequests_' \subseteq OutStandingRequests_
        BY <1>4 DEF Accepts
    <2>2. \A id \in RpcId : rpc'[id].cmd = rpc[id].cmd /\ rpc'[id].by = rpc[id].by
        BY <2>1 DEF TypeOK
    <2> QED BY <1>2, <2>1, <2>2 DEF Quiet
<1> QED BY <1>1, <1>3, <1>4

LEMMA StepKinds ==
    ASSUME TypeOK, Structure, Structure', [Next]_vars
    PROVE  \/ HandleResponse
           \/ Quiet /\ rpc' = rpc /\ ResponseQueue_' = ResponseQueue_
           \/ Quiet /\ rpc' = rpc /\ \E s \in Serial, id \in RpcId, a \in Answers :
                                        PostCommandResult(s, id, a)
           \/ \E u \in Cmd : Turn(u)
           \/ NewPage
           \/ \E u \in Cmd : Call(u)
<1>0. /\ pc \in [Cmd -> {"idle", "begin", "post", "send", "wait", "giveup",
                         "store", "insert", "mark", "requeue", "done"}]
      /\ row \in [Cmd -> Row] /\ Pass
    BY DEF TypeOK, Structure
<1>1. CASE Scheduler
    <2>1. CASE SchedulerStart
        <3>1. RowsAdvance
            BY <1>0, <2>1, RetireAdvances DEF SchedulerStart
        <3> QED BY <2>1, <3>1 DEF SchedulerStart, Quiet, mapVars, netVars, callVars
    <2>2. CASE SchedulerFetch
        <3>1. /\ sched = "fetch" /\ sched' # "post" /\ UNCHANGED pc
              /\ \A u \in batch' : Ready(row[u])
            BY <2>2 DEF SchedulerFetch, callVars
        <3>2. batch = {} /\ \A u \in batch' : u \in Cmd /\ pc[u] = "done"
            BY <1>0, <2>2, <3>1 DEF Pass, Structure, SchedulerFetch
        <3> QED BY <2>2, <3>1, <3>2
                DEF SchedulerFetch, NewPage, Ready, mapVars, netVars, rowVars, callVars
    <2>3. ASSUME NEW u \in Cmd, SchedulerSkip(u) \/ SchedulerPost(u) \/ SchedulerMark(u)
          PROVE  Turn(u)
        <3>1. RowsAdvance
            <4>1. \/ row' = row \/ row' = SetCommandTimedOut(u)
                  \/ row' = SetCommandLastTry(u) \/ row' = SetCommandExecuted(u)
                BY <2>3 DEF SchedulerSkip, SchedulerPost, SchedulerMark, AfterPost, rowVars
            <4>2. CASE row' = row
                BY <4>2, StepsAdvance
            <4> QED BY <1>0, <4>1, <4>2, SetsAdvance
        <3>2. CASE SchedulerSkip(u)
            <4>1. u \in batch /\ sched = "pick" /\ UNCHANGED pc /\ batch' = batch \ {u}
                BY <3>2 DEF SchedulerSkip, First, Advance, callVars
            <4>2. pc[u] = "done"
                BY <1>0, <4>1 DEF Pass
            <4> QED BY <3>1, <3>2, <4>1, <4>2
                    DEF SchedulerSkip, Turn, mapVars, netVars, callVars
        <3>3. CASE SchedulerPost(u)
            <4>1. u \in batch /\ sched = "pick" /\ batch' = batch /\ pc'[u] = "post"
                BY <1>0, <3>3 DEF SchedulerPost, First, Goto
            <4>2. pc[u] = "done"
                BY <1>0, <4>1 DEF Pass
            <4> QED BY <1>0, <3>1, <3>3, <4>1, <4>2
                    DEF SchedulerPost, DeviceFree, Goto, Turn, mapVars, netVars
        <3>4. CASE SchedulerMark(u)
            <4>1. u \in batch /\ batch' = batch \ {u} /\ pc'[u] = "done"
                BY <1>0, <3>4 DEF SchedulerMark, Advance, Goto, Pass
            <4>2. pc[u] = "mark" => row'[u] = NoRow \/ row'[u].Executed
                <5> SUFFICES ASSUME pc[u] = "mark"
                             PROVE  row'[u] = NoRow \/ row'[u].Executed
                    OBVIOUS
                <5> DEFINE r == [row[u] EXCEPT !.Executed = TRUE, !.status = "executed"]
                <5>1. row' = [row EXCEPT ![u] = IF @ = NoRow THEN @ ELSE r]
                    BY <3>4 DEF SchedulerMark, AfterPost, SetCommandExecuted, Update
                <5>2. r.Executed
                    BY <1>0 DEF Row
                <5> HIDE DEF r
                <5> QED BY <1>0, <5>1, <5>2
            <4> QED BY <1>0, <3>1, <3>4, <4>1, <4>2
                    DEF SchedulerMark, Goto, Turn, mapVars, netVars
        <3> QED BY <2>3, <3>2, <3>3, <3>4
    <2> QED BY <1>1, <2>1, <2>2, <2>3 DEF Scheduler
<1>2. ASSUME NEW u \in Cmd,
             Deliver(u) \/ DeleteCommand(u) \/ BecomesDue(u) \/ GrowsOld(u)
      PROVE  Quiet /\ rpc' = rpc /\ ResponseQueue_' = ResponseQueue_
    <2>1. RowsAdvance
        BY <1>2, StepsAdvance DEF Deliver, DeleteCommand, rowVars
    <2> QED BY <1>2, <2>1 DEF Deliver, DeleteCommand, BecomesDue, GrowsOld, Quiet,
                              mapVars, netVars, callVars, schedVars
<1>3. CASE Janitor \/ (\E id \in RpcId : Ages(id)) \/ UNCHANGED vars
    <2>1. RowsAdvance
        <3>1. CASE row' = row
            BY <3>1 DEF RowsAdvance, TypeOK
        <3> QED BY <1>3, <3>1, JanitorAdvances DEF Ages, vars, rowVars
    <2> QED BY <1>3, <2>1 DEF Janitor, JanitorKeeps, Ages, vars, Quiet, mapVars, netVars,
                              callVars, schedVars
<1>4. ASSUME NEW s \in Serial, Device(s)
      PROVE  /\ Quiet /\ rpc' = rpc
             /\ \/ ResponseQueue_' = ResponseQueue_
                \/ \E id \in RpcId, a \in Answers : PostCommandResult(s, id, a)
    <2>1. row' = row
        BY <1>4 DEF Device, PostCommandResult, ConnectMessage, ConnectDone,
                    ConnectionLost, rowVars
    <2>2. RowsAdvance
        BY <2>1 DEF RowsAdvance, TypeOK
    <2> QED BY <1>4, <2>2 DEF Device, PostCommandResult, ConnectMessage, ConnectDone,
                              ConnectionLost, Quiet, mapVars, callVars, schedVars
<1> QED BY <1>1, <1>2, <1>3, <1>4 DEF Next

(* A call that moves and does not post: what all its steps have in common. *)
LEMMA MoveFacts ==
    ASSUME TypeOK, Structure, NEW u \in Cmd, Call(u), ~PostCommand(u)
    PROVE  /\ UNCHANGED <<Id_, rpc, ResponseQueue_, batch, rpcid>>
           /\ OutStandingRequests_' \subseteq OutStandingRequests_
           /\ forgotten \subseteq forgotten'
           /\ \A v \in Cmd : v # u => /\ pc'[v] = pc[v] /\ outcome'[v] = outcome[v]
                                      /\ sends'[v] = sends[v]
           /\ ~Sent(u) => sends' = sends
           /\ pc[u] \notin {"done", "mark", "requeue", "post"}
           /\ RowsAdvance \/ (StoreInsert(u) /\ \A v \in Cmd : v # u => row'[v] = row[v])
<1>0. /\ pc \in [Cmd -> {"idle", "begin", "post", "send", "wait", "giveup",
                         "store", "insert", "mark", "requeue", "done"}]
      /\ outcome \in [Cmd -> {"none", "pending", "unanswered", "failed",
                              "completed", "executed"}]
      /\ sends \in [Cmd -> Nat] /\ row \in [Cmd -> Row]
    BY DEF TypeOK
<1>1. CASE StoreInsert(u)
    BY <1>0, <1>1 DEF StoreInsert, Goto, mapVars, netVars, schedVars
<1>2. CASE StoreRemove(u)
    <2>1. RowsAdvance
        BY <1>2, StepsAdvance DEF StoreRemove
    <2> QED BY <1>0, <1>2, <2>1 DEF StoreRemove, Goto, mapVars, netVars, schedVars, Sent
<1>3. ASSUME row' = row
      PROVE  RowsAdvance
    BY <1>0, <1>3 DEF RowsAdvance
<1>4. CASE DoPost(u) \/ SystemCommand(u) \/ WaitForCommand(u) \/ Answered(u) \/ TimeOut(u)
    BY <1>0, <1>3, <1>4 DEF DoPost, SystemCommand, WaitForCommand, Answered, TimeOut, Goto,
                            mapVars, netVars, rowVars, schedVars
<1>5. CASE GiveUp(u) \/ NotSent(u) \/ Sent(u)
    BY <1>0, <1>3, <1>5 DEF GiveUp, NotSent, Sent, WithoutPending, EntersMap, Goto,
                            mapVars, netVars, rowVars, schedVars
<1> QED BY <1>1, <1>2, <1>4, <1>5 DEF Call

-----------------------------------------------------------------------------
(* One command at a time. *)

LEMMA RemovingKeepsQueue ==
    ASSUME TypeOK, OneQueuedCommandPerDevice, QueueFree,
           OutStandingRequests_' \subseteq OutStandingRequests_,
           \A id \in RpcId : rpc'[id].cmd = rpc[id].cmd /\ rpc'[id].by = rpc[id].by,
           \A v \in batch' : pc'[v] = "post" => v \in batch /\ pc[v] = "post"
    PROVE  OneQueuedCommandPerDevice' /\ QueueFree'
<1>1. \A id \in OutStandingRequests_' : /\ id \in OutStandingRequests_
                                          /\ rpc'[id].cmd = rpc[id].cmd
                                          /\ rpc'[id].by = rpc[id].by
    BY DEF TypeOK
<1>2. OneQueuedCommandPerDevice'
    BY <1>1 DEF OneQueuedCommandPerDevice
<1>3. QueueFree'
    BY <1>1 DEF QueueFree
<1> QED BY <1>2, <1>3

LEMMA QueueHolds ==
    ASSUME TypeOK, Structure, Structure', OneQueuedCommandPerDevice, QueueFree, [Next]_vars
    PROVE  OneQueuedCommandPerDevice' /\ QueueFree'
<1>0. batch' \subseteq Cmd
    BY TypesHold DEF TypeOK
<1>1. CASE Quiet
    BY <1>1, RemovingKeepsQueue DEF Quiet
<1>2. CASE NewPage
    BY <1>2, RemovingKeepsQueue DEF NewPage
<1>3. ASSUME NEW u \in Cmd, Turn(u)
      PROVE  OneQueuedCommandPerDevice' /\ QueueFree'
    <2>1. CASE pc'[u] # "post"
        BY <1>0, <1>3, <2>1, RemovingKeepsQueue DEF Turn
    <2>2. CASE pc'[u] = "post"
        <3>1. OneQueuedCommandPerDevice'
            BY <1>3 DEF Turn, OneQueuedCommandPerDevice
        <3>2. \A id \in OutStandingRequests_ : SerialNumber[rpc[id].cmd] # SerialNumber[u]
            BY <1>3, <2>2 DEF Turn, Busy
        <3> QED BY <1>0, <1>3, <3>1, <3>2 DEF Turn, QueueFree
    <2> QED BY <2>1, <2>2
<1>4. ASSUME NEW u \in Cmd, Call(u), ~PostCommand(u)
      PROVE  OneQueuedCommandPerDevice' /\ QueueFree'
    <2>1. /\ OutStandingRequests_' \subseteq OutStandingRequests_
          /\ rpc' = rpc /\ batch' = batch
          /\ \A v \in Cmd : v # u => pc'[v] = pc[v]
          /\ pc[u] \notin {"done", "mark", "requeue", "post"}
        BY <1>4, MoveFacts
    <2>2. u \in batch => pc[u] = "send"
        BY <2>1 DEF Structure, Pass, ByScheduler
    <2>3. u \in batch => pc'[u] # "post"
        BY <1>4, <2>2 DEF Call, DoPost, SystemCommand, WaitForCommand, Answered, TimeOut,
           GiveUp, Sent, NotSent, StoreRemove, StoreInsert, Goto, TypeOK
    <2> QED BY <2>1, <2>3, RemovingKeepsQueue DEF TypeOK
<1>5. ASSUME NEW u \in Cmd, PostCommand(u)
      PROVE  OneQueuedCommandPerDevice' /\ QueueFree'
    <2> DEFINE new == [cmd |-> u, by |-> By(u),
                       State |-> IF u \in Deferred /\ By(u) = "rest" THEN 2 ELSE 1,
                       rpc_entry |-> NoAnswer]
    <2>1. /\ pc[u] = "post" /\ batch' = batch
          /\ rpc' = [rpc EXCEPT ![Id_ + 1] = new]
          /\ OutStandingRequests_' = OutStandingRequests_ \cup {Id_ + 1}
          /\ pc' = [pc EXCEPT ![u] = "send"]
        BY <1>5 DEF PostCommand, EntersMap, Goto, schedVars
    <2>2. Id_ + 1 \in RpcId /\ Id_ \in Nat
        BY <1>5, NewIdType DEF PostCommand
    <2>3. new.cmd = u /\ new.by = By(u)
        OBVIOUS
    <2>4. By(u) = "disk" => u \in batch
        BY DEF By
    <2> HIDE DEF new
    <2>5. rpc'[Id_ + 1] = new /\ \A id \in RpcId : id # Id_ + 1 => rpc'[id] = rpc[id]
        BY <2>1, <2>2 DEF TypeOK
    <2>6. \A id \in OutStandingRequests_ : id \in RpcId /\ id # Id_ + 1
        BY <2>2 DEF Structure, Issued, TypeOK
    <2>7. pc'[u] = "send" /\ \A v \in Cmd : v # u => pc'[v] = pc[v]
        BY <2>1 DEF TypeOK
    <2>8. By(u) = "disk" => \A id \in OutStandingRequests_ :
             rpc[id].by = "disk" => SerialNumber[rpc[id].cmd] # SerialNumber[u]
        BY <2>1, <2>4 DEF QueueFree
    <2>9. OneQueuedCommandPerDevice'
        <3> SUFFICES ASSUME NEW i \in OutStandingRequests_', NEW j \in OutStandingRequests_',
                            rpc'[i].by = "disk", rpc'[j].by = "disk",
                            SerialNumber[rpc'[i].cmd] = SerialNumber[rpc'[j].cmd]
                     PROVE  i = j
            BY DEF OneQueuedCommandPerDevice
        <3>1. CASE i = Id_ + 1 /\ j # Id_ + 1
            BY <2>1, <2>3, <2>5, <2>6, <2>8, <3>1
        <3>2. CASE i # Id_ + 1 /\ j = Id_ + 1
            BY <2>1, <2>3, <2>5, <2>6, <2>8, <3>2
        <3>3. CASE i # Id_ + 1 /\ j # Id_ + 1
            BY <2>1, <2>5, <2>6, <3>3 DEF OneQueuedCommandPerDevice
        <3> QED BY <3>1, <3>2, <3>3
    <2>10. QueueFree'
        <3> SUFFICES ASSUME NEW v \in batch, pc'[v] = "post",
                            NEW id \in OutStandingRequests_', rpc'[id].by = "disk"
                     PROVE  SerialNumber[rpc'[id].cmd] # SerialNumber[v]
            BY <2>1 DEF QueueFree
        <3>1. v # u /\ v \in Cmd /\ pc[v] = "post"
            BY <2>7 DEF TypeOK
        <3>2. u \notin batch
            BY <2>1, <3>1 DEF Structure, Pass
        <3>3. id # Id_ + 1
            BY <2>3, <2>4, <2>5, <3>2
        <3> QED BY <2>1, <2>5, <2>6, <3>1, <3>3 DEF QueueFree
    <2> QED BY <2>9, <2>10
<1> QED BY <1>1, <1>2, <1>3, <1>4, <1>5, StepKinds, ResponseIsQuiet

LEMMA SentOnceHolds ==
    ASSUME TypeOK, Structure, Structure', SentOnce, [Next]_vars
    PROVE  SentOnce'
<1>0. /\ pc \in [Cmd -> {"idle", "begin", "post", "send", "wait", "giveup",
                         "store", "insert", "mark", "requeue", "done"}]
      /\ sends \in [Cmd -> Nat] /\ row \in [Cmd -> Row] /\ batch \subseteq Cmd
      /\ Pass /\ Posters
    BY DEF TypeOK, Structure
<1>1. ASSUME sends' = sends, \A v \in Cmd : Passed(v) => Passed(v)'
      PROVE  SentOnce'
    BY <1>1 DEF SentOnce
<1>2. CASE Quiet
    BY <1>1, <1>2 DEF Quiet, Passed, RowsAdvance
<1>3. CASE NewPage
    <2>1. ASSUME NEW v \in Cmd, Passed(v)
          PROVE  Passed(v)'
        BY <1>3, <2>1 DEF NewPage, Passed
    <2> QED BY <1>1, <1>3, <2>1 DEF NewPage
<1>4. ASSUME NEW u \in Cmd, Turn(u)
      PROVE  SentOnce'
    <2>1. ASSUME NEW v \in Cmd, Passed(v)
          PROVE  Passed(v)'
        <3>1. CASE v = u
            <4>1. pc[u] = "mark"
                BY <1>4, <2>1, <3>1 DEF Turn, Passed
            <4> QED BY <1>4, <3>1, <4>1 DEF Turn, Passed
        <3>2. CASE v # u
            BY <1>4, <2>1, <3>2 DEF Turn, Passed, RowsAdvance
        <3> QED BY <3>1, <3>2
    <2> QED BY <1>1, <1>4, <2>1 DEF Turn
<1>5. ASSUME NEW u \in Cmd, PostCommand(u)
      PROVE  SentOnce'
    <2>1. /\ pc[u] = "post" /\ UNCHANGED <<row, outcome, batch, sends>>
          /\ \A v \in Cmd : v # u => pc'[v] = pc[v]
        BY <1>0, <1>5 DEF PostCommand, Goto, rowVars, schedVars
    <2> QED BY <1>1, <2>1 DEF Passed
<1>6. ASSUME NEW u \in Cmd, Call(u), ~PostCommand(u)
      PROVE  SentOnce'
    <2>1. /\ batch' = batch
          /\ \A v \in Cmd : v # u => /\ pc'[v] = pc[v] /\ outcome'[v] = outcome[v]
                                     /\ sends'[v] = sends[v]
          /\ ~Sent(u) => sends' = sends
          /\ RowsAdvance \/ (\A v \in Cmd : v # u => row'[v] = row[v])
        BY <1>6, MoveFacts
    <2>2. \A v \in Cmd : v # u /\ Passed(v) => Passed(v)'
        BY <2>1 DEF Passed, RowsAdvance
    <2>3. CASE Sent(u)
        <3> DEFINE by == rpc[rpcid[u]].by
        <3>1. /\ pc[u] = "send" /\ outcome' = outcome /\ row' = row
              /\ pc'[u] = CASE by = "disk" -> "mark"
                            [] by = "rest" -> "wait"
                            [] by = "system" /\ PostsFirst(u) -> "store"
                            [] OTHER       -> "done"
              /\ sends'[u] = sends[u] + 1
            BY <1>0, <2>3 DEF Sent, Goto, rowVars
        <3>2. sends[u] = 0
            BY <1>0, <3>1 DEF SentOnce, Passed
        <3>3. by = By(u)
            BY <1>0, <3>1 DEF Posters
        <3>4. By(u) \notin {"disk", "rest"} => By(u) = "system" /\ u \notin batch /\ Origin[u] # "rest"
            BY DEF By
        <3>5. Passed(u)'
            <4>1. CASE pc'[u] \in {"mark", "wait"}
                BY <4>1 DEF Passed
            <4>2. CASE by \notin {"disk", "rest"} /\ PostsFirst(u)
                <5>1. pc'[u] = "store"
                    BY <3>1, <3>3, <3>4, <4>2
                <5>2. outcome[u] = "executed" /\ Origin[u] = "recovery"
                    BY <1>0, <3>1, <3>3, <3>4, <4>2 DEF Posters, PostsFirst
                <5> QED BY <3>1, <5>1, <5>2 DEF Passed
            <4>3. CASE by \notin {"disk", "rest"} /\ ~PostsFirst(u)
                <5>1. pc'[u] = "done"
                    BY <3>1, <4>3
                <5>2. row[u] = NoRow \/ row[u].Executed
                    BY <3>1, <3>3, <3>4, <4>3 DEF Structure, Rows
                <5> QED BY <2>1, <3>1, <3>3, <3>4, <4>3, <5>1, <5>2 DEF Passed
            <4> QED BY <3>1, <4>1, <4>2, <4>3
        <3> QED BY <1>0, <2>1, <2>2, <3>1, <3>2, <3>5 DEF SentOnce
    <2>4. CASE ~Sent(u)
        <3>1. Passed(u) => Passed(u)'
            <4> SUFFICES ASSUME Passed(u)
                         PROVE  Passed(u)'
                OBVIOUS
            <4>1. pc[u] \in {"wait", "giveup", "mark", "store", "insert", "done"}
                BY DEF Passed
            <4>2. CASE Answered(u)
                <5>1. PICK o \in Outcomes(u, rpc[rpcid[u]].rpc_entry.answer) :
                         outcome' = [outcome EXCEPT ![u] = o]
                    BY <4>2 DEF Answered
                <5>2. o \in {"completed", "failed"}
                    BY DEF Outcomes
                <5>3. outcome'[u] # "pending"
                    BY <5>1, <5>2 DEF TypeOK
                <5>4. pc'[u] = "store" /\ Origin[u] = "rest"
                    BY <1>0, <4>2 DEF Answered, Goto, Posters
                <5> QED BY <5>3, <5>4 DEF Passed
            <4>3. CASE TimeOut(u)
                BY <1>0, <4>3 DEF TimeOut, Goto, Passed
            <4>4. CASE GiveUp(u)
                <5>1. outcome'[u] # "pending"
                    BY <4>4 DEF GiveUp, TypeOK
                <5>2. pc'[u] = "store" /\ Origin[u] = "rest"
                    BY <1>0, <4>4 DEF GiveUp, Goto, Posters
                <5> QED BY <5>1, <5>2 DEF Passed
            <4>5. CASE StoreRemove(u)
                BY <1>0, <4>5 DEF StoreRemove, Goto, Passed
            <4>6. CASE StoreInsert(u)
                <5>1. /\ pc[u] = "insert" /\ outcome[u] # "pending" /\ Origin[u] # "upgrade"
                    BY <4>6 DEF StoreInsert, Passed
                <5>2. pc'[u] = "done" /\ row'[u] = NewRow(u)
                    BY <1>0, <4>6, <5>1, CommandAssumption
                       DEF StoreInsert, Goto, PostsFirst, CommandAssumption
                <5>3. NewRow(u).Executed
                    BY <5>1 DEF NewRow
                <5>4. u \notin batch
                    BY <1>0, <5>1 DEF Pass, ByScheduler
                <5> QED BY <2>1, <5>2, <5>3, <5>4 DEF Passed
            <4> QED BY <1>6, <2>4, <4>1, <4>2, <4>3, <4>4, <4>5, <4>6
                    DEF Call, DoPost, SystemCommand, WaitForCommand, NotSent
        <3> QED BY <1>1, <2>1, <2>2, <2>4, <3>1
    <2> QED BY <2>3, <2>4
<1> QED BY <1>2, <1>3, <1>4, <1>5, <1>6, StepKinds, ResponseIsQuiet

-----------------------------------------------------------------------------
(* What becomes of an accepted answer. *)

LEMMA HandlerHoldsQueueHolds ==
    ASSUME TypeOK, Structure, Structure', HandlerHoldsQueue, [Next]_vars
    PROVE  HandlerHoldsQueue'
<1>0. Issued /\ Pass /\ PostedOnce
    BY DEF Structure
<1> DEFINE Held(r) == LET u == rpc[r.id].cmd
                      IN  rpc[r.id].by = "system" /\ PostsFirst(u)
                             /\ r.serial = SerialNumber[u] => pc[u] = "done" \/ u \in batch
<1>1. \A n \in 1..Len(ResponseQueue_) : /\ ResponseQueue_[n].id \in RpcId
                                        /\ ResponseQueue_[n].id <= Id_
                                        /\ rpc[ResponseQueue_[n].id].cmd \in Cmd
    <2> DEFINE R == [id : RpcId, serial : Serial, answer : Answer]
    <2>1. ResponseQueue_ \in Seq(R)
        BY DEF TypeOK
    <2> HIDE DEF R
    <2>2. \A n \in 1..Len(ResponseQueue_) : ResponseQueue_[n] \in R
        BY <2>1
    <2> QED BY <1>0, <2>2 DEF R, Issued
<1>2. ASSUME ResponseQueue_' = ResponseQueue_,
             \A id \in RpcId : id <= Id_ =>
                /\ rpc'[id].cmd = rpc[id].cmd /\ rpc'[id].by = rpc[id].by
                /\ pc[rpc[id].cmd] = "done" \/ rpc[id].cmd \in batch
                   => pc'[rpc[id].cmd] = "done" \/ rpc[id].cmd \in batch'
      PROVE  HandlerHoldsQueue'
    BY <1>1, <1>2 DEF HandlerHoldsQueue, PostsFirst
<1>3. CASE HandleResponse
    <2>1. Quiet /\ ResponseQueue_' = Tail(ResponseQueue_) /\ ResponseQueue_ # <<>>
        BY <1>3, ResponseIsQuiet DEF HandleResponse
    <2> SUFFICES ASSUME NEW n \in 1..Len(Tail(ResponseQueue_)), NEW r,
                        r = Tail(ResponseQueue_)[n], NEW u, u = rpc'[r.id].cmd,
                        rpc'[r.id].by = "system", PostsFirst(u), r.serial = SerialNumber[u]
                 PROVE  pc[u] = "done" \/ u \in batch
        BY <2>1 DEF HandlerHoldsQueue, PostsFirst, Quiet
    <2>2. n + 1 \in 1..Len(ResponseQueue_) /\ r = ResponseQueue_[n + 1]
        BY <2>1, HeadOfQueue
    <2>3. u = rpc[r.id].cmd /\ rpc[r.id].by = "system"
        BY <1>1, <2>1, <2>2 DEF Quiet
    <2> QED BY <2>2, <2>3 DEF HandlerHoldsQueue
<1>4. CASE Quiet /\ rpc' = rpc /\ ResponseQueue_' = ResponseQueue_
    BY <1>2, <1>4 DEF Quiet
<1>5. ASSUME Quiet, rpc' = rpc, NEW s \in Serial, NEW id \in RpcId, NEW a \in Answers,
             PostCommandResult(s, id, a)
      PROVE  HandlerHoldsQueue'
    <2>0. /\ rpc' = rpc /\ pc' = pc /\ batch' = batch
          /\ Len(ResponseQueue_') = Len(ResponseQueue_) + 1
        BY <1>5, QueueGrows DEF Quiet
    <2> SUFFICES ASSUME NEW n \in 1..(Len(ResponseQueue_) + 1), NEW r,
                        r = ResponseQueue_'[n], NEW u, u = rpc[r.id].cmd,
                        rpc[r.id].by = "system", PostsFirst(u), r.serial = SerialNumber[u]
                 PROVE  pc[u] = "done" \/ u \in batch
        BY <2>0 DEF HandlerHoldsQueue, PostsFirst
    <2>1. CASE n \in 1..Len(ResponseQueue_)
        <3>1. r = ResponseQueue_[n]
            BY <1>5, <2>1, QueueGrows
        <3> QED BY <2>1, <3>1 DEF HandlerHoldsQueue
    <2>2. CASE n = Len(ResponseQueue_) + 1
        <3>1. r = [id |-> id, serial |-> s, answer |-> a]
            BY <1>5, <2>2, QueueGrows
        <3>2. r.id = id /\ r.serial = s
            BY <3>1
        <3>3. id <= Id_ /\ HandlerFree(s)
            BY <1>5 DEF PostCommandResult, Reading
        <3>4. u \in Cmd /\ u # NoCmd
            BY <1>0, <3>2, <3>3, CommandAssumption DEF Issued, CommandAssumption
        <3>5. pc[u] # "idle"
            BY <1>0, <3>2, <3>4 DEF PostedOnce, Unposted
        <3> QED BY <3>2, <3>3, <3>4, <3>5 DEF HandlerFree, PostsFirst
    <2>3. Len(ResponseQueue_) \in Nat
        BY <1>5, QueueGrows
    <2> QED BY <2>1, <2>2, <2>3
<1>6. ASSUME NEW u \in Cmd, Turn(u)
      PROVE  HandlerHoldsQueue'
    <2>1. \A v \in Cmd : pc[v] = "done" \/ v \in batch => pc'[v] = "done" \/ v \in batch'
        BY <1>6 DEF Turn
    <2> QED BY <1>0, <1>2, <1>6, <2>1 DEF Turn, Issued
<1>7. CASE NewPage
    BY <1>2, <1>7 DEF NewPage
<1>8. ASSUME NEW u \in Cmd, PostCommand(u)
      PROVE  HandlerHoldsQueue'
    <2>1. /\ pc[u] = "post" /\ batch' = batch /\ ResponseQueue_' = ResponseQueue_
          /\ \A v \in Cmd : v # u => pc'[v] = pc[v]
        BY <1>8 DEF PostCommand, Goto, schedVars, netVars, TypeOK
    <2>2. \A id \in RpcId : id <= Id_ => rpc'[id] = rpc[id]
        <3> SUFFICES ASSUME NEW id \in RpcId, id <= Id_
                     PROVE  rpc'[id] = rpc[id]
            OBVIOUS
        <3>1. id # Id_ + 1
            BY <1>8, NewIdType DEF PostCommand, RpcId, FirstId
        <3> QED BY <1>8, <3>1 DEF PostCommand, TypeOK
    <2> QED BY <1>0, <1>2, <2>1, <2>2 DEF Issued
<1>9. ASSUME NEW u \in Cmd, Call(u), ~PostCommand(u)
      PROVE  HandlerHoldsQueue'
    <2>1. /\ batch' = batch /\ ResponseQueue_' = ResponseQueue_ /\ rpc' = rpc
          /\ \A v \in Cmd : v # u => pc'[v] = pc[v]
          /\ pc[u] # "done"
        BY <1>9, MoveFacts
    <2> QED BY <1>0, <1>2, <2>1 DEF Issued
<1> QED BY <1>3, <1>4, <1>5, <1>6, <1>7, <1>8, <1>9, StepKinds

(* A step that leaves the RPC id of command u alone.                       *)
LEMMA KeptFor ==
    ASSUME TypeOK, Structure, Recorded,
           NEW id \in RpcId, NEW u \in Cmd, u = rpc[id].cmd,
           rpc'[id].by = rpc[id].by,
           rpc'[id].by # "rest" => rpc'[id].State = rpc[id].State,
           forgotten \subseteq forgotten',
           id \notin forgotten' =>
             /\ rpc[id].by = "rest" /\ InCall(u) /\ rpcid[u] = id
                   => InCall(u)' \/ Concluded(u)'
             /\ Concluded(u) => Concluded(u)' \/ (Over(u)' /\ Settled(u)')
             /\ Over(u) => Over(u)'
             /\ Settled(u) /\ (Over(u) \/ Origin[u] = "upgrade") => Settled(u)'
    PROVE  RecordedFor(id, u)'
<1>1. InCall(u) => rpcid[u] = id
    BY CommandAssumption DEF CommandAssumption, Structure, PostedOnce
<1>2. RecordedFor(id, u)
    BY DEF Recorded
<1> QED BY <1>1, <1>2 DEF RecordedFor

LEMMA SettledStays ==
    ASSUME RowsAdvance, NEW u \in Cmd, Settled(u)
    PROVE  Settled(u)'
BY DEF RowsAdvance, Settled

(* The RPC that an answer is taken for.                                    *)
LEMMA AnswerIsRecorded ==
    ASSUME TypeOK, Structure, Entries, HandlerHoldsQueue, Recorded, HandleResponse,
           NEW r \in [id : RpcId, serial : Serial, answer : Answer],
           r = ResponseQueue_[1], 1 \in 1..Len(ResponseQueue_),
           NEW e \in Info, Accepts(r, e), NEW u \in Cmd, u = rpc[r.id].cmd
    PROVE  RecordedFor(r.id, u)'
<1> DEFINE info == rpc[r.id]
<1>1. /\ Quiet /\ RowsAdvance /\ rpc'[r.id] = e /\ e.by = info.by
      /\ r.id \in RpcId /\ info \in Info /\ r.id <= Id_
    BY ResponseIsQuiet DEF Quiet, Accepts, TypeOK, Structure, Issued
<1>2. Settled(u) => Settled(u)'
    BY <1>1, SettledStays
<1>3. CASE info.by = "rest"
    BY <1>1, <1>2, <1>3, KeptFor DEF Quiet, InCall, Concluded, Over
<1>4. CASE info.by # "rest"
    <2>1. row' = CommandCompleted(u)
        BY <1>4 DEF Accepts, Completes, DeferredScript
    <2>2. Settled(u)'
        <3> DEFINE done == [row[u] EXCEPT !.Completed = TRUE, !.status = "completed"]
        <3>1. row' = [row EXCEPT ![u] = IF @ = NoRow THEN @ ELSE done]
            BY <2>1 DEF CommandCompleted, Update
        <3>2. done.Completed
            BY DEF TypeOK, Row
        <3> HIDE DEF done
        <3> QED BY <3>1, <3>2 DEF TypeOK, Settled
    <2>3. Over(u) \/ Origin[u] = "upgrade"
        <3>1. u # NoCmd /\ PostedOnce
            BY CommandAssumption DEF CommandAssumption, Structure
        <3>2. CASE info.by = "disk"
            BY <1>1, <3>1, <3>2 DEF PostedOnce, Over
        <3>3. CASE info.by = "system" /\ Origin[u] = "recovery"
            <4>1. r.serial = SerialNumber[u]
                BY DEF Accepts
            <4> QED BY <3>3, <4>1 DEF HandlerHoldsQueue, PostsFirst, Over
        <3>4. CASE info.by = "system" /\ Origin[u] # "recovery"
            BY <1>1, <3>1, <3>4, CommandAssumption DEF CommandAssumption, PostedOnce
        <3>5. info.by \in {"rest", "disk", "system"}
            BY <1>1 DEF Info, Structure, Issued
        <3> QED BY <1>4, <3>2, <3>3, <3>4, <3>5
    <2>4. Over(u) => Over(u)'
        BY <1>1 DEF Quiet, Over
    <2> QED BY <1>1, <1>4, <2>2, <2>3, <2>4 DEF RecordedFor
<1> QED BY <1>3, <1>4

(* A call that moves its command without posting it.                       *)
LEMMA MoveIsRecorded ==
    ASSUME TypeOK, Structure, Recorded, NEW u \in Cmd, Call(u), ~PostCommand(u),
           NEW id \in RpcId, u = rpc[id].cmd
    PROVE  RecordedFor(id, u)'
<1>0. /\ pc \in [Cmd -> {"idle", "begin", "post", "send", "wait", "giveup",
                         "store", "insert", "mark", "requeue", "done"}]
      /\ outcome \in [Cmd -> {"none", "pending", "unanswered", "failed",
                              "completed", "executed"}]
      /\ row \in [Cmd -> Row] /\ Pass /\ Posters
    BY DEF TypeOK, Structure
<1>1. /\ rpc' = rpc /\ batch' = batch /\ forgotten \subseteq forgotten'
      /\ RowsAdvance \/ StoreInsert(u)
    BY MoveFacts
<1>2. ~Unposted(u)
    BY CommandAssumption DEF CommandAssumption, Structure, PostedOnce
<1>3. u \in batch => pc[u] \in {"done"} \cup ByScheduler
    BY <1>0 DEF Pass
<1>4. ASSUME RowsAdvance, pc[u] \in {"send", "wait", "giveup"},
             rpc[id].by = "rest" /\ rpcid[u] = id /\ id \notin forgotten' /\ u \notin batch
                => InCall(u)' \/ Concluded(u)'
      PROVE  RecordedFor(id, u)'
    <2>1. Over(u) => Over(u)'
        BY <1>1, <1>4 DEF Over
    <2>2. ~Concluded(u) /\ (Settled(u) => Settled(u)')
        BY <1>4, SettledStays DEF Concluded
    <2>3. InCall(u) => u \notin batch
        BY DEF InCall
    <2> QED BY <1>1, <1>4, <2>1, <2>2, <2>3, KeptFor
<1>5. CASE Answered(u)
    <2>1. PICK o \in Outcomes(u, rpc[rpcid[u]].rpc_entry.answer) :
             outcome' = [outcome EXCEPT ![u] = o]
        BY <1>5 DEF Answered
    <2>2. o \in {"completed", "failed"}
        BY DEF Outcomes
    <2>3. pc[u] = "wait" /\ Concluded(u)'
        BY <1>0, <1>5, <2>1, <2>2 DEF Answered, Goto, Concluded
    <2> QED BY <1>1, <1>4, <1>5, <2>3 DEF StoreInsert
<1>6. CASE TimeOut(u)
    BY <1>0, <1>1, <1>4, <1>6 DEF TimeOut, Goto, InCall, StoreInsert
<1>7. CASE GiveUp(u)
    BY <1>0, <1>1, <1>4, <1>7 DEF GiveUp, StoreInsert
<1>8. CASE NotSent(u)
    BY <1>0, <1>1, <1>4, <1>8 DEF NotSent, StoreInsert
<1>9. CASE Sent(u)
    <2>1. pc[u] = "send" /\ (rpc[rpcid[u]].by = "rest" => pc'[u] = "wait")
        BY <1>0, <1>9 DEF Sent, Goto
    <2> QED BY <1>1, <1>4, <2>1 DEF InCall, StoreInsert
<1>10. CASE StoreRemove(u)
    <2>1. pc[u] = "store" /\ pc'[u] = "insert" /\ outcome' = outcome
        BY <1>0, <1>10 DEF StoreRemove, Goto
    <2>2. RowsAdvance
        BY <1>1, <2>1 DEF StoreInsert
    <2>3. ~InCall(u) /\ ~Over(u) /\ (Concluded(u) => Concluded(u)')
        BY <1>3, <2>1 DEF InCall, Over, Concluded, ByScheduler
    <2> QED BY <1>1, <2>2, <2>3, KeptFor, SettledStays
<1>11. CASE StoreInsert(u)
    <2>1. /\ pc[u] = "insert" /\ row'[u] = NewRow(u)
          /\ pc'[u] = IF Origin[u] = "rest" \/ PostsFirst(u) THEN "done" ELSE "post"
        BY <1>0, <1>11 DEF StoreInsert, Goto
    <2>2. Origin[u] # "upgrade"
        BY <1>2, <2>1 DEF Unposted
    <2>3. ~InCall(u) /\ ~Over(u)
        BY <1>3, <2>1 DEF InCall, Over, ByScheduler
    <2>4. Concluded(u) => Over(u)' /\ Settled(u)'
        <3> SUFFICES ASSUME Concluded(u)
                     PROVE  Over(u)' /\ Settled(u)'
            OBVIOUS
        <3>1. NewRow(u).Completed
            BY DEF NewRow, Concluded
        <3>2. pc'[u] = "done"
            BY <2>1, <2>2, CommandAssumption DEF CommandAssumption, PostsFirst
        <3> QED BY <2>1, <3>1, <3>2 DEF Over, Settled
    <2> QED BY <1>1, <2>2, <2>3, <2>4, KeptFor
<1> QED BY <1>0, <1>2, <1>5, <1>6, <1>7, <1>8, <1>9, <1>10, <1>11
        DEF Call, DoPost, SystemCommand, WaitForCommand, Unposted

LEMMA PostIsRecorded ==
    ASSUME TypeOK, Structure, Recorded, NEW w \in Cmd, PostCommand(w)
    PROVE  Recorded'
<1> DEFINE new == [cmd |-> w, by |-> By(w),
                   State |-> IF w \in Deferred /\ By(w) = "rest" THEN 2 ELSE 1,
                   rpc_entry |-> NoAnswer]
<1>1. /\ pc[w] = "post" /\ Id_' = Id_ + 1
      /\ rpc' = [rpc EXCEPT ![Id_ + 1] = new]
      /\ pc' = [pc EXCEPT ![w] = "send"]
      /\ UNCHANGED <<forgotten, batch, row, outcome>>
    BY DEF PostCommand, Goto, schedVars, rowVars
<1>2. Id_ + 1 \in RpcId
    BY NewIdType DEF PostCommand
<1>3. /\ new.cmd = w /\ new.by = By(w) /\ new.State # 0
      /\ By(w) = "rest" => w \notin batch
    BY DEF By
<1> HIDE DEF new
<1>4. rpc'[Id_ + 1] = new /\ \A id \in RpcId : id # Id_ + 1 => rpc'[id] = rpc[id]
    BY <1>1, <1>2 DEF TypeOK
<1>5. pc'[w] = "send" /\ \A v \in Cmd : v # w => pc'[v] = pc[v]
    BY <1>1 DEF TypeOK
<1> SUFFICES ASSUME NEW id \in RpcId, NEW u, u = rpc'[id].cmd
             PROVE  RecordedFor(id, u)'
    BY DEF Recorded, RecordedFor, InCall, Concluded, Over, Settled
<1>6. CASE id = Id_ + 1
    <2>1. u = w /\ rpc'[id].by = By(w) /\ rpc'[id].State # 0
        BY <1>3, <1>4, <1>6
    <2>2. By(w) = "rest" => InCall(u)'
        BY <1>1, <1>3, <1>5, <2>1 DEF InCall
    <2> QED BY <2>1, <2>2 DEF RecordedFor
<1>7. CASE id # Id_ + 1 /\ u # NoCmd
    <2>1. u \in Cmd /\ u = rpc[id].cmd /\ rpc'[id] = rpc[id]
        BY <1>4, <1>7 DEF TypeOK, Info
    <2>2. u = w => u \in batch
        BY <1>1, <1>7, <2>1 DEF Structure, PostedOnce, Unposted
    <2>3. /\ InCall(u) => InCall(u)'
          /\ Concluded(u) => Concluded(u)'
          /\ Over(u) => Over(u)'
          /\ Settled(u) => Settled(u)'
        BY <1>1, <1>5, <2>1, <2>2 DEF InCall, Concluded, Over, Settled
    <2> QED BY <1>1, <2>1, <2>3, KeptFor
<1>8. CASE u = NoCmd
    BY <1>8 DEF RecordedFor
<1> QED BY <1>6, <1>7, <1>8

LEMMA RecordedHolds ==
    ASSUME TypeOK, Structure, Structure', Entries, HandlerHoldsQueue, Recorded,
           [Next]_vars
    PROVE  Recorded'
<1>0. CASE \E w \in Cmd : PostCommand(w)
    BY <1>0, PostIsRecorded
<1> SUFFICES ASSUME ~\E w \in Cmd : PostCommand(w),
                    NEW id \in RpcId, NEW u, u = rpc'[id].cmd, u # NoCmd
             PROVE  RecordedFor(id, u)'
    BY <1>0 DEF Recorded, RecordedFor, InCall, Concluded, Over, Settled
<1>1. ASSUME rpc'[id] = rpc[id]
      PROVE  u \in Cmd /\ u = rpc[id].cmd
    BY <1>1 DEF TypeOK, Info
<1>2. CASE Quiet /\ rpc'[id] = rpc[id]
    <2>1. /\ InCall(u) => InCall(u)'
          /\ Concluded(u) => Concluded(u)'
          /\ Over(u) => Over(u)'
        BY <1>2 DEF Quiet, InCall, Concluded, Over
    <2>2. u \in Cmd /\ u = rpc[id].cmd /\ (Settled(u) => Settled(u)')
        BY <1>1, <1>2, SettledStays DEF Quiet
    <2> QED BY <1>2, <2>1, <2>2, KeptFor DEF Quiet
<1>3. CASE HandleResponse
    <2>1. PICK r \in [id : RpcId, serial : Serial, answer : Answer] :
             /\ r = ResponseQueue_[1] /\ 1 \in 1..Len(ResponseQueue_)
             /\ Ignores(r) \/ \E e \in Info : Accepts(r, e)
        BY <1>3, ResponseStep
    <2>2. CASE Ignores(r)
        BY <1>2, <1>3, <2>2, ResponseIsQuiet DEF Ignores
    <2>3. ASSUME NEW e \in Info, Accepts(r, e)
          PROVE  RecordedFor(id, u)'
        <3>1. CASE id # r.id
            BY <1>2, <1>3, <2>3, <3>1, ResponseIsQuiet DEF Accepts, TypeOK
        <3>2. CASE id = r.id
            <4>1. u = rpc[id].cmd /\ u \in Cmd
                BY <2>3, <3>2 DEF Accepts, TypeOK
            <4> QED BY <1>3, <2>1, <2>3, <3>2, <4>1, AnswerIsRecorded
        <3> QED BY <3>1, <3>2
    <2> QED BY <2>1, <2>2, <2>3
<1>4. ASSUME NEW v \in Cmd, Turn(v)
      PROVE  RecordedFor(id, u)'
    <2>1. rpc' = rpc /\ u \in Cmd /\ u = rpc[id].cmd /\ (Settled(u) => Settled(u)')
        BY <1>1, <1>4, SettledStays DEF Turn
    <2>2. /\ InCall(u) => InCall(u)'
          /\ Concluded(u) => Concluded(u)'
          /\ Over(u) => Over(u)'
        BY <1>4, <2>1 DEF Turn, InCall, Concluded, Over
    <2> QED BY <1>4, <2>1, <2>2, KeptFor DEF Turn
<1>5. CASE NewPage
    <2>1. rpc' = rpc /\ u \in Cmd /\ u = rpc[id].cmd /\ (Settled(u) => Settled(u)')
        BY <1>1, <1>5 DEF NewPage, Settled
    <2>2. /\ InCall(u) => InCall(u)'
          /\ Concluded(u) => Concluded(u)'
          /\ Over(u) => Over(u)'
        BY <1>5, <2>1 DEF NewPage, InCall, Concluded, Over
    <2> QED BY <1>5, <2>1, <2>2, KeptFor DEF NewPage
<1>6. ASSUME NEW v \in Cmd, Call(v)
      PROVE  RecordedFor(id, u)'
    <2>1. /\ rpc' = rpc /\ batch' = batch /\ forgotten \subseteq forgotten'
          /\ RowsAdvance \/ \A w \in Cmd : w # v => row'[w] = row[w]
          /\ \A w \in Cmd : w # v => pc'[w] = pc[w] /\ outcome'[w] = outcome[w]
        BY <1>6, MoveFacts
    <2>2. u \in Cmd /\ u = rpc[id].cmd
        BY <1>1, <2>1
    <2>3. CASE u = v
        BY <1>6, <2>2, <2>3, MoveIsRecorded
    <2>4. CASE u # v
        <3>1. Settled(u) => Settled(u)'
            BY <2>1, <2>2, <2>4, SettledStays DEF Settled
        <3>2. /\ InCall(u) => InCall(u)'
              /\ Concluded(u) => Concluded(u)'
              /\ Over(u) => Over(u)'
            BY <2>1, <2>2, <2>4 DEF InCall, Concluded, Over
        <3> QED BY <2>1, <2>2, <3>1, <3>2, KeptFor
    <2> QED BY <2>3, <2>4
<1> QED BY <1>2, <1>3, <1>4, <1>5, <1>6, StepKinds

-----------------------------------------------------------------------------
(* The invariant. *)

LEMMA InitHolds == Init => CommandInv
<1> SUFFICES ASSUME Init
             PROVE  CommandInv
    OBVIOUS
<1>1. PICK S \in SUBSET Stored : \E f \in [S -> 1..Cardinality(S)] :
        /\ row = [u \in Cmd |-> IF u \in S THEN [NoRow EXCEPT !.status = "pending",
                                                              !.held = u \in Scheduled]
                                ELSE NoRow]
        /\ Submitted = [u \in Cmd |-> IF u \in S THEN f[u] ELSE 0]
        /\ pc = [u \in Cmd |-> IF u \in S THEN "done" ELSE "idle"]
    BY DEF Init
<1>2. PICK f \in [S -> 1..Cardinality(S)] :
        /\ row = [u \in Cmd |-> IF u \in S THEN [NoRow EXCEPT !.status = "pending",
                                                              !.held = u \in Scheduled]
                                ELSE NoRow]
        /\ Submitted = [u \in Cmd |-> IF u \in S THEN f[u] ELSE 0]
        /\ pc = [u \in Cmd |-> IF u \in S THEN "done" ELSE "idle"]
    BY <1>1
<1>3. /\ Id_ = FirstId /\ OutStandingRequests_ = {} /\ aged = {} /\ delivered = {}
      /\ rpc = [id \in RpcId |-> NoInfo]
      /\ ResponseQueue_ = <<>> /\ link \in [Serial -> {"down", "up"}]
      /\ rpcid = [u \in Cmd |-> 0] /\ outcome = [u \in Cmd |-> "none"]
      /\ sched = "idle" /\ batch = {} /\ offset = 0 /\ fetched = 0
      /\ sends = [u \in Cmd |-> 0] /\ forgotten = {} /\ owed = {}
    BY DEF Init
<1>4. IsFiniteSet(S) /\ Cardinality(S) \in Nat
    BY FS_Subset, FS_CardinalityType, CommandAssumption DEF CommandAssumption
<1>5. \A u \in S : f[u] \in Nat /\ f[u] > 0
    BY <1>4
<1>6. row \in [Cmd -> Row]
    <2> DEFINE r(u) == [NoRow EXCEPT !.status = "pending", !.held = u \in Scheduled]
    <2>1. \A u \in Cmd : r(u) \in Row
        <3>1. \A x \in Row, h \in BOOLEAN :
                 [x EXCEPT !.status = "pending", !.held = h] \in Row
            BY DEF Row, Status
        <3>2. \A u : (u \in Scheduled) \in BOOLEAN
            OBVIOUS
        <3> QED BY <3>1, <3>2, NoRowType
    <2>2. row = [u \in Cmd |-> IF u \in S THEN r(u) ELSE NoRow]
        BY <1>2
    <2> HIDE DEF r
    <2> QED BY <2>1, <2>2, NoRowType
<1>7. pc \in [Cmd -> {"idle", "done"}]
    BY <1>2
<1>8. /\ NoInfo \in Info /\ NoInfo.cmd = NoCmd /\ NoInfo.by = "nobody"
      /\ NoInfo.rpc_entry = NoAnswer
    BY DEF NoInfo, Info
<1>9. FirstId \in Nat /\ \A id \in RpcId : ~(id <= Id_)
    BY <1>3 DEF RpcId, FirstId
<1>10. TypeOK
    <2>1. ResponseQueue_ \in Seq([id : RpcId, serial : Serial, answer : Answer])
        BY <1>3
    <2>2. Submitted \in [Cmd -> Nat]
        BY <1>2, <1>5
    <2>3. Id_ \in FirstId..(FirstId + MaxId)
        BY <1>3, CommandAssumption DEF CommandAssumption, FirstId
    <2>4. /\ OutStandingRequests_ \subseteq RpcId /\ rpc \in [RpcId -> Info]
          /\ aged \subseteq RpcId /\ delivered \subseteq RpcId
          /\ link \in [Serial -> {"down", "greeting", "up"}]
        BY <1>3, <1>8
    <2>5. /\ pc \in [Cmd -> {"idle", "begin", "post", "send", "wait", "giveup",
                             "store", "insert", "mark", "requeue", "done"}]
          /\ rpcid \in [Cmd -> {0} \cup RpcId]
          /\ outcome \in [Cmd -> {"none", "pending", "unanswered", "failed",
                                  "completed", "executed"}]
        BY <1>3, <1>7
    <2>6. /\ sched \in {"idle", "fetch", "pick", "post"}
          /\ batch \subseteq Cmd /\ owed \subseteq Cmd
          /\ offset \in Nat /\ fetched \in Nat
          /\ sends \in [Cmd -> Nat]
          /\ forgotten \subseteq RpcId
        BY <1>3
    <2> QED BY <1>6, <2>1, <2>2, <2>3, <2>4, <2>5, <2>6 DEF TypeOK
<1>11. Structure
    <2>1. Submissions
        <3>1. {v \in Cmd : Submitted[v] > 0} \subseteq S
            <4>1. \A v \in Cmd : v \notin S => Submitted[v] = 0
                BY <1>2
            <4> QED BY <4>1
        <3>2. \A u \in Cmd : pc[u] \notin {"idle", "begin"} => Submitted[u] > 0
            BY <1>2, <1>5
        <3> QED BY <1>4, <3>1, <3>2, FS_Subset DEF Submissions
    <2>2. Issued
        <3>1. 1..Len(ResponseQueue_) = {}
            BY <1>3
        <3>2. \A id \in RpcId : rpc[id] = NoInfo
            BY <1>3
        <3> QED BY <1>3, <1>9, <3>1, <3>2 DEF Issued
    <2>3. Posters
        <3> SUFFICES ASSUME NEW u \in Cmd
                     PROVE  pc[u] \in {"idle", "done"}
            BY <1>3 DEF Posters, Linked
        <3> QED BY <1>7
    <2>4. Pass
        BY <1>3, <1>7 DEF Pass
    <2>5. Rows
        BY <1>2 DEF Rows
    <2>6. PostedOnce
        BY <1>3, <1>8 DEF PostedOnce
    <2> QED BY <2>1, <2>2, <2>3, <2>4, <2>5, <2>6 DEF Structure
<1>12. Tracked /\ RestWaits /\ RestAnswered /\ AnswerFromTarget
    <2>1. \A id \in RpcId : rpc[id] = NoInfo
        BY <1>3
    <2>2. NoInfo.by # "rest"
        BY <1>8
    <2> QED BY <1>3, <1>8, <1>9, <2>1, <2>2
            DEF Tracked, RestWaits, RestAnswered, AnswerFromTarget
<1>13. OneQueuedCommandPerDevice /\ QueueFree
    BY <1>3 DEF OneQueuedCommandPerDevice, QueueFree
<1>14. SentOnce
    BY <1>3 DEF SentOnce
<1>15. HandlerHoldsQueue
    BY <1>3 DEF HandlerHoldsQueue
<1>16. Recorded
    BY <1>3, <1>8 DEF Recorded, RecordedFor
<1> QED BY <1>10, <1>11, <1>12, <1>13, <1>14, <1>15, <1>16 DEF CommandInv

LEMMA StepHolds == CommandInv /\ [Next]_vars => CommandInv'
<1> SUFFICES ASSUME CommandInv, [Next]_vars
             PROVE  CommandInv'
    OBVIOUS
<1>1. TypeOK' /\ Structure'
    BY TypesHold, StructureHolds DEF CommandInv
<1>2. Entries /\ Entries'
    BY <1>1, EntriesHold DEF CommandInv, Entries
<1>3. OneQueuedCommandPerDevice' /\ QueueFree' /\ SentOnce'
    BY <1>1, QueueHolds, SentOnceHolds DEF CommandInv
<1>4. HandlerHoldsQueue' /\ Recorded'
    BY <1>1, <1>2, HandlerHoldsQueueHolds, RecordedHolds DEF CommandInv
<1> QED BY <1>1, <1>2, <1>3, <1>4 DEF CommandInv, Entries

LEMMA InvariantHolds == Spec => []CommandInv
BY InitHolds, StepHolds, PTL DEF Spec

-----------------------------------------------------------------------------
(* The results. *)

(* Whatever the calls, the devices, the timers and the scheduler do, every *)
(* variable of CommandManager keeps its type: posters hold ids that exist, *)
(* and rows only take states of the table.                                 *)
THEOREM CommandsAreTyped == Spec => []TypeOK
BY InvariantHolds, PTL DEF CommandInv

(* The map of outstanding RPCs tells the truth: an answer handed to a REST *)
(* call came from the device that the command was sent to, an answer that  *)
(* overtakes the return of SendFrame finds its entry, and a call that has  *)
(* returned leaves no entry that keeps its device busy.                    *)
THEOREM EntriesTellTheTruth == Spec => []EntriesAreTrue
<1>1. CommandInv => EntriesAreTrue
    <2> SUFFICES ASSUME CommandInv
                 PROVE  EntriesAreTrue
        OBVIOUS
    <2>1. DeliveredIsTracked
        BY DEF CommandInv, TypeOK, Structure, Issued, Tracked, DeliveredIsTracked
    <2>2. ReturnedIsNotBusy
        BY DEF CommandInv, RestWaits, InCall, ReturnedIsNotBusy
    <2> QED BY <2>1, <2>2 DEF CommandInv, EntriesAreTrue
<1> QED BY <1>1, InvariantHolds, PTL

(* The scheduler keeps a device busy with one of its commands at a time,   *)
(* and a command whose frame was sent is not sent again, neither by the    *)
(* call that stored it nor by a later pass.                                *)
THEOREM CommandsAreSentInTurn == Spec => []SentInTurn
<1>1. CommandInv => SentInTurn
    BY DEF CommandInv, SentOnce, SentInTurn, SentAtMostOnce
<1> QED BY <1>1, InvariantHolds, PTL

(* An answer that the manager thread takes is in the table once the poster *)
(* of its command is done, in whatever order the call's own store, the     *)
(* answer, the janitor and the scheduler come.                             *)
THEOREM AcceptedAnswersAreRecorded == Spec => []AcceptedIsRecorded
<1>1. CommandInv => AcceptedIsRecorded
    <2> SUFFICES ASSUME CommandInv, NEW id \in RpcId, NEW u, u = rpc[id].cmd,
                        u # NoCmd, rpc[id].State = 0, id \notin forgotten,
                        pc[u] = "done"
                 PROVE  Settled(u)
        BY DEF AcceptedIsRecorded, Settled
    <2>1. RecordedFor(id, u)
        BY DEF CommandInv, Recorded
    <2> QED BY <2>1 DEF RecordedFor, InCall, Concluded
<1> QED BY <1>1, InvariantHolds, PTL

(* What devices have answered, and nothing else, is in the queue.          *)
Answering == \A n \in 1..Len(ResponseQueue_) : ResponseQueue_[n].answer \in Answers

LEMMA AnsweringHolds == Spec => []Answering
<1>1. Init => Answering
    <2> SUFFICES ASSUME ResponseQueue_ = <<>>
                 PROVE  Answering
        BY DEF Init
    <2> QED BY DEF Answering
<1>2. CommandInv /\ Answering /\ [Next]_vars /\ CommandInv' => Answering'
    <2> SUFFICES ASSUME TypeOK, Structure, Structure', Answering, [Next]_vars
                 PROVE  Answering'
        BY DEF CommandInv
    <2>1. CASE ResponseQueue_' = ResponseQueue_
        BY <2>1 DEF Answering
    <2>2. CASE HandleResponse
        <3>1. ResponseQueue_' = Tail(ResponseQueue_) /\ ResponseQueue_ # <<>>
            BY <2>2 DEF HandleResponse
        <3> QED BY <3>1, HeadOfQueue DEF Answering
    <2>3. ASSUME NEW s \in Serial, NEW id \in RpcId, NEW a \in Answers,
                 PostCommandResult(s, id, a)
          PROVE  Answering'
        <3> SUFFICES ASSUME NEW n \in 1..(Len(ResponseQueue_) + 1), NEW r,
                            r = ResponseQueue_'[n]
                     PROVE  r.answer \in Answers
            BY <2>3, QueueGrows DEF Answering
        <3>1. CASE n \in 1..Len(ResponseQueue_)
            BY <2>3, <3>1, QueueGrows DEF Answering
        <3>2. CASE n = Len(ResponseQueue_) + 1
            <4>1. r = [id |-> id, serial |-> s, answer |-> a]
                BY <2>3, <3>2, QueueGrows
            <4> QED BY <4>1
        <3>3. Len(ResponseQueue_) \in Nat
            BY <2>3, QueueGrows
        <3> QED BY <3>1, <3>2, <3>3
    <2>4. ASSUME NEW u \in Cmd, Call(u)
          PROVE  ResponseQueue_' = ResponseQueue_
        <3>1. CASE PostCommand(u)
            BY <3>1 DEF PostCommand, netVars
        <3>2. CASE ~PostCommand(u)
            BY <2>4, <3>2, MoveFacts
        <3> QED BY <3>1, <3>2
    <2> QED BY <2>1, <2>2, <2>3, <2>4, StepKinds DEF Turn, NewPage
<1> QED BY <1>1, <1>2, InvariantHolds, PTL DEF Spec

(* The first answer to the RPC of a call that has not given up reaches the *)
(* call, whether or not SendFrame has returned yet.  Not so when a device  *)
(* ends a deferred script with an error that has a result_64:              *)
(* CompleteScriptCommand throws before it keeps the promise.               *)
THEOREM FirstAnswerReachesCall ==
    ASSUME "error64" \notin Answers \/ Deferred = {}
    PROVE  Spec => AnswerReachesCall
<1> DEFINE Step ==
      \A id \in RpcId :
          /\ rpc[id].by = "rest" /\ rpc[id].rpc_entry = NoAnswer
          /\ pc[rpc[id].cmd] \in {"send", "wait"}
          /\ ResponseQueue_ # <<>> /\ ResponseQueue_' = Tail(ResponseQueue_)
          /\ LET r == Head(ResponseQueue_)
             IN  r.id = id /\ r.serial = SerialNumber[rpc[id].cmd]
          /\ id \notin forgotten
          => rpc'[id].rpc_entry # NoAnswer
<1>1. CommandInv /\ CommandInv' /\ Answering /\ [Next]_vars => [Step]_vars
    <2> SUFFICES ASSUME CommandInv, CommandInv', Answering, [Next]_vars,
                        NEW id \in RpcId,
                        rpc[id].by = "rest", rpc[id].rpc_entry = NoAnswer,
                        pc[rpc[id].cmd] \in {"send", "wait"},
                        ResponseQueue_ # <<>>, ResponseQueue_' = Tail(ResponseQueue_),
                        NEW q, q = Head(ResponseQueue_), q.id = id,
                        q.serial = SerialNumber[rpc[id].cmd],
                        id \notin forgotten
                 PROVE  rpc'[id].rpc_entry # NoAnswer
        OBVIOUS
    <2>0. TypeOK /\ Structure /\ Structure'
        BY DEF CommandInv
    <2>1. id <= Id_
        BY <2>0 DEF Structure, Issued, NoInfo
    <2>2. rpc[id].State # 0 /\ id \in OutStandingRequests_
        BY <2>1 DEF CommandInv, RestAnswered, Tracked
    <2>3. HandleResponse
        <3>1. ResponseQueue_' # ResponseQueue_
            BY <2>0, HeadOfQueue DEF TypeOK
        <3>2. ASSUME NEW s \in Serial, NEW i \in RpcId, NEW a \in Answers,
                     PostCommandResult(s, i, a)
              PROVE  FALSE
            <4>1. Len(ResponseQueue_') = Len(ResponseQueue_) + 1 /\ Len(ResponseQueue_) \in Nat
                BY <2>0, <3>2, QueueGrows
            <4>2. Len(ResponseQueue_') = Len(ResponseQueue_) - 1
                BY <2>0, HeadOfQueue
            <4> QED BY <4>1, <4>2
        <3>3. ASSUME NEW u \in Cmd, Call(u)
              PROVE  FALSE
            <4>1. CASE PostCommand(u)
                BY <3>1, <4>1 DEF PostCommand, netVars
            <4>2. CASE ~PostCommand(u)
                BY <2>0, <3>1, <3>3, <4>2, MoveFacts
            <4> QED BY <4>1, <4>2
        <3> QED BY <2>0, <3>1, <3>2, <3>3, StepKinds DEF Turn, NewPage
    <2>4. PICK r \in [id : RpcId, serial : Serial, answer : Answer] :
             /\ r = q /\ r = ResponseQueue_[1] /\ 1 \in 1..Len(ResponseQueue_)
             /\ Ignores(r) \/ \E e \in Info : Accepts(r, e)
        BY <2>0, <2>3, ResponseStep
    <2>5. PICK e \in Info : Accepts(r, e)
        BY <2>2, <2>4 DEF Ignores
    <2>6. r.answer \in Answers
        BY <2>4 DEF Answering
    <2>7. Replies(rpc[id], r.answer)
        <3> SUFFICES ASSUME DeferredScript(rpc[id])
                     PROVE  rpc[id].State = 2 /\ r.answer # "error64"
            BY DEF Replies, ScriptReply
        <3>1. rpc[id].cmd \in Deferred
            BY DEF DeferredScript
        <3>2. rpc[id].State \in {1, 2}
            BY <2>0, <2>2 DEF TypeOK, Info
        <3>3. rpc[id].State # 1
            BY <3>1 DEF CommandInv, RestAnswered
        <3> QED BY <2>6, <3>1, <3>2, <3>3
    <2>8. e.rpc_entry = [from |-> r.serial, answer |-> r.answer]
        BY <2>4, <2>5, <2>7 DEF Accepts, KeepPromise
    <2>9. rpc'[id] = e
        BY <2>0, <2>4, <2>5 DEF Accepts, TypeOK
    <2>10. e.rpc_entry # NoAnswer
        BY <2>4, <2>8 DEF Answer, NoAnswer
    <2> QED BY <2>9, <2>10
<1>2. Spec => [][Step]_vars
    BY <1>1, InvariantHolds, AnsweringHolds, PTL DEF Spec
<1> QED BY <1>2 DEF AnswerReachesCall

-----------------------------------------------------------------------------
(* A pass of the scheduler. *)

(* What makes the scheduler take command u when it gets to it.             *)
Due(u) == Ready(row[u]) /\ Connected(SerialNumber[u]) /\ ~Busy(SerialNumber[u])

(* What a pass owes is due until its page is fetched, and then on the      *)
(* page; and it has no poster before it has its turn.                      *)
Owing ==
    /\ \A u \in owed : pc[u] = "done"
    /\ sched = "idle" => owed = {}
    /\ sched = "fetch" /\ owed # {} => offset = 0 /\ \A u \in owed : Due(u)
    /\ sched \in {"pick", "post"} => owed \subseteq batch

LEMMA StaysIdle ==
    ASSUME TypeOK, OutStandingRequests_' \subseteq OutStandingRequests_,
           \A id \in OutStandingRequests_' : rpc'[id].cmd = rpc[id].cmd,
           NEW s, ~Busy(s)
    PROVE  ~Busy(s)'
BY DEF Busy, TypeOK

LEMMA StaysDue ==
    ASSUME TypeOK, OutStandingRequests_' \subseteq OutStandingRequests_,
           \A id \in OutStandingRequests_' : rpc'[id].cmd = rpc[id].cmd,
           NEW u \in Cmd, Due(u), link' = link, Ready(row'[u])
    PROVE  Due(u)'
BY StaysIdle DEF Due, Connected

(* Whoever leaves the pass alone has to keep due what it owes.             *)
LEMMA BystanderKeepsOwing ==
    ASSUME Owing, UNCHANGED schedVars, owed' \subseteq owed,
           \A u \in owed' : pc'[u] = "done" /\ (Due(u) => Due(u)')
    PROVE  Owing'
BY DEF Owing, schedVars

LEMMA CallKeepsOwing ==
    ASSUME TypeOK, Structure, Owing, NEW u \in Cmd, Call(u)
    PROVE  Owing'
<1>0. /\ owed \subseteq Cmd /\ row \in [Cmd -> Row] /\ Id_ \in Nat
      /\ rpc \in [RpcId -> Info] /\ OutStandingRequests_ \subseteq RpcId
      /\ pc \in [Cmd -> {"idle", "begin", "post", "send", "wait", "giveup",
                         "store", "insert", "mark", "requeue", "done"}]
    BY DEF TypeOK, FirstId
<1>1. CASE PostCommand(u)
    <2>1. owed' = {v \in owed : SerialNumber[v] # SerialNumber[u]}
        BY <1>1 DEF PostCommand
    <2>2. /\ UNCHANGED <<schedVars, row, link>>
          /\ \A v \in Cmd : v # u => pc'[v] = pc[v]
          /\ OutStandingRequests_' = OutStandingRequests_ \cup {Id_ + 1}
          /\ Id_ + 1 \in RpcId
          /\ rpc'[Id_ + 1].cmd = u
          /\ \A id \in RpcId : id # Id_ + 1 => rpc'[id] = rpc[id]
        BY <1>0, <1>1, NewIdType DEF PostCommand, Goto, EntersMap, netVars, rowVars
    <2>3. ASSUME NEW v \in owed', Due(v)
          PROVE  Due(v)'
        <3>1. Ready(row'[v]) /\ Connected(SerialNumber[v])'
            BY <2>1, <2>2, <2>3 DEF Due, Connected
        <3>2. ~Busy(SerialNumber[v])'
            BY <1>0, <2>1, <2>2, <2>3 DEF Due, Busy
        <3> QED BY <3>1, <3>2 DEF Due
    <2>4. \A v \in owed' : pc'[v] = "done"
        BY <1>0, <2>1, <2>2 DEF Owing
    <2> QED BY <2>1, <2>2, <2>3, <2>4, BystanderKeepsOwing
<1>2. CASE ~PostCommand(u)
    <2>1. /\ UNCHANGED rpc /\ OutStandingRequests_' \subseteq OutStandingRequests_
          /\ \A v \in Cmd : v # u => pc'[v] = pc[v]
          /\ pc[u] # "done"
        BY <1>2, MoveFacts
    <2>2. UNCHANGED <<schedVars, link>>
        BY <1>2 DEF Call, DoPost, SystemCommand, WaitForCommand, Answered, TimeOut,
                    GiveUp, Sent, NotSent, StoreRemove, StoreInsert, netVars
    <2>3. /\ owed' \subseteq owed
          /\ \A v \in owed' : row'[v] # row[v] => v = u
        <3>1. CASE StoreRemove(u)
            <4>1. owed' = {v \in owed : row'[v] # NoRow} /\ row' = RemoveOldCommands(u)
                BY <3>1 DEF StoreRemove
            <4> QED BY <1>0, <4>1 DEF RemoveOldCommands
        <3>2. CASE StoreInsert(u)
            BY <1>0, <3>2 DEF StoreInsert
        <3>3. CASE ~StoreRemove(u) /\ ~StoreInsert(u)
            BY <1>2, <3>3 DEF Call, DoPost, SystemCommand, WaitForCommand, Answered,
                              TimeOut, GiveUp, Sent, NotSent, rowVars
        <3> QED BY <3>1, <3>2, <3>3
    <2>4. \A v \in owed' : v # u /\ v \in Cmd
        BY <1>0, <2>1, <2>3 DEF Owing
    <2>5. ASSUME NEW v \in owed', Due(v)
          PROVE  Due(v)'
        <3>1. Ready(row'[v])
            BY <2>3, <2>4, <2>5 DEF Due
        <3> QED BY <2>1, <2>2, <2>4, <2>5, <3>1, StaysDue
    <2>6. \A v \in owed' : pc'[v] = "done"
        BY <2>1, <2>3, <2>4 DEF Owing
    <2> QED BY <2>2, <2>3, <2>5, <2>6, BystanderKeepsOwing
<1> QED BY <1>1, <1>2

(* The manager thread and the janitor write the rows of busy devices only. *)
LEMMA AnswersKeepOwing ==
    ASSUME TypeOK, Structure, Owing, HandleResponse \/ Janitor
    PROVE  Owing'
<1>0. owed \subseteq Cmd /\ row \in [Cmd -> Row] /\ OutStandingRequests_ \subseteq RpcId
    BY DEF TypeOK
<1>1. /\ UNCHANGED <<schedVars, link, owed, pc>>
      /\ OutStandingRequests_' \subseteq OutStandingRequests_
      /\ \A id \in RpcId : rpc'[id].cmd = rpc[id].cmd
      /\ \A v \in Cmd : row'[v] # row[v] => \E id \in OutStandingRequests_ : rpc[id].cmd = v
    <2>1. CASE Janitor
        BY <1>0, <2>1 DEF Janitor, JanitorKeeps, netVars, callVars
    <2>2. CASE HandleResponse
        <3>1. PICK r \in [id : RpcId, serial : Serial, answer : Answer] :
                 Ignores(r) \/ \E e \in Info : Accepts(r, e)
            BY <2>2, ResponseStep
        <3>2. UNCHANGED <<schedVars, link, owed, pc>>
            BY <2>2 DEF HandleResponse, callVars
        <3>3. Quiet
            BY <2>2, ResponseIsQuiet
        <3>4. \A v \in Cmd : row'[v] # row[v] =>
                  \E id \in OutStandingRequests_ : rpc[id].cmd = v
            BY <1>0, <2>2, <3>1 DEF HandleResponse, CommandCompleted, Update
        <3> QED BY <3>2, <3>3, <3>4 DEF Quiet
    <2> QED BY <2>1, <2>2
<1>2. ASSUME NEW v \in owed', Due(v)
      PROVE  Due(v)'
    <2>1. v \in Cmd /\ row'[v] = row[v]
        BY <1>0, <1>1, <1>2 DEF Due, Busy
    <2> QED BY <1>0, <1>1, <1>2, <2>1, StaysDue DEF Due
<1> QED BY <1>1, <1>2, BystanderKeepsOwing DEF Owing

LEMMA OthersKeepOwing ==
    ASSUME TypeOK, Owing,
           \/ \E u \in Cmd : Deliver(u) \/ DeleteCommand(u) \/ BecomesDue(u) \/ GrowsOld(u)
           \/ \E s \in Serial : Device(s)
           \/ \E id \in RpcId : Ages(id)
    PROVE  Owing'
<1>0. /\ owed \subseteq Cmd /\ row \in [Cmd -> Row]
      /\ link \in [Serial -> {"down", "greeting", "up"}]
    BY DEF TypeOK
<1>1. /\ UNCHANGED <<schedVars, pc, rpc>> /\ owed' \subseteq owed
      /\ OutStandingRequests_' \subseteq OutStandingRequests_
    BY DEF Deliver, DeleteCommand, BecomesDue, GrowsOld, Device, PostCommandResult,
           ConnectMessage, ConnectDone, ConnectionLost, Ages, mapVars, callVars
<1>2. \A v \in owed' : Ready(row[v]) => Ready(row'[v])
    BY <1>0 DEF Deliver, DeleteCommand, BecomesDue, GrowsOld, Device, PostCommandResult,
                ConnectMessage, ConnectDone, ConnectionLost, Ages, rowVars, Ready, Row, NoRow
<1>3. \A v \in owed' : Connected(SerialNumber[v]) => Connected(SerialNumber[v])'
    <2>1. ASSUME NEW s \in Serial, ConnectMessage(s) \/ ConnectDone(s) \/ ConnectionLost(s)
          PROVE  \A v \in owed' : Connected(SerialNumber[v]) => Connected(SerialNumber[v])'
        <3>1. /\ \A t \in Serial : t # s => link'[t] = link[t]
              /\ \/ link'[s] = "up"
                 \/ owed' = {v \in owed : SerialNumber[v] # s}
            BY <1>0, <2>1 DEF ConnectMessage, ConnectDone, ConnectionLost
        <3>2. \A v \in owed' : SerialNumber[v] \in Serial
            BY <1>0, <1>1, CommandAssumption
        <3> QED BY <3>1, <3>2 DEF Connected
    <2>2. CASE link' = link
        BY <2>2 DEF Connected
    <2> QED BY <2>1, <2>2 DEF Deliver, DeleteCommand, BecomesDue, GrowsOld, Device,
                              PostCommandResult, Ages, netVars
<1>4. \A v \in owed' : Due(v) => Due(v)'
    BY <1>1, <1>2, <1>3, StaysIdle DEF Due
<1> QED BY <1>1, <1>4, BystanderKeepsOwing DEF Owing

(* A page has room for every command that is ready.                        *)
LEMMA PageHasRoom ==
    ASSUME IsFiniteSet(Cmd), Cardinality(Cmd) <= Page, TypeOK, NEW u \in Cmd
    PROVE  Rank(u) \in Nat /\ Rank(u) < Page
<1> DEFINE before == {v \in Cmd : Ready(row[v]) /\ Submitted[v] < Submitted[u]}
<1>1. before \subseteq Cmd \ {u}
    BY DEF TypeOK
<1>2. IsFiniteSet(Cmd \ {u}) /\ Cardinality(Cmd \ {u}) = Cardinality(Cmd) - 1
    BY FS_RemoveElement
<1>3. Cardinality(before) \in Nat /\ Cardinality(before) <= Cardinality(Cmd \ {u})
    BY <1>1, <1>2, FS_Subset, FS_CardinalityType
<1> QED BY <1>2, <1>3, FS_CardinalityType, CommandAssumption DEF Rank

LEMMA PassKeepsOwing ==
    ASSUME IsFiniteSet(Cmd), Cardinality(Cmd) <= Page, TypeOK, Structure, Owing, Scheduler
    PROVE  Owing'
<1>0. /\ owed \subseteq Cmd /\ row \in [Cmd -> Row] /\ batch \subseteq Cmd
      /\ pc \in [Cmd -> {"idle", "begin", "post", "send", "wait", "giveup",
                         "store", "insert", "mark", "requeue", "done"}]
      /\ sched \in {"idle", "fetch", "pick", "post"}
    BY DEF TypeOK
<1>1. CASE SchedulerStart
    <2>1. /\ sched' = "fetch" /\ offset' = 0 /\ UNCHANGED <<pc, link, mapVars>>
          /\ owed' = {u \in Cmd : /\ Ready(row'[u])
                                  /\ Connected(SerialNumber[u])
                                  /\ ~Busy(SerialNumber[u])}
          /\ batch = {}
          /\ row' = [u \in Cmd |-> Retire(row[u])]
        BY <1>1 DEF SchedulerStart, Structure, Pass, netVars, callVars
    <2>2. \A u \in owed' : Due(u)'
        BY <2>1 DEF Due, Connected, Busy, mapVars
    <2>3. ASSUME NEW u \in owed'
          PROVE  pc'[u] = "done"
        <3>1. row[u] # NoRow /\ ~row[u].Executed
            BY <1>0, <2>1 DEF Ready, Retire, NoRow, Row
        <3> QED BY <2>1, <3>1 DEF Structure, Rows
    <2> QED BY <2>1, <2>2, <2>3 DEF Owing
<1>2. CASE SchedulerFetch
    <2>1. UNCHANGED <<pc, owed, row>>
        BY <1>2 DEF SchedulerFetch, callVars, rowVars
    <2>2. owed \subseteq batch'
        <3> SUFFICES ASSUME NEW u \in owed
                     PROVE  u \in batch'
            OBVIOUS
        <3>1. sched = "fetch" /\ offset = 0 /\ Due(u)
            BY <1>2 DEF Owing, SchedulerFetch
        <3>2. 0 <= Rank(u) /\ Rank(u) < 0 + Page
            BY <1>0, PageHasRoom, CommandAssumption
        <3> QED BY <1>0, <1>2, <3>1, <3>2 DEF SchedulerFetch, Due
    <2>3. sched' \in {"idle", "pick"} /\ (sched' = "idle" => batch' = {})
        BY <1>2 DEF SchedulerFetch
    <2> QED BY <2>1, <2>2, <2>3 DEF Owing
<1>3. ASSUME NEW u \in Cmd, SchedulerSkip(u)
      PROVE  Owing'
    <2>1. /\ owed' = owed \ {u} /\ UNCHANGED pc /\ batch' = batch \ {u}
          /\ sched = "pick" /\ sched' = IF batch = {u} THEN "fetch" ELSE "pick"
        BY <1>3 DEF SchedulerSkip, Advance, callVars
    <2> QED BY <2>1 DEF Owing
<1>4. ASSUME NEW u \in Cmd, SchedulerPost(u)
      PROVE  Owing'
    <2>1. /\ owed' = owed \ {u} /\ UNCHANGED batch /\ sched = "pick" /\ sched' = "post"
          /\ pc' = [pc EXCEPT ![u] = "post"]
        BY <1>4 DEF SchedulerPost, Goto
    <2> QED BY <1>0, <2>1 DEF Owing
<1>5. ASSUME NEW u \in Cmd, SchedulerMark(u)
      PROVE  Owing'
    <2>1. /\ owed' = owed /\ batch' = batch \ {u} /\ pc[u] \in {"mark", "requeue"}
          /\ sched' = IF batch = {u} THEN "fetch" ELSE "pick"
          /\ pc' = [pc EXCEPT ![u] = "done"]
        BY <1>5 DEF SchedulerMark, Advance, Goto
    <2>2. u \in batch /\ sched = "post"
        BY <2>1 DEF Structure, Pass
    <2>3. owed \subseteq batch \ {u}
        BY <2>1, <2>2 DEF Owing
    <2> QED BY <1>0, <2>1, <2>3 DEF Owing
<1> QED BY <1>1, <1>2, <1>3, <1>4, <1>5 DEF Scheduler

(* When a pass of the scheduler ends, it has taken up every command that   *)
(* was ready when it began and whose device stayed connected and idle,     *)
(* whatever calls, answers, losses and deletions come in between - as long *)
(* as the ready commands fit a page.                                       *)
THEOREM PassLeavesNothingOwed ==
    ASSUME IsFiniteSet(Cmd), Cardinality(Cmd) <= Page
    PROVE  Spec => []NothingOwed
<1>1. Init => Owing
    BY DEF Init, Owing
<1>2. CommandInv /\ Owing /\ [Next]_vars => Owing'
    <2> SUFFICES ASSUME TypeOK, Structure, Owing, [Next]_vars
                 PROVE  Owing'
        BY DEF CommandInv
    <2>1. CASE UNCHANGED vars
        BY <2>1 DEF vars, Owing, Due, Ready, Connected, Busy, mapVars, netVars, rowVars,
                    callVars, schedVars
    <2> QED BY <2>1, CallKeepsOwing, AnswersKeepOwing, OthersKeepOwing, PassKeepsOwing
            DEF Next
<1>3. Owing => NothingOwed
    BY DEF Owing, NothingOwed
<1> QED BY <1>1, <1>2, <1>3, InvariantHolds, PTL DEF Spec
=============================================================================
