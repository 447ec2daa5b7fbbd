---------------------------- MODULE RadiusProofs ----------------------------
(***************************************************************************)
(* Proofs about the tracker of accounting sessions (RadiusTracker), for    *)
(* any devices, sessions and bounds, about the RADIUS proxy and its        *)
(* destinations (RadiusProxy), for any addresses and configurations, and   *)
(* about the packets it edits (RadiusPacket), for any packets, types and   *)
(* values.                                                                 *)
(***************************************************************************)
EXTENDS RadiusTracker, RadiusProxy, RadiusPacket, SequenceTheorems,
        WellFoundedInduction, TLAPS

-----------------------------------------------------------------------------
(* The tracker. *)

Notice == [kind : {"acct"}, d : Device, s : Session, type : Statuses]
              \cup [kind : {"disc"}, d : Device]

TrackerTypes ==
    /\ handling \in [Device -> {NoMessage} \cup [s : Session, type : Statuses]]
    /\ SessionMessageQueue_ \in Seq(Notice)
    /\ AccountingSessions_ \in [Device -> {NoEntry} \cup SUBSET Session]
    /\ aged \in [Device -> SUBSET Session]
    /\ server \in [Device -> SUBSET Session]
    /\ unclosed \in [Device -> SUBSET Session]

(* The notice at position i of the queue is a packet of this kind. *)
Queued(i, d, s, type) ==
    LET m == SessionMessageQueue_[i]
    IN  m.kind = "acct" /\ m.d = d /\ m.s = s /\ m.type = type

(* A stop that waits in the queue is not the last word on a session that   *)
(* is open at the server: a start was sent, and queued, after it.          *)
StopsAreFollowed ==
    \A d \in Device : \A s \in server[d] \ unclosed[d] :
        \A i \in 1..Len(SessionMessageQueue_) :
            Queued(i, d, s, "stop")
                => \E j \in (i + 1)..Len(SessionMessageQueue_) : Queued(j, d, s, "start")

TrackerInv == TrackerTypes /\ StopsAreFollowed /\ OpenIsTracked

LEMMA SessionsType ==
    ASSUME TrackerTypes, NEW d \in Device
    PROVE  Sessions(d) \in SUBSET Session
  BY DEF TrackerTypes, Sessions

(* A step that changes neither queue, table nor books. *)
LEMMA BooksKeep ==
    ASSUME TrackerInv, TrackerTypes',
           UNCHANGED <<SessionMessageQueue_, AccountingSessions_, server, unclosed>>
    PROVE  TrackerInv'
  BY DEF TrackerInv, StopsAreFollowed, Queued, OpenIsTracked, Sessions, Coming

(* A notice that joins the queue: a session that is open and stays open    *)
(* is tracked as before, and one that opens brings its start along.        *)
LEMMA QueueingKeeps ==
    ASSUME TrackerInv, TrackerTypes', NEW m \in Notice, Queue(m),
           UNCHANGED AccountingSessions_,
           \A d \in Device : \A s \in server'[d] \ unclosed'[d] :
               \/ /\ s \in server[d] \ unclosed[d]
                  /\ ~(m.kind = "acct" /\ m.d = d /\ m.s = s /\ m.type = "stop")
               \/ m.kind = "acct" /\ m.d = d /\ m.s = s /\ m.type = "start"
    PROVE  TrackerInv'
<1> USE DEF TrackerInv
<1>1. SessionMessageQueue_ \in Seq(Notice) /\ SessionMessageQueue_' = Append(SessionMessageQueue_, m)
    BY DEF TrackerTypes, Queue
<1>len. PICK n \in Nat : n = Len(SessionMessageQueue_)
    BY <1>1
<1>2. /\ n \in Nat /\ Len(SessionMessageQueue_') = n + 1
      /\ SessionMessageQueue_'[n + 1] = m
      /\ \A i \in 1..n : SessionMessageQueue_'[i] = SessionMessageQueue_[i]
    BY <1>len, <1>1
<1>3. \A i \in 1..n, d \in Device, s \in Session, type \in Statuses :
          Queued(i, d, s, type)' <=> Queued(i, d, s, type)
    BY <1>2 DEF Queued
<1>4. \A d \in Device, s \in Session : Coming(d, s) => Coming(d, s)'
    BY <1>len, <1>2 DEF Coming
<1>5. \A d \in Device : server'[d] \in SUBSET Session
    BY DEF TrackerTypes
<1>6. ASSUME NEW d \in Device, NEW s \in server'[d] \ unclosed'[d]
      PROVE  /\ s \in Sessions(d)' \/ Coming(d, s)'
             /\ \A i \in 1..(n + 1) : Queued(i, d, s, "stop")'
                   => \E j \in (i + 1)..(n + 1) : Queued(j, d, s, "start")'
    <2>1. s \in Session
        BY <1>5
    <2>2. CASE /\ s \in server[d] \ unclosed[d]
               /\ ~(m.kind = "acct" /\ m.d = d /\ m.s = s /\ m.type = "stop")
        <3>1. s \in Sessions(d)' \/ Coming(d, s)'
            BY <1>4, <2>1, <2>2 DEF OpenIsTracked, Sessions
        <3>2. ~Queued(n + 1, d, s, "stop")'
            BY <1>2, <2>2 DEF Queued
        <3>3. ASSUME NEW i \in 1..n, Queued(i, d, s, "stop")'
              PROVE  \E j \in (i + 1)..(n + 1) : Queued(j, d, s, "start")'
            <4>1. Queued(i, d, s, "stop")
                BY <1>3, <2>1, <3>3 DEF Statuses
            <4>2. PICK j \in (i + 1)..n : Queued(j, d, s, "start")
                BY <2>2, <1>len, <4>1 DEF StopsAreFollowed
            <4>3. j \in 1..n /\ j \in (i + 1)..(n + 1)
                BY <1>2, <4>2
            <4> QED BY <1>3, <2>1, <4>2, <4>3 DEF Statuses
        <3>4. \A i \in 1..(n + 1) : i = n + 1 \/ i \in 1..n
            BY <1>2
        <3> QED BY <3>1, <3>2, <3>3, <3>4
    <2>3. CASE m.kind = "acct" /\ m.d = d /\ m.s = s /\ m.type = "start"
        <3>1. Queued(n + 1, d, s, "start")' /\ ~Queued(n + 1, d, s, "stop")'
            BY <1>2, <2>3 DEF Queued
        <3>2. n + 1 \in 1..(n + 1) /\ \A i \in 1..n : n + 1 \in (i + 1)..(n + 1)
            BY <1>2
        <3>3. Coming(d, s)'
            BY <1>2, <2>3, <3>2 DEF Coming
        <3>4. \A i \in 1..(n + 1) : i = n + 1 \/ i \in 1..n
            BY <1>2
        <3> QED BY <3>1, <3>2, <3>3, <3>4
    <2> QED BY <2>2, <2>3
<1> QED BY <1>2, <1>6 DEF StopsAreFollowed, OpenIsTracked

(* A notice that leaves the queue. *)
LEMMA TakingKeeps ==
    ASSUME TrackerInv, TrackerTypes', SessionMessageQueue_ # <<>>,
           SessionMessageQueue_' = Tail(SessionMessageQueue_),
           \A d \in Device : server'[d] \ unclosed'[d] \subseteq server[d] \ unclosed[d],
           \A d \in Device : \A s \in server'[d] \ unclosed'[d] :
               /\ s \in Sessions(d) => s \in Sessions(d)' \/ Queued(1, d, s, "stop")
               /\ Queued(1, d, s, "start") => s \in Sessions(d)'
    PROVE  TrackerInv'
<1> USE DEF TrackerInv
<1>1. SessionMessageQueue_ \in Seq(Notice)
    BY DEF TrackerTypes
<1>len. PICK n \in Nat : n = Len(SessionMessageQueue_)
    BY <1>1
<1>2. /\ n \in Nat /\ n > 0 /\ Len(SessionMessageQueue_') = n - 1
      /\ \A i \in 1..(n - 1) : SessionMessageQueue_'[i] = SessionMessageQueue_[i + 1]
    BY <1>len, <1>1
<1>3. \A i \in 1..(n - 1) : \A d, s, type :
          Queued(i, d, s, type)' <=> Queued(i + 1, d, s, type)
    BY <1>2 DEF Queued
<1>4. \A d \in Device, s \in Session :
          Coming(d, s) <=> \E i \in 1..n : Queued(i, d, s, "start")
    BY <1>len, <1>1 DEF Coming, Queued, Notice, Statuses
<1>5. \A d \in Device, s \in Session :
          (\E i \in 2..n : Queued(i, d, s, "start")) => Coming(d, s)'
    <2> SUFFICES ASSUME NEW d \in Device, NEW s \in Session, NEW i \in 2..n,
                        Queued(i, d, s, "start")
                 PROVE  Coming(d, s)'
        OBVIOUS
    <2>1. i - 1 \in 1..(n - 1) /\ (i - 1) + 1 = i
        BY <1>2
    <2>2. Queued(i - 1, d, s, "start")'
        BY <1>3, <2>1
    <2> QED BY <1>2, <2>1, <2>2 DEF Coming, Queued
<1>6. \A d \in Device : server[d] \in SUBSET Session
    BY DEF TrackerTypes
<1>7. ASSUME NEW d \in Device, NEW s \in server'[d] \ unclosed'[d]
      PROVE  /\ s \in Sessions(d)' \/ Coming(d, s)'
             /\ \A i \in 1..(n - 1) : Queued(i, d, s, "stop")'
                   => \E j \in (i + 1)..(n - 1) : Queued(j, d, s, "start")'
    <2>1. s \in server[d] \ unclosed[d] /\ s \in Session
        BY <1>6
    <2>2. ASSUME NEW i \in 1..n, Queued(i, d, s, "stop")
          PROVE  \E j \in (i + 1)..n : Queued(j, d, s, "start")
        BY <1>len, <2>1, <2>2 DEF StopsAreFollowed
    <2>3. s \in Sessions(d)' \/ Coming(d, s)'
        <3>1. CASE s \in Sessions(d)
            <4>1. CASE Queued(1, d, s, "stop")
                <5>1. PICK j \in 2..n : Queued(j, d, s, "start")
                    BY <1>2, <2>2, <4>1
                <5> QED BY <1>5, <2>1, <5>1
            <4> QED BY <3>1, <4>1
        <3>2. CASE Coming(d, s)
            <4>1. PICK i \in 1..n : Queued(i, d, s, "start")
                BY <1>4, <2>1, <3>2
            <4>2. CASE i = 1
                BY <4>1, <4>2
            <4>3. CASE i \in 2..n
                BY <1>5, <2>1, <4>1, <4>3
            <4> QED BY <1>2, <4>1, <4>2, <4>3
        <3> QED BY <2>1, <3>1, <3>2 DEF OpenIsTracked
    <2>4. ASSUME NEW i \in 1..(n - 1), Queued(i, d, s, "stop")'
          PROVE  \E j \in (i + 1)..(n - 1) : Queued(j, d, s, "start")'
        <3>1. i + 1 \in 1..n /\ Queued(i + 1, d, s, "stop")
            BY <1>2, <1>3, <2>4
        <3>2. PICK j \in (i + 1 + 1)..n : Queued(j, d, s, "start")
            BY <2>2, <3>1
        <3>3. j - 1 \in (i + 1)..(n - 1) /\ j - 1 \in 1..(n - 1) /\ (j - 1) + 1 = j
            BY <1>2, <3>2
        <3> QED BY <1>3, <3>2, <3>3
    <2> QED BY <2>3, <2>4
<1> QED BY <1>2, <1>7 DEF StopsAreFollowed, OpenIsTracked

(* The handler of a packet: what it does to the books of the server, to    *)
(* the sessions let go and to the queue belongs together.                  *)
LEMMA SendAccountingDataKeeps ==
    ASSUME TrackerInv, NEW d \in Device, SendAccountingData(d)
    PROVE  TrackerInv'
<1> USE DEF TrackerInv
<1>1. PICK m \in [s : Session, type : Statuses] : m = handling[d]
    BY DEF SendAccountingData, TrackerTypes
<1>2. /\ m.s \in Session /\ m.type \in Statuses
      /\ handling' = [handling EXCEPT ![d] = NoMessage]
      /\ UNCHANGED <<AccountingSessions_, aged>>
    BY <1>1 DEF SendAccountingData
<1> DEFINE notice == [kind |-> "acct", d |-> d, s |-> m.s, type |-> m.type]
<1>3. /\ IF route = "off" THEN UNCHANGED SessionMessageQueue_ ELSE Queue(notice)
      /\ server' = IF route = "up" THEN [server EXCEPT ![d] = Accepted(d, m.s, m.type)]
                   ELSE server
      /\ unclosed' = [unclosed EXCEPT ![d] =
                          CASE route = "up" -> @ \ {m.s}
                            [] route # "up" /\ m.type = "stop" -> @ \cup {m.s}
                            [] OTHER -> @]
    BY <1>1 DEF SendAccountingData
<1>4. /\ notice \in Notice /\ notice.kind = "acct" /\ notice.d = d
      /\ notice.s = m.s /\ notice.type = m.type
    BY <1>2 DEF Notice
<1>5. TrackerTypes'
    <2>1. SessionMessageQueue_' \in Seq(Notice)
        <3>1. SessionMessageQueue_ \in Seq(Notice)
            BY DEF TrackerTypes
        <3>2. Append(SessionMessageQueue_, notice) \in Seq(Notice)
            BY <1>4, <3>1
        <3> QED BY <1>3, <3>1, <3>2 DEF Queue
    <2>2. server' \in [Device -> SUBSET Session]
        <3>1. Accepted(d, m.s, m.type) \in SUBSET Session
            BY <1>2 DEF Accepted, TrackerTypes
        <3> QED BY <1>3, <3>1 DEF TrackerTypes
    <2>3. unclosed' \in [Device -> SUBSET Session]
        BY <1>2, <1>3 DEF TrackerTypes
    <2>4. handling' \in [Device -> {NoMessage} \cup [s : Session, type : Statuses]]
        BY <1>2 DEF TrackerTypes
    <2> QED BY <1>2, <2>1, <2>2, <2>3, <2>4 DEF TrackerTypes
<1>6. \A b \in Device : b # d => server'[b] = server[b] /\ unclosed'[b] = unclosed[b]
    BY <1>3 DEF TrackerTypes
<1>7. CASE route = "up"
    <2>1. server'[d] = Accepted(d, m.s, m.type) /\ unclosed'[d] = unclosed[d] \ {m.s}
        BY <1>3, <1>7 DEF TrackerTypes
    <2>2. \A b \in Device : \A s \in server'[b] \ unclosed'[b] :
              \/ /\ s \in server[b] \ unclosed[b]
                 /\ ~(b = d /\ m.s = s /\ m.type = "stop")
              \/ b = d /\ m.s = s /\ m.type = "start"
        BY <1>2, <1>6, <2>1 DEF Accepted, Statuses
    <2>3. Queue(notice)
        BY <1>3, <1>7
    <2> HIDE DEF notice
    <2> QED BY <1>2, <1>4, <1>5, <2>2, <2>3, QueueingKeeps
<1>8. CASE route # "up"
    <2>1. server' = server
        BY <1>3, <1>8
    <2>2. /\ unclosed[d] \subseteq unclosed'[d]
          /\ m.type = "stop" => m.s \in unclosed'[d]
        BY <1>3, <1>8 DEF TrackerTypes
    <2>3. \A b \in Device : \A s \in server'[b] \ unclosed'[b] :
              /\ s \in server[b] \ unclosed[b]
              /\ ~(b = d /\ m.s = s /\ m.type = "stop")
        BY <1>6, <2>1, <2>2
    <2>4. CASE route = "off"
        <3>1. UNCHANGED <<SessionMessageQueue_, AccountingSessions_>>
            BY <1>2, <1>3, <2>4
        <3>2. StopsAreFollowed'
            BY <2>3, <3>1 DEF StopsAreFollowed, Queued
        <3>3. OpenIsTracked'
            BY <2>3, <3>1 DEF OpenIsTracked, Sessions, Coming
        <3> QED BY <1>5, <3>2, <3>3
    <2>5. CASE route # "off"
        <3>1. Queue(notice)
            BY <1>3, <2>5
        <3> HIDE DEF notice
        <3> QED BY <1>2, <1>4, <1>5, <2>3, <3>1, QueueingKeeps
    <2> QED BY <2>4, <2>5
<1> QED BY <1>7, <1>8

(* What the tracker's thread takes from the queue. *)
LEMMA ProcessAccountingSessionKeeps ==
    ASSUME TrackerInv, ProcessAccountingSession
    PROVE  TrackerInv'
<1> USE TrackerAssumption DEF TrackerInv
<1>1. PICK m \in Notice : m = Head(SessionMessageQueue_) /\ m = SessionMessageQueue_[1]
    BY DEF ProcessAccountingSession, Next_, TrackerTypes
<1>2. /\ m.kind = "acct" /\ SessionMessageQueue_ # <<>>
      /\ SessionMessageQueue_' = Tail(SessionMessageQueue_)
      /\ AccountingSessions_' =
             [AccountingSessions_ EXCEPT ![m.d] =
                 IF m.type = "stop" THEN Stopped(m) ELSE Sessions(m.d) \cup {m.s}]
      /\ aged' = [aged EXCEPT ![m.d] = @ \ {m.s}]
      /\ UNCHANGED <<handling, server, unclosed>>
    BY <1>1 DEF ProcessAccountingSession, Next_
<1>3. m.d \in Device /\ m.s \in Session /\ m.type \in Statuses
    BY <1>2 DEF Notice
<1> DEFINE entry == IF m.type = "stop" THEN Stopped(m) ELSE Sessions(m.d) \cup {m.s}
<1>4. entry \in SUBSET Session
    BY <1>3, SessionsType DEF Stopped
<1>5. TrackerTypes'
    <2>1. SessionMessageQueue_' \in Seq(Notice)
        BY <1>2 DEF TrackerTypes
    <2>2. AccountingSessions_' \in [Device -> {NoEntry} \cup SUBSET Session]
        BY <1>2, <1>3, <1>4 DEF TrackerTypes
    <2>3. aged' \in [Device -> SUBSET Session]
        BY <1>2 DEF TrackerTypes
    <2> QED BY <1>2, <2>1, <2>2, <2>3 DEF TrackerTypes
<1>6. Sessions(m.d)' = entry
    BY <1>2, <1>3, <1>4 DEF Sessions, TrackerTypes
<1>7. \A d \in Device : d # m.d => Sessions(d)' = Sessions(d)
    BY <1>2 DEF Sessions, TrackerTypes
<1>8. \A d \in Device, s \in Session :
          /\ s \in Sessions(d) => s \in Sessions(d)' \/ Queued(1, d, s, "stop")
          /\ Queued(1, d, s, "start") => s \in Sessions(d)'
    <2> SUFFICES ASSUME NEW d \in Device, NEW s \in Session
                 PROVE  /\ s \in Sessions(d) => s \in Sessions(d)' \/ Queued(1, d, s, "stop")
                        /\ Queued(1, d, s, "start") => s \in Sessions(d)'
        OBVIOUS
    <2>1. CASE d = m.d
        BY <1>1, <1>2, <1>6, <2>1 DEF Queued, Stopped
    <2>2. CASE d # m.d
        BY <1>1, <1>7, <2>2 DEF Queued
    <2> QED BY <2>1, <2>2
<1>9. \A d \in Device : server[d] \in SUBSET Session
    BY DEF TrackerTypes
<1> QED BY <1>2, <1>5, <1>8, <1>9, TakingKeeps

LEMMA DisconnectSessionKeeps ==
    ASSUME TrackerInv, DisconnectSession
    PROVE  TrackerInv'
<1> USE TrackerAssumption DEF TrackerInv
<1>1. PICK m \in Notice : m = Head(SessionMessageQueue_) /\ m = SessionMessageQueue_[1]
    BY DEF DisconnectSession, Next_, TrackerTypes
<1>2. /\ m.kind = "disc" /\ SessionMessageQueue_ # <<>>
      /\ SessionMessageQueue_' = Tail(SessionMessageQueue_)
      /\ server' = [server EXCEPT ![m.d] = @ \ Closes(m.d)]
      /\ unclosed' = [unclosed EXCEPT ![m.d] = IF route = "up" /\ Radsec THEN @
                                               ELSE @ \cup Sessions(m.d)]
      /\ AccountingSessions_' = [AccountingSessions_ EXCEPT ![m.d] = NoEntry]
      /\ aged' = [aged EXCEPT ![m.d] = {}]
      /\ UNCHANGED handling
    BY <1>1 DEF DisconnectSession, Next_
<1>3. m.d \in Device
    BY DEF Notice
<1>4. TrackerTypes'
    <2>1. SessionMessageQueue_' \in Seq(Notice)
        BY <1>2 DEF TrackerTypes
    <2>2. AccountingSessions_' \in [Device -> {NoEntry} \cup SUBSET Session]
        BY <1>2 DEF TrackerTypes
    <2>3. aged' \in [Device -> SUBSET Session]
        BY <1>2 DEF TrackerTypes
    <2>4. server' \in [Device -> SUBSET Session]
        BY <1>2 DEF TrackerTypes
    <2>5. unclosed' \in [Device -> SUBSET Session]
        BY <1>2, <1>3, SessionsType DEF TrackerTypes
    <2> QED BY <1>2, <2>1, <2>2, <2>3, <2>4, <2>5 DEF TrackerTypes
<1>5. \A d \in Device : d # m.d => /\ server'[d] = server[d] /\ unclosed'[d] = unclosed[d]
                                  /\ Sessions(d)' = Sessions(d)
    BY <1>2 DEF Sessions, TrackerTypes
<1>6. /\ server'[m.d] \ unclosed'[m.d] \subseteq server[m.d] \ unclosed[m.d]
      /\ \A s \in server'[m.d] \ unclosed'[m.d] : s \notin Sessions(m.d)
    BY <1>2, <1>3 DEF Closes, Close, TrackerTypes
<1>7. \A d, s, type : ~Queued(1, d, s, type)
    BY <1>1, <1>2 DEF Queued
<1>8. \A d \in Device : server'[d] \ unclosed'[d] \subseteq server[d] \ unclosed[d]
    BY <1>5, <1>6
<1>9. \A d \in Device : \A s \in server'[d] \ unclosed'[d] :
          s \in Sessions(d) => s \in Sessions(d)'
    BY <1>5, <1>6
<1> QED BY <1>2, <1>4, <1>7, <1>8, <1>9, TakingKeeps

LEMMA GarbageCollectionKeeps ==
    ASSUME TrackerInv, GarbageCollection
    PROVE  TrackerInv'
<1> USE TrackerAssumption DEF TrackerInv
<1>1. /\ AccountingSessions_' = [d \in Device |-> Collected(d)]
      /\ aged' = [d \in Device |-> {}]
      /\ unclosed' = [d \in Device |-> unclosed[d] \cup aged[d]]
      /\ UNCHANGED <<handling, SessionMessageQueue_, server>>
    BY DEF GarbageCollection
<1>2. \A d \in Device : /\ Collected(d) \in {NoEntry} \cup SUBSET Session
                       /\ Sessions(d)' = Sessions(d) \ aged[d]
    <2> TAKE d \in Device
    <2>1. Sessions(d) \in SUBSET Session
        BY SessionsType
    <2>2. AccountingSessions_'[d] = Collected(d)
        BY <1>1
    <2> QED BY <2>1, <2>2 DEF Collected, Sessions
<1>3. TrackerTypes'
    BY <1>1, <1>2 DEF TrackerTypes
<1>4. \A d \in Device : server'[d] \ unclosed'[d] = (server[d] \ unclosed[d]) \ aged[d]
    BY <1>1
<1>5. StopsAreFollowed'
    BY <1>1, <1>4 DEF StopsAreFollowed, Queued
<1>6. OpenIsTracked'
    <2> SUFFICES ASSUME NEW d \in Device, NEW s \in server[d] \ unclosed[d], s \notin aged[d]
                 PROVE  s \in Sessions(d)' \/ Coming(d, s)'
        BY <1>4 DEF OpenIsTracked
    <2>1. s \in Sessions(d) \/ Coming(d, s)
        BY DEF OpenIsTracked
    <2>2. Coming(d, s) => Coming(d, s)'
        BY <1>1 DEF Coming
    <2> QED BY <1>2, <2>1, <2>2
<1> QED BY <1>3, <1>5, <1>6

LEMMA TrackerInvInit == TrkInit => TrackerInv
  BY DEF TrkInit, TrackerInv, TrackerTypes, StopsAreFollowed, OpenIsTracked

LEMMA TrackerInvStep == TrackerInv /\ [TrkNext]_trkVars => TrackerInv'
<1> SUFFICES ASSUME TrackerInv, [TrkNext]_trkVars PROVE TrackerInv'
    OBVIOUS
<1>1. ASSUME NEW d \in Device, Connect(d) PROVE TrackerInv'
    BY <1>1, BooksKeep DEF Connect, TrackerInv, TrackerTypes
<1>2. ASSUME NEW d \in Device, NEW s \in Session, NEW type \in Statuses, Receive(d, s, type)
      PROVE  TrackerInv'
    <2>1. handling' \in [Device -> {NoMessage} \cup [s : Session, type : Statuses]]
        BY <1>2 DEF Receive, TrackerInv, TrackerTypes
    <2> QED BY <1>2, <2>1, BooksKeep DEF Receive, TrackerInv, TrackerTypes
<1>3. ASSUME NEW d \in Device, DeviceDisconnect(d) PROVE TrackerInv'
    <2> DEFINE notice == [kind |-> "disc", d |-> d]
    <2>1. notice \in Notice /\ notice.kind = "disc"
        BY DEF Notice
    <2>2. /\ Queue(notice)
          /\ UNCHANGED <<handling, AccountingSessions_, aged, server, unclosed>>
        BY <1>3 DEF DeviceDisconnect
    <2>3. SessionMessageQueue_' \in Seq(Notice)
        BY <2>1, <2>2 DEF Queue, TrackerInv, TrackerTypes
    <2>4. TrackerTypes'
        BY <2>2, <2>3 DEF TrackerInv, TrackerTypes
    <2> HIDE DEF notice
    <2> QED BY <2>1, <2>2, <2>4, QueueingKeeps
<1>4. ASSUME NEW d \in Device, Age(d) PROVE TrackerInv'
    <2>1. aged' \in [Device -> SUBSET Session]
        BY <1>4, SessionsType DEF Age, TrackerInv, TrackerTypes
    <2> QED BY <1>4, <2>1, BooksKeep DEF Age, TrackerInv, TrackerTypes
<1>5. CASE RouteChanges \/ UNCHANGED trkVars
    BY <1>5, BooksKeep DEF RouteChanges, trkVars, TrackerInv, TrackerTypes
<1> QED BY <1>1, <1>2, <1>3, <1>4, <1>5, SendAccountingDataKeeps,
           ProcessAccountingSessionKeeps, DisconnectSessionKeeps, GarbageCollectionKeeps
        DEF TrkNext

(* However packets, ends of connections, the tracker's thread and changes  *)
(* of the destination are interleaved, a session that is open at the       *)
(* RADIUS server is one that the tracker knows or is about to learn of,    *)
(* unless it timed out or its stop could not be delivered.                 *)
THEOREM OpenSessionsAreTracked == TrkSpec => []OpenIsTracked
<1>1. TrackerInv => OpenIsTracked
    BY DEF TrackerInv
<1> QED BY <1>1, TrackerInvInit, TrackerInvStep, PTL DEF TrkSpec

-----------------------------------------------------------------------------
(* The proxy and its destinations. *)

(* Only types that DoPut lets through are ever stored or started, nothing  *)
(* is connected unless the proxy runs, and a UDP socket is never given up. *)
PoolTypesKnown ==
    /\ \A p \in PoolList_ : p.type \in Types
    /\ Stored(file) => \A p \in file : p.type \in Types

IdleHasNone == ~(Enabled_ /\ Running_) => Destinations = {}

UdpStaysOpen ==
    \A a \in Destinations :
        LET d == RADIUS_Destinations_[a]
        IN  d.type = "generic" /\ d.once => d.Connected_

DownIsEmpty == ~up => PoolList_ = {} /\ Pools_ = {} /\ ~Running_

ProxyInv ==
    /\ PrxTypeOK /\ PoolTypesKnown /\ IdleHasNone /\ UdpStaysOpen /\ DownIsEmpty
    /\ ServesOnlyEnabledPools /\ RestartChangesNothing

(* The lists that a configuration, or none, stands for. *)
PoolLists == Config \cup {{}}

LEMMA PoolListsAssumption ==
    ASSUME NEW L \in PoolLists
    PROVE  /\ L \subseteq [ip : Ip, type : STRING, enabled : BOOLEAN]
           /\ \A p, q \in L : p.ip = q.ip => p = q
  BY ConfigAssumption DEF PoolLists

(* What is started is what is enabled, with the type that it has. *)
LEMMA StartedAreEnabled ==
    ASSUME NEW L \in PoolLists, \A p \in L : p.type \in Types,
           NEW a \in Ip
    PROVE  LET d == StartRADIUSDestinations(L)[a]
           IN  /\ d \in Destination \cup {NoDestination}
               /\ d # NoDestination <=> \E p \in L : p.ip = a /\ p.enabled
               /\ d # NoDestination =>
                     /\ ~d.once
                     /\ \E p \in L : p.ip = a /\ p.enabled /\ p.type = d.type
<1> USE ProxyAssumption
<1> DEFINE d == StartRADIUSDestinations(L)[a]
<1>1. CASE \E p \in L : p.ip = a /\ p.enabled
    <2>1. PICK p \in L : p.ip = a /\ p.enabled
        BY <1>1
    <2>2. (CHOOSE q \in L : q.ip = a) = p
        BY <2>1, PoolListsAssumption
    <2>3. d = NewDestination(p.type)
        BY <1>1, <2>2 DEF StartRADIUSDestinations
    <2>4. NewDestination(p.type) \in Destination /\ ~NewDestination(p.type).once
          /\ NewDestination(p.type).type = p.type
        BY <2>1 DEF NewDestination, Destination
    <2>5. d \in Destination /\ d # NoDestination
        BY <2>3, <2>4
    <2> QED BY <2>1, <2>3, <2>4, <2>5
<1>2. CASE ~\E p \in L : p.ip = a /\ p.enabled
    <2>1. d = NoDestination
        BY <1>2 DEF StartRADIUSDestinations
    <2> QED BY <1>2, <2>1
<1> QED BY <1>1, <1>2

(* Start, from a file and from lists in memory that can be served: what it *)
(* shows, what it looks at and what it starts agree.                       *)
LEMMA StartAgrees ==
    ASSUME NEW f \in Config \cup {NoFile, TornFile}, NEW L \in PoolLists,
           NEW P \in PoolLists, Running_ \in BOOLEAN, Start(f, L, P),
           \A p \in L : p.type \in Types, Stored(f) => \A p \in f : p.type \in Types,
           f = NoFile => L = {}
    PROVE  /\ PoolList_' = (IF Stored(f) THEN f ELSE L) /\ PoolList_' \in PoolLists
           /\ Pools_' = (IF Stored(f) THEN f ELSE P) /\ Pools_' \in PoolLists
           /\ Enabled_' \in BOOLEAN /\ Running_' \in BOOLEAN
           /\ RADIUS_Destinations_' \in [Ip -> Destination \cup {NoDestination}]
           /\ \A p \in PoolList_' : p.type \in Types
           /\ Destinations' = {p.ip : p \in {q \in PoolList_' : q.enabled}}
           /\ IdleHasNone' /\ UdpStaysOpen' /\ ServesOnlyEnabledPools'
<1> USE ProxyAssumption
<1> DEFINE M == ParsedPoolList(f, L)
<1>1. /\ M = (IF Stored(f) THEN f ELSE L) /\ M \in PoolLists
      /\ \A p \in M : p.type \in Types
    BY DEF ParsedPoolList, Stored, PoolLists
<1>2. CASE ~EnabledByProperty /\ f = NoFile
    <2>1. /\ Enabled_' = FALSE /\ PoolList_' = L /\ Pools_' = P /\ L = {}
          /\ RADIUS_Destinations_' = [a \in Ip |-> NoDestination]
          /\ Running_' = Running_ /\ ~Stored(f)
        BY <1>2 DEF Start, NoDestinations, Stored
    <2>2. Destinations' = {}
        BY <2>1 DEF Destinations
    <2> QED BY <2>1, <2>2 DEF IdleHasNone, UdpStaysOpen, ServesOnlyEnabledPools
<1>3. CASE ~(~EnabledByProperty /\ f = NoFile)
    <2>1. /\ Enabled_' = TRUE /\ Running_' = TRUE /\ PoolList_' = M
          /\ Pools_' = ParsedPools(f, P)
          /\ RADIUS_Destinations_' = StartRADIUSDestinations(M)
        BY <1>3 DEF Start
    <2>2. Pools_' = (IF Stored(f) THEN f ELSE P) /\ Pools_' \in PoolLists
        BY <2>1 DEF ParsedPools, Stored, PoolLists
    <2> HIDE DEF M
    <2>3. \A a \in Ip :
             LET d == RADIUS_Destinations_'[a]
             IN  /\ d \in Destination \cup {NoDestination}
                 /\ d # NoDestination <=> \E p \in M : p.ip = a /\ p.enabled
                 /\ d # NoDestination =>
                       /\ ~d.once
                       /\ \E p \in M : p.ip = a /\ p.enabled /\ p.type = d.type
        BY <1>1, <2>1, StartedAreEnabled
    <2>4. RADIUS_Destinations_' \in [Ip -> Destination \cup {NoDestination}]
        <3>1. RADIUS_Destinations_' = [a \in Ip |-> RADIUS_Destinations_'[a]]
            BY <2>1 DEF StartRADIUSDestinations
        <3> QED BY <2>3, <3>1
    <2>5. Destinations' = {p.ip : p \in {q \in M : q.enabled}}
        <3>1. \A p \in M : p.ip \in Ip
            BY <1>1, PoolListsAssumption
        <3> QED BY <2>3, <3>1 DEF Destinations
    <2>6. IdleHasNone'
        BY <2>1 DEF IdleHasNone
    <2>7. UdpStaysOpen'
        BY <2>3 DEF UdpStaysOpen, Destinations
    <2>8. ServesOnlyEnabledPools'
        BY <2>1, <2>3 DEF ServesOnlyEnabledPools, Destinations
    <2> QED BY <1>1, <2>1, <2>2, <2>4, <2>5, <2>6, <2>7, <2>8
<1> QED BY <1>2, <1>3

LEMMA StartProcessKeeps ==
    ASSUME ProxyInv, StartProcess
    PROVE  ProxyInv'
<1> USE ProxyAssumption DEF ProxyInv
<1>1. /\ up' = TRUE /\ Start(file, {}, {}) /\ UNCHANGED <<file, ioFailed, dangling>>
    BY DEF StartProcess
<1>2. /\ file \in Config \cup {NoFile, TornFile} /\ {} \in PoolLists /\ Running_ \in BOOLEAN
      /\ Stored(file) => \A p \in file : p.type \in Types
    BY DEF PrxTypeOK, PoolLists, PoolTypesKnown
<1>3. /\ PoolList_' = (IF Stored(file) THEN file ELSE {}) /\ PoolList_' \in PoolLists
      /\ Pools_' = PoolList_'
      /\ Enabled_' \in BOOLEAN /\ Running_' \in BOOLEAN
      /\ RADIUS_Destinations_' \in [Ip -> Destination \cup {NoDestination}]
      /\ \A p \in PoolList_' : p.type \in Types
      /\ Destinations' = {p.ip : p \in {q \in PoolList_' : q.enabled}}
      /\ IdleHasNone' /\ UdpStaysOpen' /\ ServesOnlyEnabledPools'
    BY <1>1, <1>2, StartAgrees
<1>4. PrxTypeOK'
    BY <1>1, <1>3 DEF PrxTypeOK, PoolLists
<1>5. PoolTypesKnown' /\ DownIsEmpty'
    BY <1>1, <1>2, <1>3 DEF PoolTypesKnown, DownIsEmpty, Stored
<1>6. RestartChangesNothing'
    BY <1>1, <1>3 DEF RestartChangesNothing, Stored
<1> QED BY <1>3, <1>4, <1>5, <1>6

(* StopRADIUSDestinations leaves a handler only where a thread was in      *)
(* Connect, because every other destination is disconnected or was not     *)
(* connected.                                                              *)
LEMMA StopLeavesOnlyLate ==
    ASSUME PrxTypeOK, NEW late \in HandlersAfterStop
    PROVE  late \ dangling \subseteq {a \in Ip : InThread(a, "connecting")}
  BY DEF PrxTypeOK, HandlersAfterStop, Disconnected, Destinations, Destination, InThread

LEMMA SetConfigKeeps ==
    ASSUME ProxyInv, NEW C \in Config, SetConfig(C)
    PROVE  ProxyInv'
<1> USE ProxyAssumption DEF ProxyInv
<1>1. PICK f \in {C, TornFile} :
          /\ file' = f /\ ioFailed' = (f = TornFile)
          /\ IF Enabled_ /\ Running_ THEN dangling' \in HandlersAfterStop ELSE UNCHANGED dangling
          /\ Start(f, C, {})
    BY DEF SetConfig
<1>2. up' = up /\ up = TRUE /\ Acceptable(C)
    BY DEF SetConfig, PrxTypeOK
<1>3. /\ f \in Config \cup {NoFile, TornFile} /\ f # NoFile /\ C \in PoolLists /\ {} \in PoolLists
      /\ Running_ \in BOOLEAN /\ \A p \in C : p.type \in Types
      /\ Stored(f) => \A p \in f : p.type \in Types
    BY <1>2 DEF PrxTypeOK, PoolLists, Acceptable, Stored
<1>4. /\ PoolList_' = (IF Stored(f) THEN f ELSE C) /\ PoolList_' \in PoolLists
      /\ Pools_' = (IF Stored(f) THEN f ELSE {}) /\ Pools_' \in PoolLists
      /\ Enabled_' \in BOOLEAN /\ Running_' \in BOOLEAN
      /\ RADIUS_Destinations_' \in [Ip -> Destination \cup {NoDestination}]
      /\ \A p \in PoolList_' : p.type \in Types
      /\ Destinations' = {p.ip : p \in {q \in PoolList_' : q.enabled}}
      /\ IdleHasNone' /\ UdpStaysOpen' /\ ServesOnlyEnabledPools'
    BY <1>1, <1>3, StartAgrees
<1>5. dangling' \subseteq Ip
    <2>1. CASE Enabled_ /\ Running_
        BY <1>1, <2>1, StopLeavesOnlyLate DEF PrxTypeOK
    <2>2. CASE ~(Enabled_ /\ Running_)
        BY <1>1, <2>2 DEF PrxTypeOK
    <2> QED BY <2>1, <2>2
<1>6. PrxTypeOK'
    BY <1>1, <1>2, <1>3, <1>4, <1>5 DEF PrxTypeOK, PoolLists
<1>7. PoolTypesKnown' /\ DownIsEmpty'
    BY <1>1, <1>2, <1>3, <1>4 DEF PoolTypesKnown, DownIsEmpty, Stored
<1>8. RestartChangesNothing'
    BY <1>1, <1>2, <1>3, <1>4 DEF RestartChangesNothing, Stored
<1> QED BY <1>4, <1>6, <1>7, <1>8

LEMMA DeleteConfigKeeps ==
    ASSUME ProxyInv, DeleteConfig
    PROVE  ProxyInv'
<1> USE ProxyAssumption DEF ProxyInv
<1>1. /\ file' \in {NoFile, file} /\ ioFailed' = (file' # NoFile)
      /\ Running_' = FALSE /\ PoolList_' = {} /\ Pools_' = {}
      /\ UNCHANGED <<up, Enabled_>>
      /\ up
    BY DEF DeleteConfig
<1>2. /\ dangling' \subseteq Ip
      /\ RADIUS_Destinations_' \in [Ip -> Destination \cup {NoDestination}]
      /\ Destinations' = {}
    <2>1. CASE Enabled_ /\ Running_
        <3>1. dangling' \in HandlersAfterStop /\ RADIUS_Destinations_' = [a \in Ip |-> NoDestination]
            BY <2>1 DEF DeleteConfig, NoDestinations
        <3> QED BY <3>1, StopLeavesOnlyLate DEF PrxTypeOK, Destinations
    <2>2. CASE ~(Enabled_ /\ Running_)
        BY <2>2 DEF DeleteConfig, PrxTypeOK, IdleHasNone, Destinations
    <2> QED BY <2>1, <2>2
<1>3. PrxTypeOK'
    BY <1>1, <1>2 DEF PrxTypeOK
<1>4. PoolTypesKnown' /\ DownIsEmpty' /\ IdleHasNone'
    BY <1>1, <1>2 DEF PoolTypesKnown, DownIsEmpty, IdleHasNone, Stored
<1>5. UdpStaysOpen' /\ ServesOnlyEnabledPools'
    BY <1>2 DEF UdpStaysOpen, ServesOnlyEnabledPools
<1>6. RestartChangesNothing'
    BY <1>1, <1>2 DEF RestartChangesNothing, Stored
<1> QED BY <1>3, <1>4, <1>5, <1>6

(* The process ends: only the file is left. *)
LEMMA EndKeeps ==
    ASSUME ProxyInv, up' = FALSE, file' \in {file, TornFile}, ioFailed' \in BOOLEAN,
           PoolList_' = {}, Pools_' = {}, Enabled_' = FALSE, Running_' = FALSE,
           RADIUS_Destinations_' = NoDestinations, dangling' = {}
    PROVE  ProxyInv'
<1>1. Destinations' = {}
    BY DEF Destinations, NoDestinations
<1> QED BY <1>1 DEF ProxyInv, PrxTypeOK, PoolTypesKnown, IdleHasNone, UdpStaysOpen,
            DownIsEmpty, ServesOnlyEnabledPools, RestartChangesNothing, Stored, NoDestinations

(* A step of one destination, which stays what it is. *)
LEMMA DestinationStepKeeps ==
    ASSUME ProxyInv, DestUnchanged, NEW a \in Destinations, NEW d \in Destination,
           RADIUS_Destinations_' = [RADIUS_Destinations_ EXCEPT ![a] = d],
           d.type = RADIUS_Destinations_[a].type,
           d.type = "generic" /\ d.once => d.Connected_
    PROVE  ProxyInv'
<1> USE ProxyAssumption DEF ProxyInv
<1>1. /\ a \in Ip /\ RADIUS_Destinations_[a] # NoDestination
      /\ RADIUS_Destinations_ \in [Ip -> Destination \cup {NoDestination}]
    BY DEF Destinations, PrxTypeOK
<1>2. /\ RADIUS_Destinations_' \in [Ip -> Destination \cup {NoDestination}]
      /\ RADIUS_Destinations_'[a] = d
      /\ \A b \in Ip : b # a => RADIUS_Destinations_'[b] = RADIUS_Destinations_[b]
    BY <1>1
<1>3. Destinations' = Destinations
    BY <1>1, <1>2 DEF Destinations
<1>4. UNCHANGED <<up, file, PoolList_, Pools_, Enabled_, Running_, ioFailed, dangling>>
    BY DEF DestUnchanged
<1>5. PrxTypeOK'
    BY <1>2, <1>4 DEF PrxTypeOK
<1>6. PoolTypesKnown' /\ DownIsEmpty' /\ IdleHasNone' /\ RestartChangesNothing'
    BY <1>3, <1>4 DEF PoolTypesKnown, DownIsEmpty, IdleHasNone, RestartChangesNothing, Stored
<1>7. UdpStaysOpen'
    BY <1>2, <1>3, Destinations \subseteq Ip DEF UdpStaysOpen, Destinations
<1>8. ServesOnlyEnabledPools'
    <2>1. \A b \in Destinations : b \in Ip
        BY DEF Destinations
    <2> QED BY <1>2, <1>3, <1>4, <2>1 DEF ServesOnlyEnabledPools
<1> QED BY <1>5, <1>6, <1>7, <1>8

LEMMA ProxyInvInit == PrxInit => ProxyInv
<1> SUFFICES ASSUME PrxInit PROVE ProxyInv
    OBVIOUS
<1>1. Destinations = {}
    BY DEF PrxInit, Destinations
<1> QED BY <1>1 DEF PrxInit, ProxyInv, PrxTypeOK, PoolTypesKnown, IdleHasNone, UdpStaysOpen,
            DownIsEmpty, ServesOnlyEnabledPools, RestartChangesNothing, Stored

LEMMA ProxyInvStep == ProxyInv /\ [PrxNext]_prxVars => ProxyInv'
<1> SUFFICES ASSUME ProxyInv, [PrxNext]_prxVars PROVE ProxyInv'
    OBVIOUS
<1>1. CASE Killed
    BY <1>1, EndKeeps DEF Killed, ProxyInv, PrxTypeOK
<1>2. ASSUME NEW a \in Ip, PacketBeforeConnect(a) PROVE ProxyInv'
    BY <1>2, EndKeeps DEF PacketBeforeConnect, ProxyInv, PrxTypeOK
<1>3. ASSUME NEW a \in Ip,
             WakeUp(a) \/ BeginConnect(a) \/ ConnectSucceeds(a) \/ ConnectFails(a)
                 \/ KeepAliveThrows(a) \/ ConnectionLost(a)
      PROVE  ProxyInv'
    <2> DEFINE d == RADIUS_Destinations_[a]
    <2>1. a \in Destinations /\ DestUnchanged
        BY <1>3 DEF WakeUp, BeginConnect, ConnectSucceeds, ConnectFails,
                    KeepAliveThrows, ConnectionLost, InThread
    <2>2. d \in Destination /\ (d.type = "generic" /\ d.once => d.Connected_)
        BY <2>1 DEF ProxyInv, PrxTypeOK, Destinations, UdpStaysOpen
    <2>3. RADIUS_Destinations_ \in [Ip -> Destination \cup {NoDestination}]
        BY DEF ProxyInv, PrxTypeOK
    <2>4. \E t \in {"asleep", "loop", "connecting", "dead"}, c, o \in BOOLEAN :
             /\ RADIUS_Destinations_' =
                    [RADIUS_Destinations_ EXCEPT ![a] =
                        [d EXCEPT !.thread = t, !.Connected_ = c, !.once = o]]
             /\ d.type = "generic" /\ o => c
        <3>1. CASE WakeUp(a) \/ ConnectFails(a)
            <4>1. RADIUS_Destinations_' =
                    [RADIUS_Destinations_ EXCEPT ![a] =
                        [d EXCEPT !.thread = "loop", !.Connected_ = d.Connected_, !.once = d.once]]
                BY <2>2, <2>3, <3>1 DEF WakeUp, ConnectFails, Dest, Destination
            <4> QED BY <2>2, <4>1 DEF Destination
        <3>2. CASE BeginConnect(a)
            <4>1. RADIUS_Destinations_' =
                    [RADIUS_Destinations_ EXCEPT ![a] =
                        [d EXCEPT !.thread = "connecting", !.Connected_ = d.Connected_,
                                  !.once = d.once]]
                BY <2>2, <2>3, <3>2 DEF BeginConnect, Dest, Destination
            <4> QED BY <2>2, <4>1 DEF Destination
        <3>3. CASE KeepAliveThrows(a)
            <4>1. RADIUS_Destinations_' =
                    [RADIUS_Destinations_ EXCEPT ![a] =
                        [d EXCEPT !.thread = "dead", !.Connected_ = d.Connected_, !.once = d.once]]
                BY <2>2, <2>3, <3>3 DEF KeepAliveThrows, Dest, Destination
            <4> QED BY <2>2, <4>1 DEF Destination
        <3>4. CASE ConnectionLost(a)
            <4>1. RADIUS_Destinations_' =
                    [RADIUS_Destinations_ EXCEPT ![a] =
                        [d EXCEPT !.thread = d.thread, !.Connected_ = FALSE, !.once = d.once]]
                  /\ d.type # "generic"
                BY <2>2, <2>3, <3>4 DEF ConnectionLost, Loses, Dest, Destination
            <4> QED BY <2>2, <4>1 DEF Destination
        <3>5. CASE ConnectSucceeds(a)
            <4>1. CASE d.type = "radsec"
                <5>1. RADIUS_Destinations_' =
                        [RADIUS_Destinations_ EXCEPT ![a] =
                            [d EXCEPT !.thread = "loop", !.Connected_ = d.Connected_,
                                      !.once = d.once]]
                    BY <2>2, <2>3, <3>5, <4>1 DEF ConnectSucceeds, Destination
                <5> QED BY <2>2, <5>1 DEF Destination
            <4>2. CASE d.type # "radsec"
                <5>1. RADIUS_Destinations_' =
                        [RADIUS_Destinations_ EXCEPT ![a] =
                            [d EXCEPT !.thread = "loop", !.Connected_ = TRUE, !.once = TRUE]]
                    BY <2>2, <2>3, <3>5, <4>2 DEF ConnectSucceeds, Destination
                <5> QED BY <5>1
            <4> QED BY <4>1, <4>2
        <3> QED BY <1>3, <3>1, <3>2, <3>3, <3>4, <3>5
    <2>5. PICK t \in {"asleep", "loop", "connecting", "dead"}, c \in BOOLEAN, o \in BOOLEAN :
             /\ RADIUS_Destinations_' =
                    [RADIUS_Destinations_ EXCEPT ![a] =
                        [d EXCEPT !.thread = t, !.Connected_ = c, !.once = o]]
             /\ d.type = "generic" /\ o => c
        BY <2>4
    <2> DEFINE new == [d EXCEPT !.thread = t, !.Connected_ = c, !.once = o]
    <2>6. /\ new \in Destination /\ new.type = d.type
          /\ new.type = "generic" /\ new.once => new.Connected_
        BY <2>2, <2>5 DEF Destination
    <2>7. RADIUS_Destinations_' = [RADIUS_Destinations_ EXCEPT ![a] = new]
        BY <2>5
    <2> HIDE DEF new
    <2> QED BY <2>1, <2>6, <2>7, DestinationStepKeeps
<1>4. CASE UNCHANGED prxVars
    BY <1>4 DEF prxVars, ProxyInv, PrxTypeOK, PoolTypesKnown, IdleHasNone, UdpStaysOpen,
                DownIsEmpty, ServesOnlyEnabledPools, RestartChangesNothing, Stored,
                Destinations
<1> QED BY <1>1, <1>2, <1>3, <1>4, StartProcessKeeps, SetConfigKeeps, DeleteConfigKeeps
        DEF PrxNext

(* Whatever fails when the configuration is written, read or removed, and  *)
(* wherever the process is killed, packets are passed on for enabled pools *)
(* only; a restart changes nothing unless the file failed; and a UDP       *)
(* socket is missing only before the first Connect.                        *)
THEOREM PoolsAreAlwaysServed == PrxSpec => []PoolsAreServed
<1>1. ProxyInv => PoolsAreServed
    BY DEF ProxyInv, PoolsAreServed, UdpStaysOpen, NullSocketOnlyAtFirst, NoSocketYet
<1> QED BY <1>1, ProxyInvInit, ProxyInvStep, PTL DEF PrxSpec

(* A step that leaves a handler in the reactor stopped a destination whose *)
(* thread was in Connect.                                                  *)
THEOREM OnlyLateConnectsDangle == PrxSpec => StopLeavesNoHandler
<1>1. ProxyInv /\ [PrxNext]_prxVars
          => [dangling' \ dangling \subseteq {a \in Ip : InThread(a, "connecting")}]_prxVars
    <2> SUFFICES ASSUME ProxyInv, PrxNext
                 PROVE  \/ dangling' \subseteq dangling
                        \/ dangling' \ dangling \subseteq {a \in Ip : InThread(a, "connecting")}
        OBVIOUS
    <2>1. CASE dangling' \in HandlersAfterStop
        BY <2>1, StopLeavesOnlyLate DEF ProxyInv
    <2>2. CASE dangling' \notin HandlersAfterStop
        BY <2>2 DEF PrxNext, StartProcess, SetConfig, DeleteConfig, Killed, WakeUp,
                    BeginConnect, ConnectSucceeds, ConnectFails, KeepAliveThrows,
                    ConnectionLost, PacketBeforeConnect, DestUnchanged
    <2> QED BY <2>1, <2>2
<1> QED BY <1>1, ProxyInvInit, ProxyInvStep, PTL DEF PrxSpec, StopLeavesNoHandler

-----------------------------------------------------------------------------
(* Induction, stated with sets. *)

LEMMA LeastNumber ==
    ASSUME NEW T \in SUBSET Nat, T # {}
    PROVE  \E n \in T : \A m \in T : n <= m
<1>1. PICK n \in T : \A m \in T : ~(<<m, n>> \in OpToRel(<, Nat))
    BY NatLessThanWellFounded, WFMin, Zenon
<1>2. \A m \in T : ~(m < n)
    BY <1>1, Zenon DEF OpToRel
<1> QED BY <1>2

LEMMA Inductive ==
    ASSUME NEW S, 0 \in S, \A n \in Nat : n \in S => n + 1 \in S
    PROVE  Nat \subseteq S
<1> DEFINE T == Nat \ S
<1> SUFFICES ASSUME T # {} PROVE FALSE
    OBVIOUS
<1>1. PICK n \in T : \A m \in T : n <= m
    <2> HIDE DEF T
    <2>1. T \subseteq Nat
        BY DEF T
    <2> QED BY <2>1, LeastNumber
<1>2. n # 0 /\ n - 1 \in Nat /\ n - 1 \notin T
    BY <1>1
<1> QED BY <1>1, <1>2

(* A function that starts at base and goes on by step exists ...           *)
Iterates(f, base, step, N) == f[0] = base /\ \A x \in 1..N : f[x] = step[x][f[x - 1]]

LEMMA IterationExists ==
    ASSUME NEW S, NEW base \in S, NEW N \in Nat, NEW step \in [1..N -> [S -> S]]
    PROVE  \E f \in [0..N -> S] : Iterates(f, base, step, N)
<1> DEFINE Upto_(n, f) == f[0] = base /\ \A x \in 1..n : f[x] = step[x][f[x - 1]]
           Reached == {n \in Nat : n <= N => \E f \in [0..n -> S] : Upto_(n, f)}
<1>1. 0 \in Reached
    <2> DEFINE f == [x \in 0..0 |-> base]
    <2>1. f \in [0..0 -> S] /\ Upto_(0, f)
        OBVIOUS
    <2> QED BY <2>1
<1>2. ASSUME NEW n \in Nat, n \in Reached
      PROVE  n + 1 \in Reached
    <2> SUFFICES ASSUME n + 1 <= N
                 PROVE  \E g \in [0..(n + 1) -> S] : Upto_(n + 1, g)
        OBVIOUS
    <2>1. PICK f \in [0..n -> S] : Upto_(n, f)
        BY <1>2
    <2> DEFINE g == [x \in 0..(n + 1) |-> IF x = n + 1 THEN step[n + 1][f[n]] ELSE f[x]]
    <2>2. step[n + 1] \in [S -> S] /\ f[n] \in S
        OBVIOUS
    <2>3. g \in [0..(n + 1) -> S]
        BY <2>2
    <2>4. g[0] = base
        BY <2>1
    <2>5. ASSUME NEW x \in 1..(n + 1)
          PROVE  g[x] = step[x][g[x - 1]]
        <3>1. CASE x = n + 1
            <4>1. g[x - 1] = f[n] /\ g[x] = step[n + 1][f[n]]
                BY <3>1
            <4> QED BY <3>1, <4>1
        <3>2. CASE x \in 1..n
            <4>1. g[x - 1] = f[x - 1] /\ g[x] = f[x]
                BY <3>2
            <4> QED BY <2>1, <3>2, <4>1
        <3> QED BY <3>1, <3>2
    <2> QED BY <2>3, <2>4, <2>5
<1>3. N \in Reached
    <2> HIDE DEF Reached
    <2> QED BY <1>1, <1>2, Inductive
<1> QED BY <1>3 DEF Iterates

(* ... and is the only one.                                                *)
KeepsEqual(f, g, N) == \A x \in 1..N : f[x - 1] = g[x - 1] => f[x] = g[x]

LEMMA IterationIsUnique ==
    ASSUME NEW N \in Nat, NEW f, NEW g, f[0] = g[0], KeepsEqual(f, g, N)
    PROVE  \A x \in 0..N : f[x] = g[x]
<1> DEFINE Same == {n \in Nat : n <= N => f[n] = g[n]}
<1>1. 0 \in Same
    OBVIOUS
<1>2. ASSUME NEW n \in Nat, n \in Same
      PROVE  n + 1 \in Same
    <2>1. CASE n + 1 <= N
        <3>1. (n + 1) - 1 = n /\ n + 1 \in 1..N
            BY <2>1
        <3> QED BY <1>2, <2>1, <3>1 DEF KeepsEqual
    <2> QED BY <2>1
<1>3. Nat \subseteq Same
    <2> HIDE DEF Same
    <2> QED BY <1>1, <1>2, Inductive
<1> QED BY <1>3

-----------------------------------------------------------------------------
(* Attributes laid out in bytes. *)

Byte      == 0..ByteSize - 1
Attribute == [type : Type, value : Value]

(* Attribute a is written in b behind its first p bytes.                   *)
Written(b, p, a) ==
    /\ b[p + 1] = a.type /\ b[p + 2] = Len(a.value) + 2
    /\ \A k \in 1..Len(a.value) : b[p + 2 + k] = a.value[k]

(* n attributes lie one behind the other in x bytes: the i-th begins behind *)
(* P[i] of them, and the end is that of the last one.                      *)
Places(P, n, x) ==
    /\ P[1] = 0 /\ P[n + 1] = x
    /\ \A i \in 1..(n + 1) : P[i] \in Nat
    /\ \A i, j \in 1..(n + 1) : i <= j => P[i] + (j - i) <= P[j]

(* The bytes b are the attributes of L, at the places P.                   *)
Laid(b, L, P) ==
    /\ b \in Seq(Byte) /\ L \in Seq(Attribute)
    /\ Places(P, Len(L), Len(b))
    /\ \A i \in 1..Len(L) : Written(b, P[i], L[i]) /\ P[i + 1] = P[i] + 2 + Len(L[i].value)

Encodes(b, L) == \E P : Laid(b, L, P)

LEMMA ValueType ==
    ASSUME NEW v \in Value
    PROVE  /\ v \in Seq(Byte) /\ Len(v) \in Nat /\ Len(v) + 2 < ByteSize
           /\ \A k \in 1..Len(v) : v[k] \in Byte
BY PacketAssumption DEF Byte

LEMMA AttributeType ==
    ASSUME NEW L \in Seq(Attribute), NEW i \in 1..Len(L)
    PROVE  /\ L[i].type \in Type /\ L[i].value \in Value /\ L[i].type \in Byte
           /\ L[i] = [type |-> L[i].type, value |-> L[i].value]
<1>1. L[i] \in Attribute
    BY ElementOfSeq
<1> QED BY <1>1, PacketAssumption DEF Attribute, Byte

LEMMA PlacesGrow ==
    ASSUME NEW P, NEW n \in Nat, NEW x \in Nat, Places(P, n, x)
    PROVE  /\ P[1] = 0 /\ P[n + 1] = x
           /\ \A i \in 1..(n + 1) : P[i] \in Nat /\ P[i] <= x /\ i - 1 <= P[i]
           /\ \A i \in 1..n : i + 1 \in 1..(n + 1) /\ i \in 1..(n + 1)
           /\ n <= x
<1>1. n + 1 \in 1..(n + 1) /\ 1 \in 1..(n + 1)
    OBVIOUS
<1>2. P[1] = 0 /\ P[n + 1] = x
    BY DEF Places
<1>3. ASSUME NEW i \in 1..(n + 1)
      PROVE  P[i] \in Nat /\ P[i] <= x /\ i - 1 <= P[i]
    <2>1. P[i] \in Nat
        BY DEF Places
    <2>2. P[i] + ((n + 1) - i) <= P[n + 1] /\ P[1] + (i - 1) <= P[i]
        BY <1>1 DEF Places
    <2> QED BY <1>2, <2>1, <2>2
<1> QED BY <1>1, <1>2, <1>3

LEMMA LaidTypes ==
    ASSUME NEW b, NEW L, NEW P, Laid(b, L, P)
    PROVE  /\ b \in Seq(Byte) /\ L \in Seq(Attribute)
           /\ Len(b) \in Nat /\ Len(L) \in Nat
           /\ Places(P, Len(L), Len(b))
           /\ \A i \in 1..Len(b) : b[i] \in Byte
<1>1. b \in Seq(Byte) /\ L \in Seq(Attribute) /\ Places(P, Len(L), Len(b))
    BY DEF Laid
<1>2. \A i \in 1..Len(b) : b[i] \in Byte
    BY <1>1, ElementOfSeq
<1> QED BY <1>1, <1>2

LEMMA LaidAt ==
    ASSUME NEW b, NEW L, NEW P, Laid(b, L, P), NEW i \in 1..Len(L)
    PROVE  /\ Written(b, P[i], L[i]) /\ P[i + 1] = P[i] + 2 + Len(L[i].value)
           /\ P[i] \in Nat /\ P[i + 1] \in Nat /\ P[i] + 2 + Len(L[i].value) <= Len(b)
           /\ L[i].value \in Value /\ L[i].type \in Type /\ Len(L[i].value) \in Nat
           /\ L[i] = [type |-> L[i].type, value |-> L[i].value]
<1>1. L \in Seq(Attribute) /\ Len(L) \in Nat /\ Len(b) \in Nat /\ Places(P, Len(L), Len(b))
    BY LaidTypes
<1>2. i \in 1..(Len(L) + 1) /\ i + 1 \in 1..(Len(L) + 1)
    BY <1>1
<1>3. P[i] \in Nat /\ P[i + 1] \in Nat /\ P[i + 1] <= Len(b)
    BY <1>1, <1>2, PlacesGrow
<1>4. Written(b, P[i], L[i]) /\ P[i + 1] = P[i] + 2 + Len(L[i].value)
    BY DEF Laid
<1>5. L[i].value \in Value /\ L[i].type \in Type /\ L[i] = [type |-> L[i].type, value |-> L[i].value]
    BY <1>1, AttributeType
<1>6. Len(L[i].value) \in Nat
    BY <1>5, ValueType
<1> QED BY <1>3, <1>4, <1>5, <1>6

(* The i-th attribute lies behind p bytes, and its value has k of them.     *)
Lies(b, L, P, i, p, k) ==
    /\ P[i] = p /\ P[i + 1] = p + 2 + k /\ p + 2 + k <= Len(b)
    /\ Len(L[i].value) = k /\ Written(b, p, L[i])

LEMMA LaidLies ==
    ASSUME NEW b, NEW L, NEW P, Laid(b, L, P), NEW i \in 1..Len(L)
    PROVE  \E p, k \in Nat : Lies(b, L, P, i, p, k)
BY LaidAt DEF Lies

LEMMA NothingIsLaid == Encodes(<<>>, <<>>)
<1> DEFINE P == [i \in 1..1 |-> 0]
<1>1. Len(<<>>) = 0 /\ <<>> \in Seq(Byte) /\ <<>> \in Seq(Attribute)
    OBVIOUS
<1>2. P[1] = 0
    OBVIOUS
<1> HIDE DEF P
<1>3. Places(P, 0, 0)
    BY <1>2 DEF Places
<1>4. Laid(<<>>, <<>>, P)
    BY <1>1, <1>3 DEF Laid
<1> QED BY <1>4 DEF Encodes

(* One attribute.                                                          *)
LEMMA EncodedIsLaid ==
    ASSUME NEW t \in Type, NEW v \in Value
    PROVE  /\ Encodes(Encoded(t, v), <<[type |-> t, value |-> v]>>)
           /\ Encoded(t, v) \in Seq(Byte)
           /\ Encoded(t, v) = <<t, Len(v) + 2>> \o v
<1> DEFINE a == [type |-> t, value |-> v]
           P == [i \in 1..2 |-> IF i = 1 THEN 0 ELSE Len(v) + 2]
           b == <<t, Len(v) + 2>> \o v
<1>0. v \in Seq(Byte) /\ Len(v) \in Nat /\ Len(v) + 2 < ByteSize /\ t \in Byte
    BY ValueType, PacketAssumption DEF Byte
<1>1. (Len(v) + 2) % ByteSize = Len(v) + 2
    BY <1>0, PacketAssumption
<1>2. Encoded(t, v) = b
    BY <1>1 DEF Encoded
<1>3. Len(v) + 2 \in Byte
    BY <1>0, PacketAssumption DEF Byte
<1>4. <<t, Len(v) + 2>> \in Seq(Byte) /\ Len(<<t, Len(v) + 2>>) = 2
    BY <1>0, <1>3
<1>5. /\ b \in Seq(Byte) /\ Len(b) = Len(v) + 2
      /\ b[1] = t /\ b[2] = Len(v) + 2
      /\ \A k \in 1..Len(v) : b[2 + k] = v[k]
    <2>1. /\ b \in Seq(Byte) /\ Len(b) = 2 + Len(v)
          /\ \A i \in 1..(2 + Len(v)) : b[i] = IF i <= 2 THEN <<t, Len(v) + 2>>[i] ELSE v[i - 2]
        BY <1>0, <1>4, ConcatProperties
    <2> HIDE DEF b
    <2>2. b[1] = t /\ b[2] = Len(v) + 2
        BY <1>0, <2>1
    <2>3. \A k \in 1..Len(v) : b[2 + k] = v[k]
        BY <1>0, <2>1
    <2> QED BY <1>0, <2>1, <2>2, <2>3
<1>6. Laid(b, <<a>>, P)
    <2> HIDE DEF b
    <2>1. <<a>> \in Seq(Attribute) /\ Len(<<a>>) = 1 /\ <<a>>[1] = a
        BY DEF Attribute
    <2>2. P[1] = 0 /\ P[2] = Len(v) + 2
        BY <1>0, <1>5
    <2>3. Written(b, P[1], a)
        BY <1>0, <1>5, <2>2 DEF Written
    <2> HIDE DEF P
    <2>4. Places(P, 1, Len(v) + 2)
        <3>1. \A i \in 1..(1 + 1) : i = 1 \/ i = 2
            OBVIOUS
        <3>2. \A i \in 1..(1 + 1) : P[i] \in Nat
            BY <1>0, <2>2, <3>1
        <3>3. ASSUME NEW i \in 1..(1 + 1), NEW j \in 1..(1 + 1), i <= j
              PROVE  P[i] + (j - i) <= P[j]
            <4>1. CASE i = j
                BY <3>2, <4>1
            <4>2. CASE i = 1 /\ j = 2
                BY <1>0, <2>2, <4>2
            <4> QED BY <3>1, <3>3, <4>1, <4>2
        <3> QED BY <2>2, <3>2, <3>3 DEF Places
    <2> QED BY <1>0, <1>5, <2>1, <2>2, <2>3, <2>4 DEF Laid
<1> QED BY <1>2, <1>5, <1>6 DEF Encodes

(* Places that are joined.                                                 *)
Joined(P, Q, R, n, m, x) ==
    /\ \A i \in 1..(n + 1) : R[i] = P[i]
    /\ \A h \in 1..m : R[n + h + 1] = x + Q[h + 1]

LEMMA JoinedPlaces ==
    ASSUME NEW n \in Nat, NEW m \in Nat, NEW x \in Nat, NEW y \in Nat,
           NEW P, NEW Q, NEW R, Places(P, n, x), Places(Q, m, y), Joined(P, Q, R, n, m, x)
    PROVE  /\ \A i \in 1..(n + 1) : R[i] = P[i]
           /\ \A h \in 1..(m + 1) : R[n + h] = x + Q[h]
           /\ Places(R, n + m, x + y)
<1>0. /\ \A i \in 1..(n + 1) : R[i] = P[i]
      /\ \A h \in 1..m : R[n + h + 1] = x + Q[h + 1]
    BY DEF Joined
<1>1. P[1] = 0 /\ P[n + 1] = x /\ \A i \in 1..(n + 1) : P[i] \in Nat
    BY DEF Places
<1>2. Q[1] = 0 /\ Q[m + 1] = y /\ \A i \in 1..(m + 1) : Q[i] \in Nat
    BY DEF Places
<1>3. ASSUME NEW h \in 1..(m + 1)
      PROVE  R[n + h] = x + Q[h]
    <2>1. CASE h = 1
        <3>1. n + h = n + 1 /\ n + 1 \in 1..(n + 1)
            BY <2>1
        <3> QED BY <1>0, <1>1, <1>2, <2>1, <3>1
    <2>2. CASE h # 1
        <3>1. h - 1 \in 1..m /\ n + (h - 1) + 1 = n + h /\ (h - 1) + 1 = h
            BY <2>2
        <3>2. R[n + (h - 1) + 1] = x + Q[(h - 1) + 1]
            BY <1>0, <3>1
        <3> QED BY <3>1, <3>2
    <2> QED BY <2>1, <2>2
<1>4. ASSUME NEW i \in 1..(n + m + 1)
      PROVE  i \in 1..(n + 1) \/ \E h \in 1..(m + 1) : i = n + h
    <2>1. CASE i <= n + 1
        BY <2>1
    <2>2. CASE i > n + 1
        <3>1. i - n \in 1..(m + 1) /\ i = n + (i - n)
            BY <2>2
        <3> QED BY <3>1
    <2> QED BY <2>1, <2>2
<1>5. ASSUME NEW i \in 1..(n + m + 1)
      PROVE  R[i] \in Nat
    <2>1. CASE i \in 1..(n + 1)
        BY <1>0, <1>1, <2>1
    <2>2. ASSUME NEW h \in 1..(m + 1), i = n + h
          PROVE  R[i] \in Nat
        <3>1. R[i] = x + Q[h] /\ Q[h] \in Nat
            BY <1>2, <1>3, <2>2
        <3> QED BY <3>1
    <2> QED BY <1>4, <2>1, <2>2
<1>6. ASSUME NEW i \in 1..(n + m + 1), NEW j \in 1..(n + m + 1), i <= j
      PROVE  R[i] + (j - i) <= R[j]
    <2>1. CASE j \in 1..(n + 1)
        <3>1. i \in 1..(n + 1) /\ P[i] + (j - i) <= P[j]
            <4>1. i \in 1..(n + 1)
                BY <1>6, <2>1
            <4> QED BY <1>6, <2>1, <4>1 DEF Places
        <3> QED BY <1>0, <2>1, <3>1
    <2>2. ASSUME i \in 1..(n + 1), NEW k \in 1..(m + 1), j = n + k
          PROVE  R[i] + (j - i) <= R[j]
        <3>1. P[i] + ((n + 1) - i) <= P[n + 1]
            <4>1. n + 1 \in 1..(n + 1) /\ i <= n + 1
                BY <2>2
            <4> QED BY <2>2, <4>1 DEF Places
        <3>2. Q[1] + (k - 1) <= Q[k]
            BY DEF Places
        <3>3. R[i] = P[i] /\ R[j] = x + Q[k] /\ P[i] \in Nat /\ Q[k] \in Nat
            BY <1>0, <1>1, <1>2, <1>3, <2>2
        <3> QED BY <1>1, <1>2, <2>2, <3>1, <3>2, <3>3
    <2>3. ASSUME NEW h \in 1..(m + 1), i = n + h, NEW k \in 1..(m + 1), j = n + k
          PROVE  R[i] + (j - i) <= R[j]
        <3>1. h <= k /\ j - i = k - h
            BY <1>6, <2>3
        <3>2. Q[h] + (k - h) <= Q[k]
            BY <3>1 DEF Places
        <3>3. R[i] = x + Q[h] /\ R[j] = x + Q[k] /\ Q[h] \in Nat /\ Q[k] \in Nat
            BY <1>2, <1>3, <2>3
        <3> QED BY <3>1, <3>2, <3>3
    <2>4. ASSUME NEW h \in 1..(m + 1), i = n + h, j \in 1..(n + 1)
          PROVE  R[i] + (j - i) <= R[j]
        <3>1. i = n + 1 /\ j = n + 1
            BY <1>6, <2>4
        <3>2. R[n + 1] \in Nat
            BY <1>5
        <3> QED BY <3>1, <3>2
    <2> QED BY <1>4, <2>1, <2>2, <2>3
<1>7. R[1] = 0 /\ R[n + m + 1] = x + y
    <2>1. 1 \in 1..(n + 1) /\ m + 1 \in 1..(m + 1) /\ n + (m + 1) = n + m + 1
        OBVIOUS
    <2>2. R[1] = P[1] /\ R[n + (m + 1)] = x + Q[m + 1]
        BY <1>0, <1>3, <2>1
    <2> QED BY <1>1, <1>2, <2>1, <2>2
<1> QED BY <1>0, <1>3, <1>5, <1>6, <1>7 DEF Places

(* The bytes of an attribute are copied.                                   *)
Copied(b, p, d, q, n) == \A k \in 1..n : d[q + k] = b[p + k]

LEMMA WrittenElsewhere ==
    ASSUME NEW b, NEW d, NEW p \in Nat, NEW q \in Nat, NEW a, NEW l \in Nat,
           Written(b, p, a), Len(a.value) = l,
           Copied(b, p, d, q, 2 + l)
    PROVE  Written(d, q, a)
<1>0. \A k \in 1..(2 + l) : d[q + k] = b[p + k]
    BY DEF Copied
<1>1. ASSUME NEW k \in 1..l
      PROVE  d[q + (2 + k)] = b[p + (2 + k)]
    <2>1. 2 + k \in 1..(2 + l)
        OBVIOUS
    <2> QED BY <1>0, <2>1
<1>2. \A k \in 1..l : q + (2 + k) = q + 2 + k /\ p + (2 + k) = p + 2 + k
    OBVIOUS
<1>3. d[q + 1] = b[p + 1] /\ d[q + 2] = b[p + 2]
    <2>1. 1 \in 1..(2 + l) /\ 2 \in 1..(2 + l)
        OBVIOUS
    <2> QED BY <1>0, <2>1
<1> QED BY <1>1, <1>2, <1>3 DEF Written

(* Bytes that are joined encode the lists that are joined.                 *)
LEMMA JoinIsLaid ==
    ASSUME NEW b, NEW c, NEW L, NEW M, Encodes(b, L), Encodes(c, M)
    PROVE  Encodes(b \o c, L \o M)
<1>1. PICK P : Laid(b, L, P)
    BY DEF Encodes
<1>2. PICK Q : Laid(c, M, Q)
    BY DEF Encodes
<1>3. PICK n, m, x, y : n = Len(L) /\ m = Len(M) /\ x = Len(b) /\ y = Len(c)
    OBVIOUS
<1>4. /\ b \in Seq(Byte) /\ c \in Seq(Byte) /\ L \in Seq(Attribute) /\ M \in Seq(Attribute)
      /\ n \in Nat /\ m \in Nat /\ x \in Nat /\ y \in Nat
      /\ Places(P, n, x) /\ Places(Q, m, y)
    BY <1>1, <1>2, <1>3, LaidTypes
<1>5. PICK d : d = b \o c
    OBVIOUS
<1>6. PICK N : N = L \o M
    OBVIOUS
<1>7. /\ d \in Seq(Byte) /\ Len(d) = x + y
      /\ \A i \in 1..(x + y) : d[i] = IF i <= x THEN b[i] ELSE c[i - x]
    BY <1>3, <1>4, <1>5, ConcatProperties
<1>8. /\ N \in Seq(Attribute) /\ Len(N) = n + m
      /\ \A i \in 1..(n + m) : N[i] = IF i <= n THEN L[i] ELSE M[i - n]
    BY <1>3, <1>4, <1>6, ConcatProperties
<1>9. PICK R : R = [i \in 1..(n + m + 1) |-> IF i <= n + 1 THEN P[i] ELSE x + Q[i - n]]
    OBVIOUS
<1>10. /\ \A i \in 1..(n + 1) : R[i] = P[i]
       /\ \A h \in 1..m : R[n + h + 1] = x + Q[h + 1]
    <2>1. ASSUME NEW i \in 1..(n + 1)
          PROVE  R[i] = P[i]
        <3>1. i \in 1..(n + m + 1) /\ i <= n + 1
            BY <1>4
        <3> QED BY <1>9, <3>1
    <2>2. ASSUME NEW h \in 1..m
          PROVE  R[n + h + 1] = x + Q[h + 1]
        <3>1. /\ n + h + 1 \in 1..(n + m + 1) /\ ~(n + h + 1 <= n + 1)
              /\ (n + h + 1) - n = h + 1
            BY <1>4
        <3> QED BY <1>9, <3>1
    <2> QED BY <2>1, <2>2
<1>11. /\ \A h \in 1..(m + 1) : R[n + h] = x + Q[h]
       /\ Places(R, n + m, x + y)
    <2>1. Joined(P, Q, R, n, m, x)
        BY <1>10 DEF Joined
    <2> QED BY <1>4, <2>1, JoinedPlaces
<1>12. ASSUME NEW i \in 1..(n + m)
       PROVE  Written(d, R[i], N[i]) /\ R[i + 1] = R[i] + 2 + Len(N[i].value)
    <2>1. CASE i <= n
        <3>1. i \in 1..n /\ i \in 1..(n + 1) /\ i + 1 \in 1..(n + 1)
            BY <1>4, <2>1
        <3>2. N[i] = L[i] /\ R[i] = P[i] /\ R[i + 1] = P[i + 1]
            BY <1>8, <1>10, <2>1, <3>1
        <3>3. i \in 1..Len(L)
            BY <1>3, <3>1
        <3>4. PICK p \in Nat, l \in Nat : Lies(b, L, P, i, p, l)
            BY <1>1, <3>3, LaidLies
        <3>5. /\ P[i] = p /\ P[i + 1] = p + 2 + l /\ p + 2 + l <= x
              /\ Len(L[i].value) = l /\ Written(b, p, L[i])
            BY <1>3, <3>4 DEF Lies
        <3>6. ASSUME NEW k \in 1..(2 + l)
              PROVE  d[p + k] = b[p + k]
            <4>1. p + k \in 1..(x + y) /\ p + k <= x
                BY <1>4, <3>5
            <4> QED BY <1>7, <4>1
        <3>7. Written(d, p, L[i])
            <4>1. Copied(b, p, d, p, 2 + l)
                BY <3>6 DEF Copied
            <4> QED BY <3>5, <4>1, WrittenElsewhere
        <3> QED BY <3>2, <3>5, <3>7
    <2>2. CASE i > n
        <3>1. PICK h \in 1..m : i = n + h
            <4>1. i - n \in 1..m /\ i = n + (i - n)
                BY <1>4, <2>2
            <4> QED BY <4>1
        <3>2. h \in 1..(m + 1) /\ h + 1 \in 1..(m + 1) /\ n + (h + 1) = i + 1 /\ i - n = h
            BY <1>4, <3>1
        <3>3. N[i] = M[h] /\ R[i] = x + Q[h] /\ R[i + 1] = x + Q[h + 1]
            <4>1. N[i] = M[h]
                <5>1. N[i] = IF i <= n THEN L[i] ELSE M[i - n]
                    BY <1>8
                <5>2. ~(i <= n)
                    BY <1>4, <2>2
                <5> QED BY <3>2, <5>1, <5>2
            <4>2. R[n + h] = x + Q[h] /\ R[n + (h + 1)] = x + Q[h + 1]
                BY <1>11, <3>2
            <4> QED BY <3>1, <3>2, <4>1, <4>2
        <3>4. h \in 1..Len(M)
            BY <1>3, <3>1
        <3>5. PICK q \in Nat, l \in Nat : Lies(c, M, Q, h, q, l)
            BY <1>2, <3>4, LaidLies
        <3>6. /\ Q[h] = q /\ Q[h + 1] = q + 2 + l /\ q + 2 + l <= y
              /\ Len(M[h].value) = l /\ Written(c, q, M[h])
            BY <1>3, <3>5 DEF Lies
        <3>7. ASSUME NEW k \in 1..(2 + l)
              PROVE  d[(x + q) + k] = c[q + k]
            <4>1. /\ (x + q) + k \in 1..(x + y) /\ ~((x + q) + k <= x)
                  /\ ((x + q) + k) - x = q + k
                BY <1>4, <3>6
            <4> QED BY <1>7, <4>1
        <3>8. x + q \in Nat
            BY <1>4
        <3>9. Written(d, x + q, M[h])
            <4>1. Copied(c, q, d, x + q, 2 + l)
                BY <3>7 DEF Copied
            <4> QED BY <3>6, <3>8, <4>1, WrittenElsewhere
        <3>10. R[i] = x + q /\ R[i + 1] = (x + q) + 2 + l
            BY <1>4, <3>3, <3>6
        <3> QED BY <3>3, <3>6, <3>9, <3>10
    <2> QED BY <1>4, <2>1, <2>2
<1>13. Laid(d, N, R)
    <2>1. Places(R, Len(N), Len(d)) /\ \A i \in 1..Len(N) : i \in 1..(n + m)
        BY <1>7, <1>8, <1>11
    <2> QED BY <1>7, <1>8, <1>12, <2>1 DEF Laid
<1> QED BY <1>5, <1>6, <1>13 DEF Encodes

-----------------------------------------------------------------------------
(* Parts of the bytes. *)

Cut(s, m, n, c) == c = SubSeq(s, m + 1, m + n) /\ Len(c) = n /\ \A k \in 1..n : c[k] = s[m + k]

LEMMA CutExists ==
    ASSUME NEW S, NEW s \in Seq(S), NEW m \in Nat, NEW n \in Nat, m + n <= Len(s)
    PROVE  \E c \in Seq(S) : Cut(s, m, n, c)
<1> DEFINE c == SubSeq(s, m + 1, m + n)
<1>1. \A i \in (m + 1)..(m + n) : s[i] \in S
    BY ElementOfSeq
<1>2. /\ c \in Seq(S)
      /\ Len(c) = IF m + 1 <= m + n THEN (m + n) - (m + 1) + 1 ELSE 0
      /\ \A i \in 1..((m + n) - (m + 1) + 1) : c[i] = s[(m + 1) + i - 1]
    <2>1. m + 1 \in Int /\ m + n \in Int
        OBVIOUS
    <2> HIDE DEF c
    <2> QED BY <1>1, <2>1, SubSeqProperties DEF c
<1> HIDE DEF c
<1>3. Len(c) = n
    BY <1>2
<1>4. ASSUME NEW k \in 1..n
      PROVE  c[k] = s[m + k]
    <2>1. k \in 1..((m + n) - (m + 1) + 1) /\ (m + 1) + k - 1 = m + k
        OBVIOUS
    <2> QED BY <1>2, <2>1
<1> QED BY <1>2, <1>3, <1>4 DEF Cut, c

LEMMA UptoIsLaid ==
    ASSUME NEW b, NEW L, NEW P, Laid(b, L, P), NEW i \in Nat, i <= Len(L)
    PROVE  Encodes(SubSeq(b, 1, P[i + 1]), SubSeq(L, 1, i))
<1>1. PICK n, x : n = Len(L) /\ x = Len(b)
    OBVIOUS
<1>2. /\ b \in Seq(Byte) /\ L \in Seq(Attribute) /\ n \in Nat /\ x \in Nat
      /\ Places(P, n, x)
    BY <1>1, LaidTypes
<1>3. PICK y : y = P[i + 1]
    OBVIOUS
<1>4. i + 1 \in 1..(n + 1)
    BY <1>1, <1>2
<1>5. y \in Nat /\ y <= x
    BY <1>2, <1>3, <1>4, PlacesGrow
<1>6. PICK c \in Seq(Byte) : Cut(b, 0, y, c)
    BY <1>1, <1>2, <1>5, CutExists
<1>7. PICK M \in Seq(Attribute) : Cut(L, 0, i, M)
    BY <1>1, <1>2, CutExists
<1>8. /\ c = SubSeq(b, 1, P[i + 1]) /\ M = SubSeq(L, 1, i)
      /\ Len(c) = y /\ Len(M) = i
      /\ \A k \in 1..y : c[k] = b[k]
      /\ \A k \in 1..i : M[k] = L[k]
    <2>1. 0 + 1 = 1 /\ 0 + y = y /\ 0 + i = i /\ \A k \in Nat : 0 + k = k
        BY <1>5
    <2>2. /\ c = SubSeq(b, 0 + 1, 0 + y) /\ Len(c) = y
          /\ \A k \in 1..y : c[k] = b[0 + k]
        BY <1>6 DEF Cut
    <2>3. /\ M = SubSeq(L, 0 + 1, 0 + i) /\ Len(M) = i
          /\ \A k \in 1..i : M[k] = L[0 + k]
        BY <1>7 DEF Cut
    <2>4. (\A k \in 1..y : c[k] = b[k]) /\ (\A k \in 1..i : M[k] = L[k])
        BY <1>5, <2>2, <2>3
    <2> QED BY <1>3, <2>1, <2>2, <2>3, <2>4
<1>9. Places(P, i, y)
    <2>1. \A k \in 1..(i + 1) : k \in 1..(n + 1)
        BY <1>2, <1>4
    <2> QED BY <1>2, <1>3, <2>1 DEF Places
<1>10. ASSUME NEW j \in 1..i
       PROVE  Written(c, P[j], M[j]) /\ P[j + 1] = P[j] + 2 + Len(M[j].value)
    <2>1. j \in 1..Len(L) /\ j + 1 \in 1..(i + 1) /\ M[j] = L[j]
        BY <1>1, <1>2, <1>4, <1>8
    <2>2. PICK p \in Nat, l \in Nat : Lies(b, L, P, j, p, l)
        BY <2>1, LaidLies
    <2>3. /\ P[j] = p /\ P[j + 1] = p + 2 + l
          /\ Len(L[j].value) = l /\ Written(b, p, L[j])
        BY <2>2 DEF Lies
    <2>4. p + 2 + l <= y
        BY <1>5, <1>9, <2>1, <2>3, PlacesGrow
    <2>5. Copied(b, p, c, p, 2 + l)
        <3>1. ASSUME NEW k \in 1..(2 + l)
              PROVE  c[p + k] = b[p + k]
            <4>1. p + k \in 1..y
                BY <1>5, <2>4
            <4> QED BY <1>8, <4>1
        <3> QED BY <3>1 DEF Copied
    <2>6. Written(c, p, L[j])
        BY <2>3, <2>5, WrittenElsewhere
    <2> QED BY <2>1, <2>3, <2>6
<1>11. Laid(c, M, P)
    BY <1>8, <1>9, <1>10 DEF Laid
<1> QED BY <1>8, <1>11 DEF Encodes

LEMMA AfterIsLaid ==
    ASSUME NEW b, NEW L, NEW P, Laid(b, L, P), NEW i \in Nat, i <= Len(L)
    PROVE  Encodes(SubSeq(b, P[i + 1] + 1, Len(b)), SubSeq(L, i + 1, Len(L)))
<1>1. PICK n, x : n = Len(L) /\ x = Len(b)
    OBVIOUS
<1>2. /\ b \in Seq(Byte) /\ L \in Seq(Attribute) /\ n \in Nat /\ x \in Nat
      /\ Places(P, n, x)
    BY <1>1, LaidTypes
<1>3. PICK y : y = P[i + 1]
    OBVIOUS
<1>4. i + 1 \in 1..(n + 1) /\ i <= n
    BY <1>1, <1>2
<1>5. y \in Nat /\ y <= x
    BY <1>2, <1>3, <1>4, PlacesGrow
<1>6. PICK m \in Nat, z \in Nat : n = i + m /\ x = y + z
    <2>1. n - i \in Nat /\ x - y \in Nat /\ n = i + (n - i) /\ x = y + (x - y)
        BY <1>2, <1>4, <1>5
    <2> QED BY <2>1
<1>7. PICK c \in Seq(Byte) : Cut(b, y, z, c)
    <2>1. y + z <= Len(b)
        BY <1>1, <1>2, <1>6
    <2> QED BY <1>2, <1>5, <2>1, CutExists
<1>8. PICK M \in Seq(Attribute) : Cut(L, i, m, M)
    <2>1. i + m <= Len(L)
        BY <1>1, <1>2, <1>6
    <2> QED BY <1>2, <2>1, CutExists
<1>9. /\ c = SubSeq(b, y + 1, Len(b)) /\ Len(c) = z /\ \A k \in 1..z : c[k] = b[y + k]
      /\ M = SubSeq(L, i + 1, Len(L)) /\ Len(M) = m /\ \A k \in 1..m : M[k] = L[i + k]
    BY <1>1, <1>6, <1>7, <1>8 DEF Cut
<1>10. PICK Q : Q = [j \in 1..(m + 1) |-> P[i + j] - y]
    OBVIOUS
<1>11. ASSUME NEW j \in 1..(m + 1)
       PROVE  i + j \in 1..(n + 1) /\ P[i + j] \in Nat /\ y <= P[i + j] /\ Q[j] = P[i + j] - y
    <2>1. i + j \in 1..(n + 1) /\ i + 1 <= i + j
        BY <1>6
    <2>2. P[i + 1] + ((i + j) - (i + 1)) <= P[i + j] /\ P[i + j] \in Nat
        BY <1>2, <1>4, <2>1 DEF Places
    <2>3. y <= P[i + j]
        BY <1>3, <1>5, <2>2
    <2> QED BY <1>10, <2>1, <2>2, <2>3
<1>12. Places(Q, m, z)
    <2>1. Q[1] = 0
        BY <1>3, <1>5, <1>11
    <2>2. Q[m + 1] = z
        <3>1. m + 1 \in 1..(m + 1) /\ i + (m + 1) = n + 1
            BY <1>6
        <3>2. P[n + 1] = x
            BY <1>2 DEF Places
        <3> QED BY <1>5, <1>6, <1>11, <3>1, <3>2
    <2>3. ASSUME NEW j \in 1..(m + 1)
          PROVE  Q[j] \in Nat
        BY <1>5, <1>11
    <2>4. ASSUME NEW j \in 1..(m + 1), NEW k \in 1..(m + 1), j <= k
          PROVE  Q[j] + (k - j) <= Q[k]
        <3>1. i + j \in 1..(n + 1) /\ i + k \in 1..(n + 1) /\ i + j <= i + k
            BY <1>6, <2>4
        <3>2. P[i + j] + ((i + k) - (i + j)) <= P[i + k]
            BY <1>2, <3>1 DEF Places
        <3>3. /\ P[i + j] \in Nat /\ P[i + k] \in Nat
              /\ Q[j] = P[i + j] - y /\ Q[k] = P[i + k] - y
            BY <1>11
        <3> QED BY <1>5, <3>2, <3>3
    <2> QED BY <2>1, <2>2, <2>3, <2>4 DEF Places
<1>13. ASSUME NEW j \in 1..m
       PROVE  Written(c, Q[j], M[j]) /\ Q[j + 1] = Q[j] + 2 + Len(M[j].value)
    <2>1. i + j \in 1..Len(L) /\ M[j] = L[i + j] /\ j \in 1..(m + 1) /\ j + 1 \in 1..(m + 1)
        <3>1. M[j] = L[i + j]
            BY <1>9
        <3>2. i + j \in 1..n /\ j \in 1..(m + 1) /\ j + 1 \in 1..(m + 1)
            BY <1>6
        <3> QED BY <1>1, <3>1, <3>2
    <2>2. PICK p \in Nat, l \in Nat : Lies(b, L, P, i + j, p, l)
        BY <2>1, LaidLies
    <2>3. /\ P[i + j] = p /\ P[(i + j) + 1] = p + 2 + l /\ p + 2 + l <= x
          /\ Len(L[i + j].value) = l /\ Written(b, p, L[i + j])
        BY <1>1, <2>2 DEF Lies
    <2>4. PICK q \in Nat : p = y + q
        <3>1. p - y \in Nat /\ p = y + (p - y)
            BY <1>5, <1>11, <2>1, <2>3
        <3> QED BY <3>1
    <2>5. Q[j] = q /\ Q[j + 1] = q + 2 + l
        <3>1. Q[j] = P[i + j] - y /\ Q[j + 1] = P[i + (j + 1)] - y
            BY <1>11, <2>1
        <3>2. i + (j + 1) = (i + j) + 1
            OBVIOUS
        <3> QED BY <1>5, <2>3, <2>4, <3>1, <3>2
    <2>6. Copied(b, p, c, q, 2 + l)
        <3>1. ASSUME NEW k \in 1..(2 + l)
              PROVE  c[q + k] = b[p + k]
            <4>1. q + k \in 1..z /\ y + (q + k) = p + k
                BY <1>5, <1>6, <2>3, <2>4
            <4> QED BY <1>9, <4>1
        <3> QED BY <3>1 DEF Copied
    <2>7. Written(c, q, L[i + j])
        BY <2>3, <2>6, WrittenElsewhere
    <2> QED BY <2>1, <2>3, <2>5, <2>7
<1>14. Laid(c, M, Q)
    BY <1>9, <1>12, <1>13 DEF Laid
<1> QED BY <1>3, <1>9, <1>14 DEF Encodes

-----------------------------------------------------------------------------
(* The loops. *)

LEMMA LoopIs ==
    ASSUME NEW N \in Nat, NEW base, NEW Round, NEW F,
           F = [x \in 0..N |-> IF x = 0 THEN base ELSE Round[F[x - 1]]]
    PROVE  (CHOOSE G : G = [x \in 0..N |-> IF x = 0 THEN base ELSE Round[G[x - 1]]]) = F
<1>1. PICK G : G = (CHOOSE H : H = [x \in 0..N |-> IF x = 0 THEN base ELSE Round[H[x - 1]]])
    OBVIOUS
<1>2. G = [x \in 0..N |-> IF x = 0 THEN base ELSE Round[G[x - 1]]]
    BY <1>1, Zenon
<1>3. F[0] = base /\ G[0] = base
    BY <1>2
<1>4. \A x \in 1..N : F[x] = Round[F[x - 1]] /\ G[x] = Round[G[x - 1]]
    BY <1>2
<1>5. \A x \in 0..N : F[x] = G[x]
    <2>1. ASSUME NEW x \in 1..N, F[x - 1] = G[x - 1]
          PROVE  F[x] = G[x]
        <3>1. F[x] = Round[F[x - 1]] /\ G[x] = Round[G[x - 1]]
            BY <1>4
        <3>2. PICK u : u = F[x - 1]
            OBVIOUS
        <3>3. F[x] = Round[u]
            BY <3>1, <3>2
        <3>4. G[x] = Round[u]
            BY <2>1, <3>1, <3>2
        <3> QED BY <3>3, <3>4
    <2>2. KeepsEqual(F, G, N)
        BY <2>1 DEF KeepsEqual
    <2> QED BY <1>3, <2>2, IterationIsUnique
<1>6. F = G
    <2>1. F = [x \in 0..N |-> F[x]] /\ G = [x \in 0..N |-> G[x]]
        BY <1>2
    <2> QED BY <1>5, <2>1
<1> QED BY <1>1, <1>6

LEMMA Remainders ==
    ASSUME NEW l \in Nat, l + 2 < ByteSize, NEW p \in Nat
    PROVE  /\ ((l + 2) + Word - 2) % Word = l
           /\ (p + l) % Word <= p + l
<1>1. Word \in Nat /\ l < Word /\ Word > 0
    BY PacketAssumption
<1>2. ((l + 2) + Word - 2) = l + Word
    BY <1>1
<1>3. (l + Word) % Word = l
    BY <1>1
<1>4. (p + l) % Word <= p + l
    BY <1>1
<1> QED BY <1>2, <1>3, <1>4

(* What ParseRadius puts into the index: k attributes.                     *)
Entry(L, P, i) == [type |-> L[i].type, pos |-> P[i] + 2, len |-> Len(L[i].value)]

Entries(L, P, k) == [i \in 1..k |-> Entry(L, P, i)]

Fewer(n, k) == IF n <= k THEN n ELSE k

EntryType == [type: Nat, pos: Nat, len: Nat]

LEMMA EntriesType ==
    ASSUME NEW b, NEW L, NEW P, Laid(b, L, P), NEW k \in 0..Len(L)
    PROVE  /\ Entries(L, P, k) \in Seq(EntryType) /\ Len(Entries(L, P, k)) = k
           /\ \A i \in 1..k : Entries(L, P, k)[i] = Entry(L, P, i) /\ Entry(L, P, i) \in EntryType
<1>0. Len(L) \in Nat
    BY LaidTypes
<1>1. ASSUME NEW i \in 1..k
      PROVE  Entry(L, P, i) \in EntryType
    <2>1. i \in 1..Len(L)
        BY <1>0
    <2>2. P[i] \in Nat /\ L[i].type \in Type /\ Len(L[i].value) \in Nat
        BY <2>1, LaidAt
    <2>3. L[i].type \in Nat
        <3>1. L[i].type \in Byte
            BY <2>1, AttributeType, LaidTypes
        <3>2. Byte \subseteq Nat
            BY PacketAssumption DEF Byte
        <3> QED BY <3>1, <3>2
    <2> QED BY <2>2, <2>3 DEF Entry, EntryType
<1>2. Entries(L, P, k) \in [1..k -> EntryType]
    BY <1>1 DEF Entries
<1>3. k \in Nat
    BY <1>0
<1>4. \A i \in 1..k : Entries(L, P, k)[i] = Entry(L, P, i)
    BY DEF Entries
<1>5. Entries(L, P, k) \in Seq(EntryType) /\ Len(Entries(L, P, k)) = k
    BY <1>2, <1>3
<1> QED BY <1>1, <1>4, <1>5

LEMMA EntriesGrow ==
    ASSUME NEW b, NEW L, NEW P, Laid(b, L, P), NEW k \in Nat, k + 1 <= Len(L)
    PROVE  Append(Entries(L, P, k), Entry(L, P, k + 1)) = Entries(L, P, k + 1)
<1>0. Len(L) \in Nat
    BY LaidTypes
<1>1. k \in 0..Len(L) /\ k + 1 \in 0..Len(L)
    BY <1>0
<1>2. PICK s, t, e : s = Entries(L, P, k) /\ t = Entries(L, P, k + 1) /\ e = Entry(L, P, k + 1)
    OBVIOUS
<1>3. /\ s \in Seq(EntryType) /\ Len(s) = k /\ t \in Seq(EntryType) /\ Len(t) = k + 1
      /\ e \in EntryType
      /\ \A i \in 1..k : s[i] = t[i]
      /\ t[k + 1] = e
    <2>1. /\ s \in Seq(EntryType) /\ Len(s) = k
          /\ \A i \in 1..k : s[i] = Entry(L, P, i)
        BY <1>1, <1>2, EntriesType
    <2>2. /\ t \in Seq(EntryType) /\ Len(t) = k + 1
          /\ \A i \in 1..(k + 1) : t[i] = Entry(L, P, i) /\ Entry(L, P, i) \in EntryType
        BY <1>1, <1>2, EntriesType
    <2>3. k + 1 \in 1..(k + 1) /\ \A i \in 1..k : i \in 1..(k + 1)
        OBVIOUS
    <2> QED BY <1>2, <2>1, <2>2, <2>3
<1>4. /\ Append(s, e) \in Seq(EntryType) /\ Len(Append(s, e)) = k + 1
      /\ \A i \in 1..k : Append(s, e)[i] = s[i]
      /\ Append(s, e)[k + 1] = e
    BY <1>3, AppendProperties
<1>5. \A i \in 1..(k + 1) : Append(s, e)[i] = t[i]
    <2>1. \A i \in 1..(k + 1) : i \in 1..k \/ i = k + 1
        OBVIOUS
    <2> QED BY <1>3, <1>4, <2>1
<1>6. Append(s, e) = t
    BY <1>3, <1>4, <1>5, SeqEqual
<1> QED BY <1>2, <1>6

(* ParseRadius finds the attributes, as far as it looks.                   *)
LEMMA ParseRadiusIs ==
    ASSUME NEW b, NEW L, NEW P, Laid(b, L, P)
    PROVE  ParseRadius(b) = Entries(L, P, Fewer(Len(L), MaxAttributes))
<1> DEFINE State == [pos: Nat, Attrs: Seq(EntryType)]
           Size  == Len(b)
           Attr(pos) == [type |-> b[pos + 1], pos |-> pos + 2,
                         len |-> (b[pos + 2] + Word - 2) % Word]
           Round == [s \in [pos: Nat, Attrs: Seq([type: Nat, pos: Nat, len: Nat])] |->
               IF s.pos >= Size THEN s
               ELSE IF (s.pos + Attr(s.pos).len) % Word > Size THEN [s EXCEPT !.pos = Size]
               ELSE [pos   |-> IF b[s.pos + 2] = 0 THEN Size ELSE s.pos + b[s.pos + 2],
                     Attrs |-> Append(s.Attrs, Attr(s.pos))]]
           base  == [pos |-> 0, Attrs |-> <<>>]
           Loop  == CHOOSE Loop : Loop = [x \in 0..MaxAttributes |->
                        IF x = 0 THEN base ELSE Round[Loop[x - 1]]]
<1>1. ParseRadius(b) = Loop[MaxAttributes].Attrs
    BY DEF ParseRadius
<1>2. PICK n, z : n = Len(L) /\ z = Len(b)
    OBVIOUS
<1>3. n \in Nat /\ z \in Nat /\ Places(P, n, z) /\ MaxAttributes \in Nat
    BY <1>2, LaidTypes, PacketAssumption
<1>4. PICK F : F = [x \in 0..MaxAttributes |->
                       [pos |-> P[Fewer(x, n) + 1], Attrs |-> Entries(L, P, Fewer(x, n))]]
    OBVIOUS
<1>5. ASSUME NEW x \in 0..MaxAttributes
      PROVE  /\ Fewer(x, n) \in Nat /\ Fewer(x, n) \in 0..Len(L) /\ Fewer(x, n) + 1 \in 1..(n + 1)
             /\ F[x] = [pos |-> P[Fewer(x, n) + 1], Attrs |-> Entries(L, P, Fewer(x, n))]
             /\ P[Fewer(x, n) + 1] \in Nat
    <2>1. /\ Fewer(x, n) \in Nat /\ Fewer(x, n) \in 0..Len(L) /\ Fewer(x, n) + 1 \in 1..(n + 1)
        BY <1>2, <1>3 DEF Fewer
    <2>2. P[Fewer(x, n) + 1] \in Nat
        BY <1>3, <2>1, PlacesGrow
    <2> QED BY <1>4, <2>1, <2>2
<1>6. F[0] = base
    <2>1. 0 \in 0..MaxAttributes /\ Fewer(0, n) = 0 /\ P[1] = 0
        BY <1>3, PlacesGrow DEF Fewer
    <2>2. Entries(L, P, 0) = <<>>
        <3>1. 0 \in 0..Len(L)
            BY <1>2, <1>3
        <3>2. Entries(L, P, 0) \in Seq(EntryType) /\ Len(Entries(L, P, 0)) = 0
            BY <3>1, EntriesType
        <3> QED BY <3>2, EmptySeq
    <2>3. F[0] = [pos |-> P[0 + 1], Attrs |-> Entries(L, P, 0)]
        BY <1>5, <2>1
    <2> QED BY <2>1, <2>2, <2>3
<1>7. ASSUME NEW x \in 1..MaxAttributes
      PROVE  F[x] = Round[F[x - 1]]
    <2>1. x - 1 \in 0..MaxAttributes /\ x \in 0..MaxAttributes
        BY <1>3
    <2>2. PICK k \in Nat : k = Fewer(x - 1, n)
        BY <1>5, <2>1
    <2>3. /\ k \in 0..Len(L) /\ P[k + 1] \in Nat
          /\ F[x - 1] = [pos |-> P[k + 1], Attrs |-> Entries(L, P, k)]
        BY <1>5, <2>1, <2>2
    <2>4. Entries(L, P, k) \in Seq(EntryType)
        BY <2>3, EntriesType
    <2>5. PICK s : s = F[x - 1]
        OBVIOUS
    <2>6. /\ s \in [pos: Nat, Attrs: Seq([type: Nat, pos: Nat, len: Nat])]
          /\ s.pos = P[k + 1] /\ s.Attrs = Entries(L, P, k)
        BY <2>3, <2>4, <2>5 DEF EntryType
    <2>7. Round[s] =
               IF s.pos >= Size THEN s
               ELSE IF (s.pos + Attr(s.pos).len) % Word > Size THEN [s EXCEPT !.pos = Size]
               ELSE [pos   |-> IF b[s.pos + 2] = 0 THEN Size ELSE s.pos + b[s.pos + 2],
                     Attrs |-> Append(s.Attrs, Attr(s.pos))]
        BY <2>6
    <2>8. CASE x - 1 >= n
        <3>1. k = n /\ Fewer(x, n) = n
            BY <1>3, <2>2, <2>8 DEF Fewer
        <3>2. P[n + 1] = z
            BY <1>3, PlacesGrow
        <3>3. s.pos >= Size
            BY <1>2, <1>3, <2>6, <3>1, <3>2
        <3>4. Round[s] = s
            <4> HIDE DEF Round, Attr, Size
            <4> QED BY <2>7, <3>3
        <3>5. F[x] = s
            BY <1>5, <2>1, <2>3, <2>5, <3>1
        <3> QED BY <2>5, <3>4, <3>5
    <2>9. CASE x - 1 < n
        <3>1. k = x - 1 /\ Fewer(x, n) = k + 1 /\ k + 1 \in 1..Len(L) /\ k + 1 <= Len(L)
            BY <1>2, <1>3, <2>2, <2>9 DEF Fewer
        <3>2. PICK p \in Nat, l \in Nat : Lies(b, L, P, k + 1, p, l)
            BY <3>1, LaidLies
        <3>3. /\ P[k + 1] = p /\ P[(k + 1) + 1] = p + 2 + l /\ p + 2 + l <= z
              /\ Len(L[k + 1].value) = l
              /\ b[p + 1] = L[k + 1].type /\ b[p + 2] = l + 2
            BY <1>2, <3>2 DEF Lies, Written
        <3>4. l + 2 < ByteSize
            <4>1. L[k + 1].value \in Value
                BY <3>1, LaidAt
            <4> QED BY <3>3, <4>1, ValueType
        <3>5. s.pos = p
            BY <2>6, <3>3
        <3>6. ((l + 2) + Word - 2) % Word = l /\ (p + l) % Word <= p + l
            BY <3>4, Remainders
        <3>7. Attr(p) = Entry(L, P, k + 1)
            BY <3>3, <3>6 DEF Entry
        <3>8. Attr(p).len = l
            BY <3>3, <3>6
        <3>9. (p + l) % Word \in Nat
            BY PacketAssumption, <3>4
        <3>10. ~(s.pos >= Size) /\ ~((s.pos + Attr(s.pos).len) % Word > Size)
            <4>1. ~(p >= z) /\ ~((p + l) % Word > z)
                BY <1>3, <3>3, <3>6, <3>9
            <4> HIDE DEF Attr
            <4> QED BY <1>2, <3>5, <3>8, <4>1
        <3>11. b[s.pos + 2] # 0 /\ s.pos + b[s.pos + 2] = P[(k + 1) + 1]
            BY <3>3, <3>5
        <3>12. Append(s.Attrs, Attr(s.pos)) = Entries(L, P, k + 1)
            <4> HIDE DEF Attr
            <4> QED BY <2>6, <3>1, <3>5, <3>7, EntriesGrow
        <3>13. Round[s] = [pos |-> P[(k + 1) + 1], Attrs |-> Entries(L, P, k + 1)]
            <4> HIDE DEF Round, Attr, Size
            <4> QED BY <2>7, <3>10, <3>11, <3>12
        <3>14. F[x] = [pos |-> P[(k + 1) + 1], Attrs |-> Entries(L, P, k + 1)]
            BY <1>5, <2>1, <3>1
        <3> HIDE DEF Round
        <3> QED BY <2>5, <3>13, <3>14
    <2> QED BY <1>3, <2>1, <2>8, <2>9
<1>8. Loop = F
    <2> HIDE DEF Round, base
    <2>1. F = [x \in 0..MaxAttributes |-> IF x = 0 THEN base ELSE Round[F[x - 1]]]
        <3>1. F = [x \in 0..MaxAttributes |-> F[x]]
            BY <1>4
        <3>2. \A x \in 0..MaxAttributes : F[x] = IF x = 0 THEN base ELSE Round[F[x - 1]]
            <4>1. \A x \in 0..MaxAttributes : x = 0 \/ x \in 1..MaxAttributes
                OBVIOUS
            <4>2. \A x \in 1..MaxAttributes : x # 0
                OBVIOUS
            <4> QED BY <1>6, <1>7, <4>1, <4>2
        <3> QED BY <3>1, <3>2
    <2> QED BY <1>3, <2>1, LoopIs
<1>9. Fewer(MaxAttributes, n) = Fewer(Len(L), MaxAttributes)
    BY <1>2, <1>3 DEF Fewer
<1>10. F[MaxAttributes].Attrs = Entries(L, P, Fewer(MaxAttributes, n))
    <2>1. MaxAttributes \in Nat
        BY PacketAssumption
    <2>2. MaxAttributes \in 0..MaxAttributes
        BY ONLY <2>1
    <2>3. F[MaxAttributes] = [pos   |-> P[Fewer(MaxAttributes, n) + 1],
                              Attrs |-> Entries(L, P, Fewer(MaxAttributes, n))]
        BY <1>5, <2>2
    <2> QED BY <2>3
<1> HIDE DEF Loop
<1> QED BY <1>1, <1>8, <1>9, <1>10

(* Decode gives the list back.                                             *)
AttributeAt(b, p, l) == [type |-> b[p + 1], value |-> SubSeq(b, p + 3, p + 2 + l)]

LEMMA ValueIsDecoded ==
    ASSUME NEW b, NEW L, NEW P, Laid(b, L, P), NEW i \in 1..Len(L), NEW p \in Nat, NEW l \in Nat,
           Lies(b, L, P, i, p, l)
    PROVE  AttributeAt(b, p, l) = L[i]
<1>1. /\ p + 2 + l <= Len(b) /\ Len(L[i].value) = l
      /\ b[p + 1] = L[i].type
      /\ \A k \in 1..Len(L[i].value) : b[p + 2 + k] = L[i].value[k]
    BY DEF Lies, Written
<1>2. /\ L[i].value \in Value
      /\ L[i] = [type |-> L[i].type, value |-> L[i].value]
    BY LaidAt
<1>3. b \in Seq(Byte) /\ Len(b) \in Nat
    BY LaidTypes
<1>4. PICK c \in Seq(Byte) : Cut(b, p + 2, l, c)
    BY <1>1, <1>3, CutExists
<1>5. c = SubSeq(b, p + 3, p + 2 + l) /\ Len(c) = l /\ \A k \in 1..l : c[k] = b[p + 2 + k]
    <2>1. (p + 2) + 1 = p + 3
        OBVIOUS
    <2> QED BY <1>4, <2>1 DEF Cut
<1>6. PICK v : v = L[i].value
    OBVIOUS
<1>7. v \in Seq(Byte) /\ Len(v) = l /\ \A k \in 1..l : b[p + 2 + k] = v[k]
    BY <1>1, <1>2, <1>6, ValueType
<1>8. c = v
    <2>1. \A k \in 1..Len(c) : c[k] = v[k]
        BY <1>5, <1>7
    <2> QED BY <1>5, <1>7, <2>1, SeqEqual
<1> QED BY <1>1, <1>2, <1>5, <1>6, <1>8 DEF AttributeAt

LEMMA DecodeIs ==
    ASSUME NEW b, NEW L, NEW P, Laid(b, L, P)
    PROVE  Decode(b) = L
<1> DEFINE Size  == Len(b)
           Round == [s \in [pos: Nat, list: Seq([type: Nat, value: Seq(Nat)])] |->
               IF s.pos = Size THEN s
               ELSE LET next == s.pos + b[s.pos + 2]
                    IN  [pos  |-> next,
                         list |-> Append(s.list, [type  |-> b[s.pos + 1],
                                                  value |-> SubSeq(b, s.pos + 3, next)])]]
           base  == [pos |-> 0, list |-> <<>>]
           Loop  == CHOOSE Loop : Loop = [x \in 0..Size |->
                        IF x = 0 THEN base ELSE Round[Loop[x - 1]]]
<1>1. Decode(b) = Loop[Size].list
    BY DEF Decode
<1>2. PICK n, z : n = Len(L) /\ z = Len(b)
    OBVIOUS
<1>3. n \in Nat /\ z \in Nat /\ Places(P, n, z) /\ L \in Seq(Attribute) /\ n <= z
    BY <1>2, LaidTypes, PlacesGrow
<1>4. PICK F : F = [x \in 0..Size |->
                       [pos |-> P[Fewer(x, n) + 1], list |-> SubSeq(L, 1, Fewer(x, n))]]
    OBVIOUS
<1>5. ASSUME NEW x \in 0..Size
      PROVE  /\ Fewer(x, n) \in Nat /\ Fewer(x, n) \in 0..Len(L) /\ Fewer(x, n) + 1 \in 1..(n + 1)
             /\ F[x] = [pos |-> P[Fewer(x, n) + 1], list |-> SubSeq(L, 1, Fewer(x, n))]
             /\ P[Fewer(x, n) + 1] \in Nat
    <2>1. /\ Fewer(x, n) \in Nat /\ Fewer(x, n) \in 0..Len(L) /\ Fewer(x, n) + 1 \in 1..(n + 1)
        BY <1>2, <1>3 DEF Fewer
    <2>2. P[Fewer(x, n) + 1] \in Nat
        BY <1>3, <2>1, PlacesGrow
    <2> QED BY <1>4, <2>1, <2>2
<1>6. F[0] = base
    <2>1. 0 \in 0..Size /\ Fewer(0, n) = 0 /\ P[1] = 0
        BY <1>2, <1>3, PlacesGrow DEF Fewer
    <2>2. SubSeq(L, 1, 0) = <<>>
        BY SubSeqEmpty
    <2>3. F[0] = [pos |-> P[0 + 1], list |-> SubSeq(L, 1, 0)]
        BY <1>5, <2>1
    <2> QED BY <2>1, <2>2, <2>3
<1>7. ASSUME NEW k \in Nat, k <= n
      PROVE  SubSeq(L, 1, k) \in Seq([type: Nat, value: Seq(Nat)])
    <2>1. ASSUME NEW i \in 1..k
          PROVE  L[i] \in [type: Nat, value: Seq(Nat)]
        <3>1. i \in 1..Len(L)
            BY <1>2, <1>3, <1>7
        <3>2. /\ L[i].type \in Type /\ L[i].value \in Value
              /\ L[i] = [type |-> L[i].type, value |-> L[i].value]
            BY <3>1, LaidAt
        <3>3. L[i].value \in Seq(Nat)
            <4>1. L[i].value \in Seq(Byte)
                BY <3>2, ValueType
            <4>2. Byte \subseteq Nat
                BY PacketAssumption DEF Byte
            <4> QED BY <4>1, <4>2, SeqMonotonic
        <3>4. L[i].type \in Nat
            <4>1. L[i].type \in Byte
                BY <1>3, <3>1, AttributeType
            <4>2. Byte \subseteq Nat
                BY PacketAssumption DEF Byte
            <4> QED BY <4>1, <4>2
        <3> QED BY <3>2, <3>3, <3>4
    <2> QED BY <2>1, SubSeqProperties
<1>8. ASSUME NEW x \in 1..Size
      PROVE  F[x] = Round[F[x - 1]]
    <2>1. x - 1 \in 0..Size /\ x \in 0..Size
        BY <1>2, <1>3
    <2>2. PICK k \in Nat : k = Fewer(x - 1, n)
        BY <1>5, <2>1
    <2>3. /\ k \in 0..Len(L) /\ k <= n /\ P[k + 1] \in Nat
          /\ F[x - 1] = [pos |-> P[k + 1], list |-> SubSeq(L, 1, k)]
        BY <1>2, <1>3, <1>5, <2>1, <2>2
    <2>4. SubSeq(L, 1, k) \in Seq([type: Nat, value: Seq(Nat)])
        BY <1>7, <2>3
    <2>5. PICK s : s = F[x - 1]
        OBVIOUS
    <2>6. /\ s \in [pos: Nat, list: Seq([type: Nat, value: Seq(Nat)])]
          /\ s.pos = P[k + 1] /\ s.list = SubSeq(L, 1, k)
        BY <2>3, <2>4, <2>5
    <2>7. Round[s] =
               IF s.pos = Size THEN s
               ELSE [pos  |-> s.pos + b[s.pos + 2],
                     list |-> Append(s.list, [type  |-> b[s.pos + 1],
                                              value |-> SubSeq(b, s.pos + 3, s.pos + b[s.pos + 2])])]
        BY <2>6
    <2>8. CASE x - 1 >= n
        <3>1. k = n /\ Fewer(x, n) = n
            BY <1>2, <1>3, <2>2, <2>8 DEF Fewer
        <3>2. P[n + 1] = z
            BY <1>3, PlacesGrow
        <3>3. s.pos = Size
            BY <1>2, <1>3, <2>6, <3>1, <3>2
        <3>4. Round[s] = s
            <4> HIDE DEF Round, Size
            <4> QED BY <2>7, <3>3
        <3>5. F[x] = s
            BY <1>5, <2>1, <2>3, <2>5, <3>1
        <3> QED BY <2>5, <3>4, <3>5
    <2>9. CASE x - 1 < n
        <3>1. k = x - 1 /\ Fewer(x, n) = k + 1 /\ k + 1 \in 1..Len(L) /\ k + 1 <= Len(L)
            BY <1>2, <1>3, <2>2, <2>9 DEF Fewer
        <3>2. PICK p \in Nat, l \in Nat : Lies(b, L, P, k + 1, p, l)
            BY <3>1, LaidLies
        <3>3. /\ P[k + 1] = p /\ P[(k + 1) + 1] = p + 2 + l /\ p + 2 + l <= z
              /\ Len(L[k + 1].value) = l /\ b[p + 2] = l + 2
            BY <1>2, <3>2 DEF Lies, Written
        <3>4. s.pos = p /\ s.pos # Size
            BY <1>2, <1>3, <2>6, <3>3
        <3>5. s.pos + b[s.pos + 2] = p + 2 + l
            BY <3>3, <3>4
        <3>6. [type |-> b[s.pos + 1], value |-> SubSeq(b, s.pos + 3, s.pos + b[s.pos + 2])] = L[k + 1]
            <4>1. PICK i : i = k + 1
                OBVIOUS
            <4>2. i \in 1..Len(L) /\ Lies(b, L, P, i, p, l)
                BY <3>1, <3>2, <4>1
            <4>3. AttributeAt(b, p, l) = L[i]
                BY <4>2, ValueIsDecoded
            <4> QED BY <3>4, <3>5, <4>1, <4>3 DEF AttributeAt
        <3>7. Append(SubSeq(L, 1, k), L[k + 1]) = SubSeq(L, 1, k + 1)
            <4>1. /\ SubSeq(L, 1, k + 1) = SubSeq(L, 1, (k + 1) - 1) \o <<L[k + 1]>>
                  /\ (k + 1) - 1 = k
                <5>1. 1 \in 1..Len(L) /\ k + 1 \in 1..Len(L)
                    BY <3>1
                <5> QED BY <1>3, <5>1, SubSeqRecursiveSecond
            <4>2. Append(SubSeq(L, 1, k), L[k + 1]) = SubSeq(L, 1, k) \o <<L[k + 1]>>
                <5>1. \A i \in 1..k : L[i] \in Attribute
                    <6>1. \A i \in 1..k : i \in 1..Len(L)
                        BY <3>1
                    <6> QED BY <1>3, <6>1, ElementOfSeq
                <5>2. SubSeq(L, 1, k) \in Seq(Attribute)
                    BY <5>1, SubSeqProperties
                <5>3. L[k + 1] \in Attribute
                    BY <1>3, <3>1, ElementOfSeq
                <5> QED BY <5>2, <5>3, AppendIsConcat
            <4> QED BY <4>1, <4>2
        <3>8. Round[s] = [pos |-> P[(k + 1) + 1], list |-> SubSeq(L, 1, k + 1)]
            <4> HIDE DEF Round, Size
            <4> QED BY <2>6, <2>7, <3>3, <3>4, <3>5, <3>6, <3>7
        <3>9. F[x] = [pos |-> P[(k + 1) + 1], list |-> SubSeq(L, 1, k + 1)]
            BY <1>5, <2>1, <3>1
        <3> HIDE DEF Round
        <3> QED BY <2>5, <3>8, <3>9
    <2> QED BY <1>2, <1>3, <2>1, <2>8, <2>9
<1>9. Loop = F
    <2> HIDE DEF Round, base
    <2>1. F = [x \in 0..Size |-> IF x = 0 THEN base ELSE Round[F[x - 1]]]
        <3>1. F = [x \in 0..Size |-> F[x]]
            BY <1>4
        <3>2. \A x \in 0..Size : F[x] = IF x = 0 THEN base ELSE Round[F[x - 1]]
            <4>1. (\A x \in 0..Size : x = 0 \/ x \in 1..Size) /\ (\A x \in 1..Size : x # 0)
                BY <1>2, <1>3
            <4> QED BY <1>6, <1>8, <4>1
        <3> QED BY <3>1, <3>2
    <2>2. Size \in Nat
        BY <1>2, <1>3
    <2> HIDE DEF Size
    <2> QED BY <2>1, <2>2, LoopIs
<1>10. Size \in 0..Size /\ Fewer(Size, n) = n
    BY <1>2, <1>3 DEF Fewer
<1>11. F[Size].list = SubSeq(L, 1, n)
    <2>1. F[Size] = [pos |-> P[n + 1], list |-> SubSeq(L, 1, n)]
        BY <1>5, <1>10
    <2>2. PICK c, M : c = F[Size] /\ M = SubSeq(L, 1, n)
        OBVIOUS
    <2>3. c = [pos |-> P[n + 1], list |-> M]
        BY <2>1, <2>2
    <2>4. c.list = M
        BY ONLY <2>3
    <2> QED BY <2>2, <2>4
<1>12. SubSeq(L, 1, n) = L
    BY <1>2, <1>3, SubSeqFull
<1> HIDE DEF Loop
<1> QED BY <1>1, <1>9, <1>11, <1>12

(* The bytes that arrive are those of a list.                              *)
LEMMA PacketIsLaid ==
    ASSUME NEW p \in Packet
    PROVE  Encodes(EncodedPacket(p), p)
<1> DEFINE Sum == CHOOSE E : E = [i \in 0..Len(p) |->
                      IF i = 0 THEN <<>> ELSE E[i - 1] \o Encoded(p[i].type, p[i].value)]
<1>1. EncodedPacket(p) = Sum[Len(p)]
    BY DEF EncodedPacket
<1>2. PICK N : N = Len(p)
    OBVIOUS
<1>3. p \in Seq(Attribute) /\ N \in Nat
    <2>1. p \in Seq(Attribute)
        BY PacketAssumption DEF Attribute
    <2> QED BY <1>2, <2>1
<1>4. ASSUME NEW x \in 1..N
      PROVE  /\ p[x].type \in Type /\ p[x].value \in Value
             /\ p[x] = [type |-> p[x].type, value |-> p[x].value]
             /\ Encoded(p[x].type, p[x].value) \in Seq(Byte)
             /\ Encodes(Encoded(p[x].type, p[x].value), <<p[x]>>)
    <2>1. /\ p[x].type \in Type /\ p[x].value \in Value
          /\ p[x] = [type |-> p[x].type, value |-> p[x].value]
        BY <1>2, <1>3, AttributeType
    <2> QED BY <2>1, EncodedIsLaid
<1>5. PICK code : code = [x \in 1..N |-> Encoded(p[x].type, p[x].value)]
    OBVIOUS
<1>6. \A x \in 1..N : code[x] = Encoded(p[x].type, p[x].value) /\ code[x] \in Seq(Byte)
    BY <1>4, <1>5
<1>7. PICK step : step = [x \in 1..N |-> [s \in Seq(Byte) |-> s \o code[x]]]
    OBVIOUS
<1>8. step \in [1..N -> [Seq(Byte) -> Seq(Byte)]]
    <2>1. ASSUME NEW x \in 1..N, NEW s \in Seq(Byte)
          PROVE  s \o code[x] \in Seq(Byte)
        BY <1>6, ConcatProperties
    <2> QED BY <1>7, <2>1
<1>9. PICK f \in [0..N -> Seq(Byte)] :
          f[0] = <<>> /\ \A x \in 1..N : f[x] = step[x][f[x - 1]]
    <2>1. <<>> \in Seq(Byte)
        OBVIOUS
    <2>2. \E f \in [0..N -> Seq(Byte)] : Iterates(f, <<>>, step, N)
        BY <1>3, <1>8, <2>1, IterationExists
    <2> QED BY <2>2 DEF Iterates
<1>10. f = [i \in 0..Len(p) |->
                IF i = 0 THEN <<>> ELSE f[i - 1] \o Encoded(p[i].type, p[i].value)]
    <2>1. ASSUME NEW i \in 0..N
          PROVE  f[i] = IF i = 0 THEN <<>> ELSE f[i - 1] \o Encoded(p[i].type, p[i].value)
        <3>1. CASE i = 0
            BY <1>9, <3>1
        <3>2. CASE i # 0
            <4>1. i \in 1..N /\ i - 1 \in 0..N
                BY <1>3, <3>2
            <4>2. PICK s \in Seq(Byte) : s = f[i - 1]
                BY <4>1
            <4>3. f[i] = step[i][s]
                BY <1>9, <4>1, <4>2
            <4>4. step[i][s] = s \o code[i]
                BY <1>7, <4>1
            <4> QED BY <1>6, <3>2, <4>1, <4>2, <4>3, <4>4
        <3> QED BY <3>1, <3>2
    <2> QED BY <1>2, <1>9, <2>1
<1>11. PICK G : G = Sum
    OBVIOUS
<1>12. G = [i \in 0..Len(p) |->
                IF i = 0 THEN <<>> ELSE G[i - 1] \o Encoded(p[i].type, p[i].value)]
    BY <1>10, <1>11, Zenon
<1> HIDE DEF Sum
<1> DEFINE Done == {n \in Nat : n <= N => Encodes(G[n], SubSeq(p, 1, n))}
<1>13. 0 \in Done
    <2>1. 0 \in 0..Len(p)
        BY <1>2, <1>3
    <2>2. G[0] = <<>>
        BY <1>12, <2>1
    <2>3. SubSeq(p, 1, 0) = <<>>
        BY SubSeqEmpty
    <2> QED BY <2>2, <2>3, NothingIsLaid
<1>14. ASSUME NEW n \in Nat, n \in Done
       PROVE  n + 1 \in Done
    <2> SUFFICES ASSUME n + 1 <= N
                 PROVE  Encodes(G[n + 1], SubSeq(p, 1, n + 1))
        OBVIOUS
    <2>1. n + 1 \in 1..N /\ n + 1 \in 0..Len(p) /\ (n + 1) - 1 = n /\ n + 1 # 0
        BY <1>2, <1>3
    <2>2. Encodes(G[n], SubSeq(p, 1, n))
        BY <1>3, <1>14
    <2>3. G[n + 1] = G[n] \o Encoded(p[n + 1].type, p[n + 1].value)
        BY <1>12, <2>1
    <2>4. SubSeq(p, 1, n + 1) = SubSeq(p, 1, n) \o <<p[n + 1]>>
        <3>1. 1 \in 1..Len(p) /\ n + 1 \in 1..Len(p)
            BY <1>2, <1>3, <2>1
        <3>2. SubSeq(p, 1, n + 1) = SubSeq(p, 1, (n + 1) - 1) \o <<p[n + 1]>>
            BY <1>3, <3>1, SubSeqRecursiveSecond
        <3> QED BY <2>1, <3>2
    <2>5. Encodes(Encoded(p[n + 1].type, p[n + 1].value), <<p[n + 1]>>)
        BY <1>4, <2>1
    <2> QED BY <2>2, <2>3, <2>4, <2>5, JoinIsLaid
<1>15. N \in Done
    <2> HIDE DEF Done
    <2> QED BY <1>3, <1>13, <1>14, Inductive
<1>16. Encodes(G[N], SubSeq(p, 1, N))
    BY <1>3, <1>15
<1> QED BY <1>1, <1>2, <1>3, <1>11, <1>16, SubSeqFull

(* Lists whose values are as long lie in the same places.                  *)
LEMMA SamePlaces ==
    ASSUME NEW b, NEW L, NEW P, NEW c, NEW M, NEW Q, Laid(b, L, P), Laid(c, M, Q),
           Len(L) = Len(M), \A i \in 1..Len(L) : Len(L[i].value) = Len(M[i].value)
    PROVE  \A i \in 1..(Len(L) + 1) : P[i] = Q[i]
<1>1. PICK n : n = Len(L)
    OBVIOUS
<1>2. n \in Nat
    BY <1>1, LaidTypes
<1> DEFINE Same == {k \in Nat : k <= n => P[k + 1] = Q[k + 1]}
<1>3. 0 \in Same
    <2>1. P[1] = 0 /\ Q[1] = 0
        BY DEF Laid, Places
    <2> QED BY <2>1
<1>4. ASSUME NEW k \in Nat, k \in Same
      PROVE  k + 1 \in Same
    <2> SUFFICES ASSUME k + 1 <= n
                 PROVE  P[(k + 1) + 1] = Q[(k + 1) + 1]
        OBVIOUS
    <2>1. PICK j : j = k + 1
        OBVIOUS
    <2>2. j \in 1..Len(L) /\ j \in 1..Len(M)
        BY <1>1, <1>2, <2>1
    <2>3. P[j] = Q[j]
        BY <1>2, <1>4, <2>1
    <2>4. PICK p \in Nat, l \in Nat : Lies(b, L, P, j, p, l)
        BY <2>2, LaidLies
    <2>5. PICK q \in Nat, m \in Nat : Lies(c, M, Q, j, q, m)
        BY <2>2, LaidLies
    <2>6. Len(L[j].value) = Len(M[j].value)
        BY <2>2
    <2> QED BY <2>1, <2>3, <2>4, <2>5, <2>6 DEF Lies
<1>5. Nat \subseteq Same
    <2> HIDE DEF Same
    <2> QED BY <1>3, <1>4, Inductive
<1>6. ASSUME NEW i \in 1..(n + 1)
      PROVE  P[i] = Q[i]
    <2>1. i - 1 \in Nat /\ i - 1 <= n /\ (i - 1) + 1 = i
        BY <1>2
    <2>2. P[(i - 1) + 1] = Q[(i - 1) + 1]
        BY <1>5, <2>1
    <2> QED BY <2>1, <2>2
<1> QED BY <1>1, <1>6

-----------------------------------------------------------------------------
(* The edits. *)

(* Attributes at i are cut out and others put there.                       *)
LEMMA PatchIsLaid ==
    ASSUME NEW b, NEW L, NEW P, Laid(b, L, P), NEW i \in Nat, NEW j \in Nat,
           i <= Len(L), j <= Len(L), NEW c, NEW M, Encodes(c, M)
    PROVE  Encodes(SubSeq(b, 1, P[i + 1]) \o c \o SubSeq(b, P[j + 1] + 1, Len(b)),
                   SubSeq(L, 1, i) \o M \o SubSeq(L, j + 1, Len(L)))
<1>1. Encodes(SubSeq(b, 1, P[i + 1]), SubSeq(L, 1, i))
    BY UptoIsLaid
<1>2. Encodes(SubSeq(b, P[j + 1] + 1, Len(b)), SubSeq(L, j + 1, Len(L)))
    BY AfterIsLaid
<1>3. Encodes(SubSeq(b, 1, P[i + 1]) \o c, SubSeq(L, 1, i) \o M)
    BY <1>1, JoinIsLaid
<1> QED BY <1>2, <1>3, JoinIsLaid

(* One element of a sequence is replaced.                                  *)
ReplacedIn(s, i, e) == SubSeq(s, 1, i) \o <<e>> \o SubSeq(s, i + 2, Len(s))

LEMMA Replaced ==
    ASSUME NEW S, NEW s \in Seq(S), NEW i \in Nat, i + 1 <= Len(s), NEW e \in S
    PROVE  ReplacedIn(s, i, e) = [s EXCEPT ![i + 1] = e]
<1>1. PICK n \in Nat : n = Len(s)
    OBVIOUS
<1>2. PICK m \in Nat : n = i + 1 + m
    <2>1. n - (i + 1) \in Nat /\ n = i + 1 + (n - (i + 1))
        BY <1>1
    <2> QED BY <2>1
<1>3. PICK u \in Seq(S) : Cut(s, 0, i, u)
    <2>1. 0 + i <= Len(s) /\ 0 \in Nat
        BY <1>1, <1>2
    <2> QED BY <2>1, CutExists
<1>4. PICK v \in Seq(S) : Cut(s, i + 1, m, v)
    <2>1. (i + 1) + m <= Len(s) /\ i + 1 \in Nat
        BY <1>1, <1>2
    <2> QED BY <2>1, CutExists
<1>5. u = SubSeq(s, 1, i) /\ Len(u) = i /\ \A k \in 1..i : u[k] = s[k]
    <2>1. 0 + 1 = 1 /\ 0 + i = i /\ \A k \in 1..i : 0 + k = k
        OBVIOUS
    <2>2. u = SubSeq(s, 0 + 1, 0 + i) /\ Len(u) = i /\ \A k \in 1..i : u[k] = s[0 + k]
        BY <1>3 DEF Cut
    <2>3. \A k \in 1..i : u[k] = s[k]
        BY <2>1, <2>2
    <2> QED BY <2>1, <2>2, <2>3
<1>6. v = SubSeq(s, i + 2, Len(s)) /\ Len(v) = m /\ \A k \in 1..m : v[k] = s[(i + 1) + k]
    <2>1. (i + 1) + 1 = i + 2 /\ (i + 1) + m = Len(s)
        BY <1>1, <1>2
    <2> QED BY <1>4, <2>1 DEF Cut
<1>7. PICK w : w = u \o <<e>>
    OBVIOUS
<1>8. /\ w \in Seq(S) /\ Len(w) = i + 1
      /\ \A k \in 1..(i + 1) : w[k] = IF k <= i THEN u[k] ELSE e
    <2>1. <<e>> \in Seq(S) /\ Len(<<e>>) = 1 /\ <<e>>[1] = e
        OBVIOUS
    <2>2. /\ w \in Seq(S) /\ Len(w) = i + 1
          /\ \A k \in 1..(i + 1) : w[k] = IF k <= i THEN u[k] ELSE <<e>>[k - i]
        BY <1>5, <1>7, <2>1, ConcatProperties
    <2>3. ASSUME NEW k \in 1..(i + 1)
          PROVE  w[k] = IF k <= i THEN u[k] ELSE e
        <3>1. CASE k <= i
            BY <2>2, <3>1
        <3>2. CASE ~(k <= i)
            <4>1. k - i = 1
                BY <3>2
            <4> QED BY <2>1, <2>2, <3>2, <4>1
        <3> QED BY <3>1, <3>2
    <2> QED BY <2>2, <2>3
<1>9. PICK t : t = w \o v
    OBVIOUS
<1>10. /\ t \in Seq(S) /\ Len(t) = n
       /\ \A k \in 1..n : t[k] = IF k <= i + 1 THEN w[k] ELSE v[k - (i + 1)]
    <2>1. /\ t \in Seq(S) /\ Len(t) = Len(w) + Len(v)
          /\ \A k \in 1..(Len(w) + Len(v)) : t[k] = IF k <= Len(w) THEN w[k] ELSE v[k - Len(w)]
        BY <1>8, <1>9, ConcatProperties
    <2>2. Len(w) = i + 1 /\ Len(w) + Len(v) = n
        BY <1>2, <1>6, <1>8
    <2> QED BY <2>1, <2>2
<1>11. PICK r : r = [s EXCEPT ![i + 1] = e]
    OBVIOUS
<1>12. /\ r \in Seq(S) /\ Len(r) = n
       /\ \A k \in 1..n : r[k] = IF k = i + 1 THEN e ELSE s[k]
    <2>1. i + 1 \in 1..Len(s)
        BY <1>1, <1>2
    <2> QED BY <1>1, <1>11, <2>1, ExceptSeq
<1>13. ASSUME NEW k \in 1..n
       PROVE  t[k] = r[k]
    <2>1. CASE k <= i
        <3>1. k \in 1..(i + 1) /\ k \in 1..i /\ k # i + 1 /\ k <= i + 1
            BY <2>1
        <3> QED BY <1>5, <1>8, <1>10, <1>12, <2>1, <3>1
    <2>2. CASE k = i + 1
        <3>1. k \in 1..(i + 1) /\ k <= i + 1 /\ ~(k <= i)
            BY <2>2
        <3> QED BY <1>8, <1>10, <1>12, <2>2, <3>1
    <2>3. CASE k > i + 1
        <3>1. k - (i + 1) \in 1..m /\ (i + 1) + (k - (i + 1)) = k /\ k # i + 1 /\ ~(k <= i + 1)
            BY <1>2, <2>3
        <3>2. v[k - (i + 1)] = s[k]
            BY <1>6, <3>1
        <3> QED BY <1>10, <1>12, <3>1, <3>2
    <2> QED BY <2>1, <2>2, <2>3
<1>14. t = r
    BY <1>10, <1>12, <1>13, SeqEqual
<1> QED BY <1>5, <1>6, <1>7, <1>9, <1>11, <1>14 DEF ReplacedIn

(* What ReplaceAttribute writes is an attribute behind what it keeps.      *)
LEMMA InPlace ==
    ASSUME NEW b \in Seq(Byte), NEW p \in Nat, p + 1 <= Len(b), NEW t \in Type, b[p + 1] = t,
           NEW v \in Value
    PROVE  SubSeq(b, 1, p + 1) \o <<Len(v) + 2>> \o v = SubSeq(b, 1, p) \o Encoded(t, v)
<1>1. /\ v \in Seq(Byte) /\ Len(v) \in Nat /\ t \in Byte
      /\ Encoded(t, v) = <<t, Len(v) + 2>> \o v
    BY ValueType, EncodedIsLaid, PacketAssumption DEF Byte
<1>2. Len(v) + 2 \in Byte
    <2>1. Len(v) + 2 < ByteSize /\ ByteSize \in Nat
        BY ValueType, PacketAssumption
    <2> QED BY <1>1, <2>1 DEF Byte
<1>3. PICK l \in Byte : l = Len(v) + 2
    BY <1>2
<1>4. PICK A : A = SubSeq(b, 1, p)
    OBVIOUS
<1>5. A \in Seq(Byte)
    <2>1. \A i \in 1..p : b[i] \in Byte
        <3>1. \A i \in 1..p : i \in 1..Len(b)
            OBVIOUS
        <3> QED BY <3>1, ElementOfSeq
    <2> QED BY <1>4, <2>1, SubSeqProperties
<1>6. SubSeq(b, 1, p + 1) = A \o <<t>>
    <2>1. 1 \in 1..Len(b) /\ p + 1 \in 1..Len(b) /\ (p + 1) - 1 = p
        OBVIOUS
    <2>2. SubSeq(b, 1, p + 1) = SubSeq(b, 1, (p + 1) - 1) \o <<b[p + 1]>>
        BY <2>1, SubSeqRecursiveSecond
    <2> QED BY <1>4, <2>1, <2>2
<1>7. PICK x, y, h : x = <<t>> /\ y = <<l>> /\ h = <<t, l>>
    OBVIOUS
<1>8. x \in Seq(Byte) /\ y \in Seq(Byte) /\ h \in Seq(Byte) /\ x \o y = h
    <2>1. x \in Seq(Byte) /\ Len(x) = 1 /\ x[1] = t
        BY <1>1, <1>7
    <2>2. y \in Seq(Byte) /\ Len(y) = 1 /\ y[1] = l
        BY <1>7
    <2>3. h \in Seq(Byte) /\ Len(h) = 2 /\ h[1] = t /\ h[2] = l
        BY <1>1, <1>7
    <2>4. PICK z : z = x \o y
        OBVIOUS
    <2>5. /\ z \in Seq(Byte) /\ Len(z) = Len(x) + Len(y)
          /\ \A i \in 1..(Len(x) + Len(y)) : z[i] = IF i <= Len(x) THEN x[i] ELSE y[i - Len(x)]
        BY <2>1, <2>2, <2>4, ConcatProperties
    <2>6. Len(z) = 2 /\ z[1] = t /\ z[2] = l
        BY <2>1, <2>2, <2>5
    <2>7. \A i \in 1..Len(z) : z[i] = h[i]
        BY <2>3, <2>6
    <2> QED BY <2>1, <2>2, <2>3, <2>4, <2>5, <2>6, <2>7, SeqEqual
<1>9. A \in Seq(Byte) /\ x \in Seq(Byte) /\ y \in Seq(Byte) /\ h \in Seq(Byte) /\ v \in Seq(Byte)
    BY <1>1, <1>5, <1>8
<1>10. (A \o x) \o y = A \o (x \o y)
    BY ONLY <1>9
<1>11. (A \o h) \o v = A \o (h \o v)
    BY ONLY <1>9
<1> QED BY <1>1, <1>3, <1>4, <1>6, <1>7, <1>8, <1>10, <1>11

-----------------------------------------------------------------------------
(* The packet and its list. *)

Index(L, P) == Entries(L, P, Fewer(Len(L), MaxAttributes))

(* The bytes are the attributes of L at P, and the index has their places. *)
Faithful(L, P) == Laid(attributes, L, P) /\ Attrs_ = Index(L, P)

FoundIn(L, t) == {i \in 1..Len(L) : i <= MaxAttributes /\ L[i].type = t}

FirstIn(L, t) == CHOOSE i \in FoundIn(L, t) : \A j \in FoundIn(L, t) : i <= j

LEMMA IndexAt ==
    ASSUME NEW b, NEW L, NEW P, Laid(b, L, P)
    PROVE  /\ Len(Index(L, P)) \in Nat
           /\ 1..Len(Index(L, P)) = {i \in 1..Len(L) : i <= MaxAttributes}
           /\ \A i \in 1..Len(L) : i <= MaxAttributes => Index(L, P)[i] = Entry(L, P, i)
<1>1. PICK n, k : n = Len(L) /\ k = Fewer(Len(L), MaxAttributes)
    OBVIOUS
<1>2. n \in Nat /\ MaxAttributes \in Nat
    BY <1>1, LaidTypes, PacketAssumption
<1>3. /\ k \in Nat /\ k \in 0..Len(L)
      /\ 1..k = {i \in 1..n : i <= MaxAttributes}
      /\ \A i \in 1..n : i <= MaxAttributes => i \in 1..k
    BY <1>1, <1>2 DEF Fewer
<1>4. /\ Len(Entries(L, P, k)) = k
      /\ \A i \in 1..k : Entries(L, P, k)[i] = Entry(L, P, i)
    BY <1>3, EntriesType
<1> QED BY <1>1, <1>3, <1>4 DEF Index

(* What the code finds through the index is what the list has.             *)
LEMMA FindsFirst ==
    ASSUME NEW L, NEW P, Faithful(L, P), NEW t
    PROVE  /\ Indices(t) = FoundIn(L, t)
           /\ HasAttribute(t) => /\ FirstIn(L, t) \in FoundIn(L, t)
                                 /\ FirstIn(L, t) \in 1..Len(L)
                                 /\ L[FirstIn(L, t)].type = t
                                 /\ AttrOf(t) = Entry(L, P, FirstIn(L, t))
<1>1. Laid(attributes, L, P) /\ Attrs_ = Index(L, P) /\ Len(L) \in Nat
    BY LaidTypes DEF Faithful
<1>2. Indices(t) = FoundIn(L, t)
    <2>1. ASSUME NEW i \in 1..Len(L), i <= MaxAttributes
          PROVE  Attrs_[i].type = L[i].type
        <3>1. Attrs_[i] = Entry(L, P, i)
            BY <1>1, <2>1, IndexAt
        <3> QED BY <3>1 DEF Entry
    <2>2. 1..Len(Attrs_) = {i \in 1..Len(L) : i <= MaxAttributes}
        BY <1>1, IndexAt
    <2> QED BY <2>1, <2>2 DEF Indices, FoundIn
<1>3. ASSUME HasAttribute(t)
      PROVE  /\ FirstIn(L, t) \in FoundIn(L, t)
             /\ FirstIn(L, t) \in 1..Len(L)
             /\ L[FirstIn(L, t)].type = t
             /\ AttrOf(t) = Entry(L, P, FirstIn(L, t))
    <2>1. FoundIn(L, t) # {} /\ FoundIn(L, t) \in SUBSET Nat
        BY <1>2, <1>3 DEF HasAttribute, FoundIn
    <2>2. \E i \in FoundIn(L, t) : \A j \in FoundIn(L, t) : i <= j
        BY <2>1, LeastNumber
    <2>3. FirstIn(L, t) \in FoundIn(L, t)
        BY <2>2 DEF FirstIn
    <2>4. /\ FirstIn(L, t) \in 1..Len(L) /\ FirstIn(L, t) <= MaxAttributes
          /\ L[FirstIn(L, t)].type = t
        BY <2>3 DEF FoundIn
    <2>5. AttrOf(t) = Attrs_[FirstIn(L, t)]
        BY <1>2 DEF AttrOf, FirstIn
    <2>6. Attrs_[FirstIn(L, t)] = Entry(L, P, FirstIn(L, t))
        BY <1>1, <2>4, IndexAt
    <2> QED BY <2>3, <2>4, <2>5, <2>6
<1> QED BY <1>2, <1>3

(* The found attribute, its number i + 1, its place p and its length l.    *)
Finds(L, P, t, i, p, l) ==
    /\ i + 1 = FirstIn(L, t) /\ i + 1 \in FoundIn(L, t) /\ i + 1 <= Len(L)
    /\ L[i + 1].type = t /\ L[i + 1] \in Attribute
    /\ P[i + 1] = p /\ P[(i + 1) + 1] = p + 2 + l /\ p + 2 + l <= Len(attributes)
    /\ attributes[p + 1] = t /\ Len(L[i + 1].value) = l
    /\ AttrOf(t) = [type |-> t, pos |-> p + 2, len |-> l]

LEMMA FoundAt ==
    ASSUME NEW L, NEW P, Faithful(L, P), NEW t, HasAttribute(t)
    PROVE  \E i, p, l \in Nat : Finds(L, P, t, i, p, l)
<1>1. Laid(attributes, L, P) /\ Len(L) \in Nat /\ L \in Seq(Attribute)
    BY LaidTypes DEF Faithful
<1>2. PICK j : j = FirstIn(L, t)
    OBVIOUS
<1>3. j \in FoundIn(L, t) /\ j \in 1..Len(L) /\ L[j].type = t /\ AttrOf(t) = Entry(L, P, j)
    BY <1>2, FindsFirst
<1>4. PICK p \in Nat, l \in Nat : Lies(attributes, L, P, j, p, l)
    BY <1>1, <1>3, LaidLies
<1>5. L[j] \in Attribute
    BY <1>1, <1>3, ElementOfSeq
<1>6. PICK i \in Nat : j = i + 1
    <2>1. j - 1 \in Nat /\ j = (j - 1) + 1
        BY <1>1, <1>3
    <2> QED BY <2>1
<1>7. j <= Len(L)
    BY <1>1, <1>3
<1>8. Finds(L, P, t, i, p, l)
    BY <1>2, <1>3, <1>4, <1>5, <1>6, <1>7 DEF Finds, Lies, Written, Entry
<1> QED BY <1>8

(* The state after an edit: its bytes are the attributes of M.             *)
Becomes(M) == \E Q : Faithful(M, Q)

LEMMA ReParsed ==
    ASSUME NEW M, Encodes(attributes', M), ReParse
    PROVE  Becomes(M)'
<1>1. PICK Q : Laid(attributes', M, Q)
    BY DEF Encodes
<1>2. Attrs_' = Index(M, Q)
    BY <1>1, ParseRadiusIs DEF ReParse, Index
<1> QED BY <1>1, <1>2 DEF Becomes, Faithful

LEMMA AppendEdits ==
    ASSUME NEW L, NEW P, Faithful(L, P), NEW t \in Type, NEW v \in Value, AppendAttribute(t, v)
    PROVE  Becomes(Append(L, [type |-> t, value |-> v]))'
<1>1. Encodes(attributes, L) /\ L \in Seq(Attribute)
    BY LaidTypes DEF Faithful, Encodes
<1>2. Encodes(attributes \o Encoded(t, v), L \o <<[type |-> t, value |-> v]>>)
    BY <1>1, EncodedIsLaid, JoinIsLaid
<1>3. [type |-> t, value |-> v] \in Attribute
    BY DEF Attribute
<1>4. Append(L, [type |-> t, value |-> v]) = L \o <<[type |-> t, value |-> v]>>
    BY <1>1, <1>3, AppendIsConcat
<1> QED BY <1>2, <1>4, ReParsed DEF AppendAttribute

LEMMA RemoveEdits ==
    ASSUME NEW L, NEW P, Faithful(L, P), NEW t \in Type, RemoveAttribute(t)
    PROVE  FoundIn(L, t) # {} /\ Becomes(List!RemoveAt(L, FirstIn(L, t)))'
<1>1. HasAttribute(t) /\ ReParse
    BY DEF RemoveAttribute
<1>2. Laid(attributes, L, P)
    BY DEF Faithful
<1>3. PICK i \in Nat, p \in Nat, l \in Nat : Finds(L, P, t, i, p, l)
    BY <1>1, FoundAt
<1>4. /\ P[i + 1] = p /\ P[(i + 1) + 1] = p + 2 + l /\ i + 1 <= Len(L)
      /\ i + 1 = FirstIn(L, t) /\ FoundIn(L, t) # {}
      /\ AttrOf(t).pos = p + 2 /\ AttrOf(t).len = l
    BY <1>3 DEF Finds
<1>5. i <= Len(L) /\ (p + 2) - 2 = p /\ (p + 2) + l = p + 2 + l /\ i + 1 \in Nat /\ (i + 1) - 1 = i
    BY <1>2, <1>4, LaidTypes
<1>6. attributes' = SubSeq(attributes, 1, p) \o SubSeq(attributes, p + 2 + l + 1, Len(attributes))
    BY <1>4, <1>5 DEF RemoveAttribute, Upto, After
<1>7. Encodes(attributes', SubSeq(L, 1, i) \o SubSeq(L, (i + 1) + 1, Len(L)))
    <2>1. Encodes(SubSeq(attributes, 1, p), SubSeq(L, 1, i))
        BY <1>2, <1>4, <1>5, UptoIsLaid
    <2>2. Encodes(SubSeq(attributes, p + 2 + l + 1, Len(attributes)), SubSeq(L, (i + 1) + 1, Len(L)))
        BY <1>2, <1>4, <1>5, AfterIsLaid
    <2> QED BY <1>6, <2>1, <2>2, JoinIsLaid
<1>8. List!RemoveAt(L, FirstIn(L, t)) = SubSeq(L, 1, i) \o SubSeq(L, (i + 1) + 1, Len(L))
    BY <1>4, <1>5 DEF List!RemoveAt
<1> QED BY <1>1, <1>4, <1>7, <1>8, ReParsed

LEMMA AddEdits ==
    ASSUME NEW L, NEW P, Faithful(L, P), NEW h \in Type, NEW t \in Type, NEW v \in Value,
           AddAttribute(h, t, v)
    PROVE  /\ FoundIn(L, h) # {}
           /\ Becomes(List!InsertAt(L, FirstIn(L, h) + 1, [type |-> t, value |-> v]))'
<1>1. HasAttribute(h) /\ ReParse
    BY DEF AddAttribute
<1>2. Laid(attributes, L, P)
    BY DEF Faithful
<1>3. PICK i \in Nat, p \in Nat, l \in Nat : Finds(L, P, h, i, p, l)
    BY <1>1, FoundAt
<1>4. /\ P[(i + 1) + 1] = p + 2 + l /\ i + 1 <= Len(L)
      /\ i + 1 = FirstIn(L, h) /\ FoundIn(L, h) # {}
      /\ AttrOf(h).pos = p + 2 /\ AttrOf(h).len = l
    BY <1>3 DEF Finds
<1>5. (p + 2) + l = p + 2 + l /\ i + 1 \in Nat /\ ((i + 1) + 1) - 1 = i + 1
    OBVIOUS
<1>6. attributes' = SubSeq(attributes, 1, p + 2 + l) \o Encoded(t, v)
                        \o SubSeq(attributes, p + 2 + l + 1, Len(attributes))
    BY <1>4, <1>5 DEF AddAttribute, Upto, After
<1>7. Encodes(attributes', SubSeq(L, 1, i + 1) \o <<[type |-> t, value |-> v]>>
                               \o SubSeq(L, (i + 1) + 1, Len(L)))
    <2>1. Encodes(Encoded(t, v), <<[type |-> t, value |-> v]>>)
        BY EncodedIsLaid
    <2>2. PICK j \in Nat : j = i + 1
        BY <1>5
    <2>3. Encodes(SubSeq(attributes, 1, P[j + 1]) \o Encoded(t, v)
                      \o SubSeq(attributes, P[j + 1] + 1, Len(attributes)),
                  SubSeq(L, 1, j) \o <<[type |-> t, value |-> v]>> \o SubSeq(L, j + 1, Len(L)))
        BY <1>2, <1>4, <2>1, <2>2, PatchIsLaid
    <2> QED BY <1>4, <1>6, <2>2, <2>3
<1>8. List!InsertAt(L, FirstIn(L, h) + 1, [type |-> t, value |-> v])
          = SubSeq(L, 1, i + 1) \o <<[type |-> t, value |-> v]>> \o SubSeq(L, (i + 1) + 1, Len(L))
    BY <1>4, <1>5 DEF List!InsertAt
<1> QED BY <1>1, <1>4, <1>7, <1>8, ReParsed

LEMMA ReplaceEdits ==
    ASSUME NEW L, NEW P, Faithful(L, P), NEW t \in Type, NEW v \in Value, ReplaceAttribute(t, v)
    PROVE  FoundIn(L, t) # {} /\ Becomes([L EXCEPT ![FirstIn(L, t)].value = v])'
<1>1. HasAttribute(t)
    BY DEF ReplaceAttribute
<1>2. Laid(attributes, L, P) /\ L \in Seq(Attribute) /\ Len(L) \in Nat /\ attributes \in Seq(Byte)
    BY LaidTypes DEF Faithful
<1>3. PICK i \in Nat, p \in Nat, l \in Nat : Finds(L, P, t, i, p, l)
    BY <1>1, FoundAt
<1>4. /\ P[i + 1] = p /\ P[(i + 1) + 1] = p + 2 + l /\ i + 1 <= Len(L)
      /\ i + 1 = FirstIn(L, t) /\ FoundIn(L, t) # {} /\ Len(L[i + 1].value) = l
      /\ L[i + 1].type = t /\ L[i + 1] \in Attribute
      /\ p + 2 + l <= Len(attributes) /\ attributes[p + 1] = t
      /\ AttrOf(t).pos = p + 2 /\ AttrOf(t).len = l
    BY <1>3 DEF Finds
<1>5. /\ i <= Len(L) /\ (p + 2) - 1 = p + 1 /\ (p + 2) + l = p + 2 + l
      /\ i + 1 \in Nat /\ p + 1 <= Len(attributes)
    BY <1>2, <1>4
<1>6. PICK e : e = [type |-> t, value |-> v]
    OBVIOUS
<1>7. e \in Attribute
    BY <1>6 DEF Attribute
<1>8. PICK M : M = [L EXCEPT ![i + 1] = e]
    OBVIOUS
<1>9. [L EXCEPT ![FirstIn(L, t)].value = v] = M
    <2>1. [L[i + 1] EXCEPT !.value = v] = e
        BY <1>4, <1>6 DEF Attribute
    <2> QED BY <1>4, <1>8, <2>1
<1>10. M = SubSeq(L, 1, i) \o <<e>> \o SubSeq(L, (i + 1) + 1, Len(L))
    <2>1. (i + 1) + 1 = i + 2
        OBVIOUS
    <2>2. L \in Seq(Attribute) /\ i + 1 <= Len(L) /\ e \in Attribute /\ i \in Nat
        BY <1>2, <1>4, <1>7
    <2>3. ReplacedIn(L, i, e) = [L EXCEPT ![i + 1] = e]
        BY <2>2, Replaced
    <2> QED BY <1>8, <2>1, <2>3 DEF ReplacedIn
<1>11. attributes' = SubSeq(attributes, 1, p) \o Encoded(t, v)
                         \o SubSeq(attributes, p + 2 + l + 1, Len(attributes))
    <2>1. attributes' = SubSeq(attributes, 1, p + 1) \o <<Len(v) + 2>> \o v
                            \o SubSeq(attributes, p + 2 + l + 1, Len(attributes))
        BY <1>4, <1>5 DEF ReplaceAttribute, Upto, After
    <2>2. SubSeq(attributes, 1, p + 1) \o <<Len(v) + 2>> \o v
              = SubSeq(attributes, 1, p) \o Encoded(t, v)
        BY <1>2, <1>4, <1>5, InPlace
    <2> QED BY <2>1, <2>2
<1>12. Encodes(attributes', M)
    <2>1. Encodes(Encoded(t, v), <<e>>)
        BY <1>6, EncodedIsLaid
    <2>2. PICK j \in Nat : j = i + 1
        BY <1>5
    <2>3. Encodes(SubSeq(attributes, 1, P[i + 1]) \o Encoded(t, v)
                      \o SubSeq(attributes, P[j + 1] + 1, Len(attributes)),
                  SubSeq(L, 1, i) \o <<e>> \o SubSeq(L, j + 1, Len(L)))
        BY <1>2, <1>4, <1>5, <2>1, <2>2, PatchIsLaid
    <2> QED BY <1>4, <1>10, <1>11, <2>2, <2>3
<1>13. CASE Len(v) # l
    <2>1. ReParse
        BY <1>4, <1>13 DEF ReplaceAttribute
    <2> QED BY <1>4, <1>9, <1>12, <2>1, ReParsed
<1>14. CASE Len(v) = l
    <2>1. Attrs_' = Index(L, P)
        BY <1>4, <1>14 DEF ReplaceAttribute, Faithful
    <2>2. PICK Q : Laid(attributes', M, Q)
        BY <1>12 DEF Encodes
    <2>3. /\ Len(M) = Len(L)
          /\ \A k \in 1..Len(L) : M[k] = IF k = i + 1 THEN e ELSE L[k]
        <3>1. i + 1 \in 1..Len(L)
            BY <1>2, <1>4
        <3> QED BY <1>2, <1>7, <1>8, <3>1, ExceptSeq
    <2>4. \A k \in 1..Len(L) : M[k].type = L[k].type /\ Len(M[k].value) = Len(L[k].value)
        <3>1. e.type = L[i + 1].type /\ Len(e.value) = Len(L[i + 1].value)
            BY <1>4, <1>6, <1>14
        <3> QED BY <2>3, <3>1
    <2>5. \A k \in 1..(Len(L) + 1) : P[k] = Q[k]
        BY <1>2, <2>2, <2>3, <2>4, SamePlaces
    <2>6. \A k \in 1..Len(L) : Entry(M, Q, k) = Entry(L, P, k)
        <3>1. \A k \in 1..Len(L) : k \in 1..(Len(L) + 1)
            BY <1>2
        <3> QED BY <2>4, <2>5, <3>1 DEF Entry
    <2>7. Index(M, Q) = Index(L, P)
        <3>1. PICK m : m = Fewer(Len(L), MaxAttributes)
            OBVIOUS
        <3>2. \A k \in 1..m : k \in 1..Len(L)
            BY <1>2, <3>1, PacketAssumption DEF Fewer
        <3>3. Entries(M, Q, m) = Entries(L, P, m)
            BY <2>6, <3>2 DEF Entries
        <3> QED BY <2>3, <3>1, <3>3 DEF Index
    <2>8. Becomes(M)'
        BY <2>1, <2>2, <2>7 DEF Becomes, Faithful
    <2> QED BY <1>4, <1>9, <2>8
<1> QED BY <1>13, <1>14

-----------------------------------------------------------------------------
(* The invariant, and the theorems. *)

PktInv == \E L : Becomes(L)

LEMMA DecodedIs ==
    ASSUME NEW L, Becomes(L)
    PROVE  Decoded = L
BY DecodeIs DEF Becomes, Faithful, Decoded

LEMMA DecodedIsNext ==
    ASSUME NEW L, Becomes(L)'
    PROVE  Decoded' = L
<1>1. PICK Q : Laid(attributes', L, Q)
    BY DEF Becomes, Faithful
<1> QED BY <1>1, DecodeIs DEF Decoded

LEMMA ArrivesLaid ==
    ASSUME PktInit
    PROVE  \E p \in Packet : Becomes(p)
<1>1. PICK p \in Packet : attributes = EncodedPacket(p) /\ Attrs_ = ParseRadius(attributes)
    BY DEF PktInit
<1>2. PICK P : Laid(attributes, p, P)
    BY <1>1, PacketIsLaid DEF Encodes
<1>3. Attrs_ = Index(p, P)
    BY <1>1, <1>2, ParseRadiusIs DEF Index
<1> QED BY <1>2, <1>3 DEF Becomes, Faithful

(* Every edit of the bytes is an edit of the list.                         *)
LEMMA EditsTheList ==
    ASSUME NEW L, Becomes(L), [PktNext]_pktVars
    PROVE  PktInv' /\ [List!ListNext]_Decoded
<1>1. PICK P : Faithful(L, P)
    BY DEF Becomes
<1>2. Decoded = L
    BY DecodedIs
<1>3. \A t : List!Found(t) = FoundIn(L, t) /\ List!First(t) = FirstIn(L, t)
    BY <1>2 DEF List!Found, List!First, FoundIn, FirstIn
<1>4. ASSUME NEW M, Becomes(M)'
      PROVE  PktInv' /\ Decoded' = M
    BY <1>4, DecodedIsNext DEF PktInv
<1>5. ASSUME NEW t \in Type, RemoveAttribute(t)
      PROVE  PktInv' /\ List!Remove_(t)
    <2>1. FoundIn(L, t) # {} /\ Becomes(List!RemoveAt(L, FirstIn(L, t)))'
        BY <1>1, <1>5, RemoveEdits
    <2>2. PktInv' /\ Decoded' = List!RemoveAt(L, FirstIn(L, t))
        BY <1>4, <2>1
    <2> QED BY <1>2, <1>3, <2>1, <2>2 DEF List!Remove_
<1>6. ASSUME NEW t \in Type, NEW v \in Value, AppendAttribute(t, v)
      PROVE  PktInv' /\ List!Append_(t, v)
    <2>1. Becomes(Append(L, [type |-> t, value |-> v]))'
        BY <1>1, <1>6, AppendEdits
    <2>2. PktInv' /\ Decoded' = Append(L, [type |-> t, value |-> v])
        BY <1>4, <2>1
    <2> QED BY <1>2, <2>2 DEF List!Append_
<1>7. ASSUME NEW t \in Type, NEW v \in Value, ReplaceAttribute(t, v)
      PROVE  PktInv' /\ List!Replace_(t, v)
    <2>1. FoundIn(L, t) # {} /\ Becomes([L EXCEPT ![FirstIn(L, t)].value = v])'
        BY <1>1, <1>7, ReplaceEdits
    <2>2. PktInv' /\ Decoded' = [L EXCEPT ![FirstIn(L, t)].value = v]
        BY <1>4, <2>1
    <2> QED BY <1>2, <1>3, <2>1, <2>2 DEF List!Replace_
<1>8. ASSUME NEW h \in Type, NEW t \in Type, NEW v \in Value, AddAttribute(h, t, v)
      PROVE  PktInv' /\ List!Add_(h, t, v)
    <2>1. /\ FoundIn(L, h) # {}
          /\ Becomes(List!InsertAt(L, FirstIn(L, h) + 1, [type |-> t, value |-> v]))'
        BY <1>1, <1>8, AddEdits
    <2>2. PktInv' /\ Decoded' = List!InsertAt(L, FirstIn(L, h) + 1, [type |-> t, value |-> v])
        BY <1>4, <2>1
    <2> QED BY <1>2, <1>3, <2>1, <2>2 DEF List!Add_
<1>9. CASE PktNext
    <2>1. PICK t \in Type : \/ RemoveAttribute(t)
                            \/ \E v \in Value :
                                  \/ AppendAttribute(t, v)
                                  \/ ReplaceOrAdd(t, v)
                                  \/ \E h \in Type : AddAttribute(h, t, v)
        BY <1>9 DEF PktNext
    <2>2. CASE RemoveAttribute(t)
        BY <1>5, <2>2 DEF List!ListNext
    <2>3. ASSUME NEW v \in Value, AppendAttribute(t, v)
          PROVE  PktInv' /\ List!ListNext
        BY <1>6, <2>3 DEF List!ListNext
    <2>4. ASSUME NEW v \in Value, ReplaceAttribute(t, v)
          PROVE  PktInv' /\ List!ListNext
        BY <1>7, <2>4 DEF List!ListNext
    <2>5. ASSUME NEW v \in Value, NEW h \in Type, AddAttribute(h, t, v)
          PROVE  PktInv' /\ List!ListNext
        BY <1>8, <2>5 DEF List!ListNext
    <2> QED BY <2>1, <2>2, <2>3, <2>4, <2>5 DEF ReplaceOrAdd
<1>10. CASE UNCHANGED pktVars
    <2>1. Faithful(L, P)'
        BY <1>1, <1>10 DEF Faithful, pktVars
    <2>2. Becomes(L)'
        BY <2>1 DEF Becomes
    <2> QED BY <1>2, <1>4, <2>2
<1> QED BY <1>9, <1>10

(* The packet as a list: what an edit does to the bytes through the index  *)
(* is what it means to the list of attributes, whatever the packet that    *)
(* arrived, the types and the values.                                      *)
THEOREM PacketIsAList == PktSpec => ImplementsAttributeList
<1>1. PktInit => PktInv /\ Decoded \in Seq([type: Type, value: Value])
    <2> SUFFICES ASSUME PktInit
                 PROVE  PktInv /\ Decoded \in Seq([type: Type, value: Value])
        OBVIOUS
    <2>1. PICK p \in Packet : Becomes(p)
        BY ArrivesLaid
    <2>2. Decoded = p /\ p \in Seq([type: Type, value: Value])
        BY <2>1, DecodedIs, PacketAssumption
    <2> QED BY <2>1, <2>2 DEF PktInv
<1>2. PktInv /\ [PktNext]_pktVars => PktInv' /\ [List!ListNext]_Decoded
    BY EditsTheList DEF PktInv
<1> QED BY <1>1, <1>2, PTL DEF PktSpec, ImplementsAttributeList, List!ListSpec

(* What Extract returns is in the list.                                    *)
FullIn(L, t) == {i \in 1..Len(L) : i <= MaxAttributes /\ L[i].type = t /\ L[i].value # <<>>}

LeastOf(F) == CHOOSE i \in F : \A j \in F : i <= j

FirstValue(L, F) == IF F = {} THEN <<>> ELSE L[LeastOf(F)].value

LEMMA ExtractIsTrue ==
    ASSUME NEW L, Becomes(L)
    PROVE  IndexIsTrue
<1>1. PICK P : Faithful(L, P)
    BY DEF Becomes
<1>2. Laid(attributes, L, P) /\ Attrs_ = Index(L, P) /\ Decoded = L
    BY <1>1, DecodedIs DEF Faithful
<1>3. IndexMatchesBytes
    BY <1>2, ParseRadiusIs DEF IndexMatchesBytes, Index
<1>4. ASSUME NEW t \in Type
      PROVE  Extract(t) = FirstValue(L, FullIn(L, t))
    <2> DEFINE F == FullIn(L, t)
               I == {i \in Indices(t) : Attrs_[i].len > 0}
    <2>1. ASSUME NEW i \in 1..Len(L), i <= MaxAttributes
          PROVE  (Attrs_[i].len > 0) <=> (L[i].value # <<>>)
        <3>1. Attrs_[i] = Entry(L, P, i)
            BY <1>2, <2>1, IndexAt
        <3>2. PICK v : v = L[i].value
            OBVIOUS
        <3>3. v \in Seq(Byte)
            BY <1>2, <3>2, LaidAt, ValueType
        <3>4. (Len(v) > 0) <=> (v # <<>>)
            BY <3>3, EmptySeq
        <3> QED BY <3>1, <3>2, <3>4 DEF Entry
    <2>2. I = F
        <3>1. Indices(t) = FoundIn(L, t)
            BY <1>1, FindsFirst
        <3> QED BY <2>1, <3>1 DEF FoundIn, FullIn
    <2>3. CASE F = {}
        BY <2>2, <2>3 DEF Extract, FirstValue
    <2>4. CASE F # {}
        <3>1. PICK j : j = LeastOf(F)
            OBVIOUS
        <3>2. j \in F
            <4>1. F \in SUBSET Nat
                BY DEF FullIn
            <4>2. \E i \in F : \A k \in F : i <= k
                <5> HIDE DEF F
                <5> QED BY <2>4, <4>1, LeastNumber
            <4> HIDE DEF F
            <4> QED BY <3>1, <4>2 DEF LeastOf
        <3>3. j \in 1..Len(L) /\ j <= MaxAttributes
            BY <3>2 DEF FullIn
        <3>4. PICK p \in Nat, l \in Nat : Lies(attributes, L, P, j, p, l)
            BY <1>2, <3>3, LaidLies
        <3>5. Attrs_[j].pos = p + 2 /\ Attrs_[j].len = l
            <4>1. Attrs_[j] = Entry(L, P, j)
                BY <1>2, <3>3, IndexAt
            <4> QED BY <3>4, <4>1 DEF Lies, Entry
        <3>6. L[j].value = SubSeq(attributes, p + 3, p + 2 + l)
            <4>1. AttributeAt(attributes, p, l) = L[j]
                BY <1>2, <3>3, <3>4, ValueIsDecoded
            <4> QED BY <4>1 DEF AttributeAt
        <3>7. Extract(t) = SubSeq(attributes, Attrs_[j].pos + 1, Attrs_[j].pos + Attrs_[j].len)
            <4>1. Extract(t) = IF I = {} THEN <<>>
                               ELSE LET a == Attrs_[CHOOSE i \in I : \A k \in I : i <= k]
                                    IN  SubSeq(attributes, a.pos + 1, a.pos + a.len)
                BY DEF Extract
            <4> HIDE DEF I, F
            <4> QED BY <2>2, <2>4, <3>1, <4>1 DEF LeastOf
        <3>8. (p + 2) + 1 = p + 3
            OBVIOUS
        <3>9. Extract(t) = L[j].value
            BY <3>5, <3>6, <3>7, <3>8
        <3> HIDE DEF F
        <3> QED BY <2>4, <3>1, <3>9 DEF FirstValue, F
    <2> QED BY <2>3, <2>4
<1>5. ExtractsFromList
    <2>1. \A t \in Type : Extract(t) = FirstValue(Decoded, FullIn(Decoded, t))
        BY <1>2, <1>4
    <2> QED BY <2>1, Zenon DEF ExtractsFromList, FirstValue, FullIn, LeastOf
<1> QED BY <1>3, <1>5 DEF IndexIsTrue

(* The index is true of the bytes after every edit, also after those that  *)
(* do not rebuild it, and what is extracted through it is what the list    *)
(* has.                                                                    *)
THEOREM IndexStaysTrue == PktSpec => []IndexIsTrue
<1>1. PktInit => PktInv
    BY ArrivesLaid DEF PktInv
<1>2. PktInv /\ [PktNext]_pktVars => PktInv'
    BY EditsTheList DEF PktInv
<1>3. PktInv => IndexIsTrue
    BY ExtractIsTrue DEF PktInv
<1> QED BY <1>1, <1>2, <1>3, PTL DEF PktSpec
=============================================================================
