------------------------ MODULE GatewayServicesProofs ------------------------
(***************************************************************************)
(* Proofs about two services of the gateway: the clients of the user       *)
(* interface (UiClients), for any descriptors and users and any bound, and *)
(* the message bus (ServiceBus), for any topics and watchers and any bound *)
(* on the messages.                                                        *)
(***************************************************************************)
EXTENDS UiClients, ServiceBus, FiniteSetTheorems, TLAPS

-----------------------------------------------------------------------------
(* The clients of the user interface. *)

UiTypeOK ==
    /\ opened \in 0..MaxClient
    /\ clients \in [Descriptor -> 0..opened]
    /\ info \in [UiClient -> [user : User \cup {NoUser}, registered : BOOLEAN]]
    /\ toBeRemoved \in Seq(UiClient)
    /\ usersConnected \in Nat
    /\ cleared \in BOOLEAN /\ cleaner \in BOOLEAN /\ undefined \in BOOLEAN

(* Until the server stops, every iterator that waits for the cleaner is    *)
(* that of a client that is there and has lost its handlers, and none      *)
(* waits twice.                                                            *)
EndedOnce ==
    ~cleared =>
        /\ ~undefined
        /\ \A i \in 1..Len(toBeRemoved) :
              /\ toBeRemoved[i] \in Connected /\ ~info[toBeRemoved[i]].registered
              /\ \A j \in 1..(i - 1) : toBeRemoved[j] # toBeRemoved[i]

UiInv == UiTypeOK /\ EndedOnce /\ UsersAreCounted

(* The clients that are connected can be counted. *)
LEMMA ConnectedIsFinite ==
    ASSUME UiTypeOK
    PROVE  /\ Connected \subseteq 1..opened /\ IsFiniteSet(Connected)
           /\ Cardinality(Connected) \in Nat
<1> USE UiAssumption
<1>1. opened \in Nat /\ Connected \subseteq 1..opened
    BY DEF UiTypeOK, Connected
<1>2. IsFiniteSet(1..opened)
    BY <1>1, FS_Interval
<1>3. IsFiniteSet(Connected)
    BY <1>1, <1>2, FS_Subset
<1> QED BY <1>1, <1>3, FS_CardinalityType

LEMMA UiInvInit == UiInit => UiInv
<1> SUFFICES ASSUME UiInit PROVE UiInv
    OBVIOUS
<1>1. clients \in [Descriptor -> 0..opened] /\ opened \in 0..MaxClient
    BY UiAssumption DEF UiInit
<1>2. info \in [UiClient -> [user : User \cup {NoUser}, registered : BOOLEAN]]
    BY DEF UiInit, NewInfo
<1>3. toBeRemoved \in Seq(UiClient) /\ Len(toBeRemoved) = 0
    BY DEF UiInit
<1>4. UiTypeOK
    BY <1>1, <1>2, <1>3 DEF UiInit, UiTypeOK
<1>5. Connected = {}
    BY DEF UiInit, Connected
<1> QED BY <1>3, <1>4, <1>5 DEF UiInit, UiInv, EndedOnce, UsersAreCounted

LEMMA UiNewClientKeeps ==
    ASSUME UiInv, NEW d \in Descriptor, UiNewClient(d)
    PROVE  UiInv'
<1> USE UiAssumption DEF UiInv
<1>1. /\ clients[d] = 0 /\ opened < MaxClient /\ ~cleared
      /\ opened' = opened + 1
      /\ clients' = [clients EXCEPT ![d] = opened + 1]
      /\ info' = [info EXCEPT ![opened + 1].registered = TRUE]
      /\ usersConnected' = Cardinality(Connected) + 1
      /\ UNCHANGED <<toBeRemoved, cleared, cleaner, undefined>>
    BY DEF UiNewClient, Counted
<1>2. opened + 1 \in UiClient /\ opened \in Nat
    BY <1>1 DEF UiTypeOK, UiClient
<1>3. /\ info' \in [UiClient -> [user : User \cup {NoUser}, registered : BOOLEAN]]
      /\ \A c \in UiClient : c # opened + 1 => info'[c] = info[c]
    BY <1>1, <1>2 DEF UiTypeOK
<1>4. UiTypeOK'
    <2>1. clients' \in [Descriptor -> 0..(opened + 1)]
        BY <1>1, <1>2 DEF UiTypeOK
    <2>2. usersConnected' \in Nat
        BY <1>1, ConnectedIsFinite
    <2>3. opened' \in 0..MaxClient
        BY <1>1 DEF UiTypeOK
    <2> QED BY <1>1, <1>3, <2>1, <2>2, <2>3 DEF UiTypeOK
<1>5. Connected \subseteq Connected'
    BY <1>1 DEF Connected, UiTypeOK
<1>6. EndedOnce'
    <2>1. \A i \in 1..Len(toBeRemoved) :
              /\ toBeRemoved[i] \in Connected'
              /\ toBeRemoved[i] \in UiClient /\ toBeRemoved[i] # opened + 1
        BY <1>1, <1>2, <1>5, ConnectedIsFinite DEF EndedOnce, UiClient, UiTypeOK
    <2> QED BY <1>1, <1>3, <2>1 DEF EndedOnce
<1>7. UsersAreCounted'
    BY <1>1, ConnectedIsFinite DEF UsersAreCounted
<1> QED BY <1>4, <1>6, <1>7

LEMMA SocketEndsKeeps ==
    ASSUME UiInv, NEW c \in UiClient, SocketEnds(c)
    PROVE  UiInv'
<1> USE DEF UiInv
<1>1. /\ c \in Connected /\ info[c].registered
      /\ info' = [info EXCEPT ![c] = [info[c] EXCEPT !.registered = FALSE]]
      /\ toBeRemoved' = Append(toBeRemoved, c)
      /\ UNCHANGED <<clients, opened, usersConnected, cleared, cleaner, undefined>>
    BY DEF SocketEnds, EndConnection, Event, Unregistered
<1>2. /\ info' \in [UiClient -> [user : User \cup {NoUser}, registered : BOOLEAN]]
      /\ ~info'[c].registered
      /\ \A b \in UiClient : b # c => info'[b] = info[b]
    BY <1>1 DEF UiTypeOK
<1>3. toBeRemoved \in Seq(UiClient)
    BY DEF UiTypeOK
<1>4. /\ toBeRemoved' \in Seq(UiClient)
      /\ Len(toBeRemoved') = Len(toBeRemoved) + 1
      /\ toBeRemoved'[Len(toBeRemoved) + 1] = c
      /\ \A i \in 1..Len(toBeRemoved) : toBeRemoved'[i] = toBeRemoved[i]
    BY <1>1, <1>3
<1>5. UiTypeOK'
    BY <1>1, <1>2, <1>4 DEF UiTypeOK
<1>6. EndedOnce'
    <2> SUFFICES ASSUME ~cleared
                 PROVE  \A i \in 1..Len(toBeRemoved') :
                            /\ toBeRemoved'[i] \in Connected
                            /\ ~info'[toBeRemoved'[i]].registered
                            /\ \A j \in 1..(i - 1) : toBeRemoved'[j] # toBeRemoved'[i]
        BY <1>1 DEF EndedOnce, Connected
    <2>1. \A i \in 1..Len(toBeRemoved) :
              /\ toBeRemoved[i] \in UiClient /\ toBeRemoved[i] # c
              /\ toBeRemoved[i] \in Connected /\ ~info[toBeRemoved[i]].registered
              /\ \A j \in 1..(i - 1) : toBeRemoved[j] # toBeRemoved[i]
        BY <1>1, <1>3 DEF EndedOnce
    <2> TAKE i \in 1..Len(toBeRemoved')
    <2>2. CASE i = Len(toBeRemoved) + 1
        BY <1>1, <1>2, <1>3, <1>4, <2>1, <2>2
    <2>3. CASE i \in 1..Len(toBeRemoved)
        <3>1. \A j \in 1..(i - 1) : j \in 1..Len(toBeRemoved)
            BY <1>3, <2>3
        <3> QED BY <1>2, <1>4, <2>1, <2>3, <3>1
    <2> QED BY <1>3, <1>4, <2>2, <2>3
<1>7. UsersAreCounted'
    BY <1>1 DEF UsersAreCounted, Connected
<1> QED BY <1>5, <1>6, <1>7

LEMMA CleanerKeeps ==
    ASSUME UiInv, CleanerRuns
    PROVE  UiInv'
<1> USE UiAssumption DEF UiInv
<1>1. /\ undefined' = (\/ undefined
                       \/ \E i \in 1..Len(toBeRemoved) :
                             \/ toBeRemoved[i] \notin Connected
                             \/ \E j \in 1..(i - 1) : toBeRemoved[j] = toBeRemoved[i])
      /\ clients' = [d \in Descriptor |-> Erased(d)]
      /\ toBeRemoved' = <<>>
      /\ usersConnected' = Cardinality(Connected')
      /\ UNCHANGED <<opened, info, cleared, cleaner>>
    BY DEF CleanerRuns, Connected
<1>2. clients' \in [Descriptor -> 0..opened] /\ opened \in Nat
    BY <1>1 DEF UiTypeOK, Erased
<1>3. Connected' \subseteq 1..opened
    BY <1>2 DEF Connected
<1>4. IsFiniteSet(Connected')
    <2>1. IsFiniteSet(1..opened)
        BY <1>2, FS_Interval
    <2> QED BY <1>3, <2>1, FS_Subset
<1>5. /\ Cardinality(Connected') \in Nat
      /\ Connected' # {} => Cardinality(Connected') # 0
    BY <1>4, FS_EmptySet, FS_CardinalityType
<1>6. UiTypeOK'
    <2> DEFINE wrong == \/ undefined
                        \/ \E i \in 1..Len(toBeRemoved) :
                              \/ toBeRemoved[i] \notin Connected
                              \/ \E j \in 1..(i - 1) : toBeRemoved[j] = toBeRemoved[i]
    <2>0. undefined' = wrong /\ wrong \in BOOLEAN
        BY <1>1, Zenon
    <2>1. undefined' \in BOOLEAN
        BY <2>0, Zenon
    <2> HIDE DEF wrong
    <2>2. toBeRemoved' \in Seq(UiClient)
        BY <1>1
    <2> QED BY <1>1, <1>2, <1>5, <2>1, <2>2 DEF UiTypeOK
<1>7. EndedOnce'
    BY <1>1 DEF EndedOnce, UiTypeOK
<1>8. UsersAreCounted'
    BY <1>1, <1>5 DEF UsersAreCounted
<1> QED BY <1>6, <1>7, <1>8

LEMMA UiInvStep == UiInv /\ [UiNext]_uiVars => UiInv'
<1> SUFFICES ASSUME UiInv, [UiNext]_uiVars PROVE UiInv'
    OBVIOUS
<1>1. ASSUME NEW c \in UiClient, NEW u \in User, Authenticate(c, u)
      PROVE  UiInv'
    <2>1. /\ info' \in [UiClient -> [user : User \cup {NoUser}, registered : BOOLEAN]]
          /\ \A b \in UiClient : info'[b].registered = info[b].registered
        BY <1>1 DEF Authenticate, UiInv, UiTypeOK
    <2>2. \A i \in 1..Len(toBeRemoved) : toBeRemoved[i] \in UiClient
        BY DEF UiInv, UiTypeOK
    <2>3. UNCHANGED <<clients, opened, toBeRemoved, usersConnected, cleared, cleaner,
                      undefined>>
        BY <1>1 DEF Authenticate
    <2>4. UiTypeOK'
        BY <2>1, <2>3 DEF UiInv, UiTypeOK
    <2>5. EndedOnce'
        BY <2>1, <2>2, <2>3 DEF UiInv, EndedOnce, Connected
    <2> QED BY <2>3, <2>4, <2>5 DEF UiInv, UsersAreCounted, Connected
<1>2. CASE Clear
    BY <1>2, UiAssumption DEF Clear, UiInv, UiTypeOK, EndedOnce, UsersAreCounted
<1>3. CASE StopCleaner
    BY <1>3 DEF StopCleaner, UiInv, UiTypeOK, EndedOnce, UsersAreCounted
<1>4. CASE UNCHANGED uiVars
    BY <1>4 DEF uiVars, UiInv, UiTypeOK, EndedOnce, UsersAreCounted, Connected
<1> QED BY <1>1, <1>2, <1>3, <1>4, UiNewClientKeeps, SocketEndsKeeps, CleanerKeeps
        DEF UiNext

(* Until UI_WebSocketClientServer stops, its cleaner uses every iterator   *)
(* once and while it is valid, and the count that IsAnyoneConnected reads  *)
(* without the mutex is zero only when nobody is there.                    *)
THEOREM UiClientsAreKept == UiSpec => []ClientsAreKept
<1>1. UiInv => ClientsAreKept
    BY DEF UiInv, UiTypeOK, EndedOnce, ClientsAreKept, ErasedOnce
<1> QED BY <1>1, UiInvInit, UiInvStep, PTL DEF UiSpec

-----------------------------------------------------------------------------
(* The message bus. *)

Msg == [n : Nat, event : {"DATA", "JOIN", "KEEP_ALIVE", "LEAVE"}]

BusTypeOK ==
    /\ main \in {"starting", "running", "wakeBus", "joinBus", "joinProducer",
                 "joinConsumer", "stopped"}
    /\ bus \in {"off", "starting", "sleeping", "leaving"}
    /\ producer \in {"off", "starting", "waiting", "busy"}
    /\ queue \in Seq(Msg) /\ hand \in Seq(Msg) /\ posted \in Seq(Msg) /\ sent \in Seq(Msg)
    /\ dropped \subseteq Msg
    /\ notifiers \in [Topic -> Seq(Watcher)] /\ calling \in Seq(Watcher)

(* The number of messages that the producer has taken from the queue. *)
Taken == Len(posted) - Len(queue)

(* A message carries its position; the queue holds the last ones posted,   *)
(* the hand the one before them, and what was sent or lost came earlier.   *)
Numbered ==
    /\ Len(queue) <= Len(posted) /\ Len(hand) <= 1
    /\ \A i \in 1..Len(queue) : queue[i].n = Taken + i
    /\ \A i \in 1..Len(hand) : hand[i].n = Taken
    /\ \A i \in 1..Len(sent) : sent[i].n <= Taken - Len(hand)
    /\ IsFiniteSet(dropped)
    /\ \A m \in dropped : m.n <= Taken - Len(hand)

(* What the producer has in its hand follows from where it is. *)
InHand ==
    /\ main = "starting" => producer = "off" /\ hand = <<>> /\ bus = "off"
    /\ producer \in {"starting", "waiting"} => hand = <<>>

(* Whoever has said LEAVE is gone for good. *)
Left ==
    \A i \in 1..Len(posted) :
        posted[i].event = "LEAVE" => bus = "off" /\ main # "starting"

BusInv == BusTypeOK /\ Numbered /\ InHand /\ Left /\ BusIsOrderly

(* What a message that is posted leaves behind. *)
LEMMA PostKeeps ==
    ASSUME BusInv, NEW e \in {"DATA", "JOIN", "KEEP_ALIVE", "LEAVE"}, PostMessage(e)
    PROVE  /\ queue' \in Seq(Msg) /\ posted' \in Seq(Msg)
           /\ Numbered' /\ SentInOrder'
           /\ Len(posted') = Len(posted) + 1
           /\ posted'[Len(posted) + 1].event = e
           /\ \A i \in 1..Len(posted) : posted'[i] = posted[i]
           /\ UNCHANGED <<hand, sent, dropped>>
<1> USE DEF BusInv
<1>1. /\ queue' = Append(queue, Message(e)) /\ posted' = Append(posted, Message(e))
      /\ UNCHANGED <<hand, sent, dropped>>
    BY DEF PostMessage
<1>2. /\ queue \in Seq(Msg) /\ posted \in Seq(Msg) /\ Message(e) \in Msg
      /\ Message(e).n = Len(posted) + 1 /\ Message(e).event = e
    BY DEF BusTypeOK, Message, Msg
<1>3. /\ queue' \in Seq(Msg) /\ posted' \in Seq(Msg)
      /\ Len(queue') = Len(queue) + 1 /\ Len(posted') = Len(posted) + 1
      /\ queue'[Len(queue) + 1] = Message(e) /\ posted'[Len(posted) + 1] = Message(e)
      /\ \A i \in 1..Len(queue) : queue'[i] = queue[i]
      /\ \A i \in 1..Len(posted) : posted'[i] = posted[i]
    BY <1>1, <1>2
<1>4. /\ Len(queue) \in Nat /\ Len(posted) \in Nat /\ Taken' = Taken /\ Taken \in Nat
    BY <1>2, <1>3 DEF Taken, Numbered
<1>5. Numbered'
    <2>1. \A i \in 1..Len(queue') : queue'[i].n = Taken + i
        <3> TAKE i \in 1..Len(queue')
        <3>1. CASE i = Len(queue) + 1
            BY <1>2, <1>3, <1>4, <3>1 DEF Taken
        <3>2. CASE i \in 1..Len(queue)
            BY <1>3, <3>2 DEF Numbered
        <3> QED BY <1>3, <1>4, <3>1, <3>2
    <2> QED BY <1>1, <1>3, <1>4, <2>1 DEF Numbered
<1>6. SentInOrder'
    <2>1. /\ Len(hand) \in Nat /\ Len(sent) \in Nat /\ Cardinality(dropped) \in Nat
        BY FS_CardinalityType DEF BusTypeOK, Numbered
    <2> QED BY <1>1, <1>3, <1>4, <2>1 DEF SentInOrder, BusIsOrderly
<1> QED BY <1>1, <1>2, <1>3, <1>5, <1>6

(* A step that touches no message. *)
LEMMA QuietKeeps ==
    ASSUME BusInv, UNCHANGED queueVars, BusTypeOK', InHand', UnregisteredIsNotCalled',
           bus = "off" /\ main # "starting" => bus' = "off" /\ main' # "starting"
    PROVE  BusInv'
<1> USE DEF BusInv
<1>1. Numbered' /\ SentInOrder' /\ LeaveIsLast'
    BY DEF queueVars, Numbered, Taken, SentInOrder, LeaveIsLast, BusIsOrderly
<1>2. Left'
    BY DEF queueVars, Left
<1> QED BY <1>1, <1>2 DEF BusIsOrderly

LEMMA WatchersKeep ==
    ASSUME BusInv, UNCHANGED <<notifiers, calling>>
    PROVE  UnregisteredIsNotCalled'
  BY DEF BusInv, BusIsOrderly, UnregisteredIsNotCalled, Registered, ToSet

(* Whoever posts, what was posted before keeps its place. *)
LEMMA PostingKeeps ==
    ASSUME BusInv, NEW e \in {"DATA", "JOIN", "KEEP_ALIVE", "LEAVE"}, PostMessage(e),
           UNCHANGED <<producerVars, consumerVars, main>>,
           bus' \in {"off", "starting", "sleeping", "leaving"},
           main = "starting" => bus' = "off",
           \/ e = "DATA" /\ bus' = bus
           \/ bus # "off" /\ main # "starting" /\ (e = "LEAVE" => bus' = "off")
    PROVE  BusInv'
<1> USE DEF BusInv
<1>1. UNCHANGED <<producer, producing, missed, consumer, topics, subscribed, notifiers,
                  calling, main>>
    BY DEF producerVars, consumerVars
<1>2. BusTypeOK' /\ InHand'
    BY <1>1, PostKeeps DEF BusTypeOK, InHand
<1>3. UnregisteredIsNotCalled'
    BY <1>1, WatchersKeep
<1>4. Len(posted) \in Nat
    BY DEF BusTypeOK
<1>5. Left'
    <2> SUFFICES ASSUME NEW i \in 1..Len(posted'), posted'[i].event = "LEAVE"
                 PROVE  bus' = "off" /\ main' # "starting"
        BY DEF Left
    <2>1. CASE i = Len(posted) + 1
        BY <1>1, <2>1, PostKeeps
    <2>2. CASE i \in 1..Len(posted)
        BY <1>1, <2>2, PostKeeps DEF Left
    <2> QED BY <1>4, <2>1, <2>2, PostKeeps
<1>6. LeaveIsLast'
    <2> SUFFICES ASSUME NEW i \in 1..Len(posted'), NEW j \in 1..Len(posted'), i < j,
                        posted'[i].event = "LEAVE"
                 PROVE  posted'[j].event = "DATA"
        BY DEF LeaveIsLast
    <2>1. i \in 1..Len(posted) /\ posted[i].event = "LEAVE"
        BY <1>4, PostKeeps
    <2>2. CASE j = Len(posted) + 1
        BY <2>1, <2>2, PostKeeps DEF Left
    <2>3. CASE j \in 1..Len(posted)
        BY <2>1, <2>3, PostKeeps DEF BusIsOrderly, LeaveIsLast
    <2> QED BY <1>4, <2>2, <2>3, PostKeeps
<1> QED BY <1>2, <1>3, <1>5, <1>6, PostKeeps DEF BusIsOrderly

(* The producer takes the oldest message. *)
LEMMA TakesKeeps ==
    ASSUME BusInv, ProducerTakes
    PROVE  BusInv'
<1> USE DEF BusInv
<1>1. /\ producer = "waiting" /\ queue # <<>>
      /\ hand' = <<Head(queue)>> /\ queue' = Tail(queue)
      /\ producer' \in {"busy", "off"}
      /\ UNCHANGED <<main, bus, posted, sent, dropped, notifiers, calling>>
    BY DEF ProducerTakes, busVars, consumerVars
<1>2. /\ queue \in Seq(Msg) /\ posted \in Seq(Msg) /\ sent \in Seq(Msg)
      /\ Len(queue) \in Nat /\ Len(posted) \in Nat /\ hand = <<>>
    BY <1>1 DEF BusTypeOK, InHand
<1>3. /\ Len(queue) > 0 /\ Head(queue) = queue[1] /\ queue[1] \in Msg
      /\ queue' \in Seq(Msg) /\ Len(queue') = Len(queue) - 1
      /\ \A i \in 1..Len(queue') : queue'[i] = queue[i + 1]
    BY <1>1, <1>2
<1>4. hand' \in Seq(Msg) /\ Len(hand') = 1 /\ hand'[1] = queue[1] /\ Len(hand) = 0
    BY <1>1, <1>2, <1>3
<1>5. Taken' = Taken + 1 /\ Taken \in Nat
    BY <1>1, <1>2, <1>3 DEF Taken, Numbered
<1>6. BusTypeOK' /\ InHand'
    BY <1>1, <1>3, <1>4 DEF BusTypeOK, InHand
<1>7. Numbered'
    <2>1. \A i \in 1..Len(queue') : queue'[i].n = Taken' + i
        <3> TAKE i \in 1..Len(queue')
        <3>1. i + 1 \in 1..Len(queue)
            BY <1>2, <1>3
        <3>2. queue[i + 1].n = Taken + (i + 1)
            BY <3>1 DEF Numbered
        <3> QED BY <1>3, <1>5, <3>2
    <2>2. \A i \in 1..Len(hand') : hand'[i].n = Taken'
        BY <1>2, <1>3, <1>4, <1>5 DEF Numbered
    <2> QED BY <1>1, <1>2, <1>3, <1>4, <1>5, <2>1, <2>2 DEF Numbered
<1>8. SentInOrder'
    <2>1. Len(sent) \in Nat /\ Cardinality(dropped) \in Nat
        BY <1>2, FS_CardinalityType DEF Numbered
    <2> QED BY <1>1, <1>2, <1>3, <1>4, <2>1 DEF SentInOrder, BusIsOrderly
<1>9. Left' /\ LeaveIsLast'
    BY <1>1 DEF Left, LeaveIsLast, BusIsOrderly
<1>10. UnregisteredIsNotCalled'
    BY <1>1, WatchersKeep
<1> QED BY <1>6, <1>7, <1>8, <1>9, <1>10 DEF BusIsOrderly

(* The message in the hand is sent, or lost: its number is above those of  *)
(* all that went before it, so it is not among the lost ones yet.          *)
LEMMA SendsKeeps ==
    ASSUME BusInv, ProducerSends
    PROVE  BusInv'
<1> USE DEF BusInv
<1>1. /\ producer = "busy" /\ producer' = "waiting" /\ hand' = <<>>
      /\ \/ sent' = sent \o hand /\ dropped' = dropped
         \/ dropped' = dropped \cup ToSet(hand) /\ sent' = sent
      /\ UNCHANGED <<main, bus, posted, queue, notifiers, calling>>
    BY DEF ProducerSends, Produces, busVars, consumerVars
<1>2. /\ queue \in Seq(Msg) /\ posted \in Seq(Msg) /\ sent \in Seq(Msg) /\ hand \in Seq(Msg)
      /\ Len(queue) \in Nat /\ Len(posted) \in Nat /\ Len(sent) \in Nat
      /\ Len(hand) \in Nat /\ dropped \subseteq Msg /\ IsFiniteSet(dropped)
      /\ Cardinality(dropped) \in Nat
    BY FS_CardinalityType DEF BusTypeOK, Numbered
<1>3. Taken' = Taken /\ Taken \in Nat
    BY <1>1, <1>2 DEF Taken, Numbered
<1>4. CASE Len(hand) = 0
    <2>1. hand = <<>> /\ ToSet(hand) = {} /\ sent \o hand = sent
        BY <1>2, <1>4 DEF ToSet
    <2>2. UNCHANGED <<main, bus, queue, hand, posted, sent, dropped, notifiers, calling>>
        BY <1>1, <2>1
    <2>3. BusTypeOK' /\ InHand'
        BY <1>1, <2>1, <2>2 DEF BusTypeOK, InHand
    <2>4. UnregisteredIsNotCalled'
        BY <2>2, WatchersKeep
    <2> QED BY <2>2, <2>3, <2>4, QuietKeeps DEF queueVars
<1>5. CASE Len(hand) = 1
    <2>0. 1 \in 1..Len(hand)
        BY <1>5
    <2>1. hand[1] \in Msg /\ hand[1].n = Taken /\ hand[1].n \in Nat
        BY <1>2, <1>3, <2>0 DEF Numbered
    <2>2. BusTypeOK' /\ InHand'
        <3>1. ToSet(hand) \subseteq Msg
            BY <1>2 DEF ToSet
        <3>2. sent \o hand \in Seq(Msg)
            BY <1>2
        <3>3. dropped \cup ToSet(hand) \subseteq Msg
            BY <1>2, <3>1
        <3>4. sent' \in Seq(Msg) /\ dropped' \subseteq Msg
            BY <1>1, <1>2, <3>2, <3>3
        <3>5. hand' \in Seq(Msg)
            BY <1>1
        <3> QED BY <1>1, <3>4, <3>5 DEF BusTypeOK, InHand
    <2>3. Left' /\ LeaveIsLast'
        BY <1>1 DEF Left, LeaveIsLast, BusIsOrderly
    <2>4. UnregisteredIsNotCalled'
        BY <1>1, WatchersKeep
    <2>5. Len(hand') = 0
        BY <1>1
    <2>6. CASE sent' = sent \o hand /\ dropped' = dropped
        <3>1. /\ Len(sent') = Len(sent) + 1 /\ sent'[Len(sent) + 1] = hand[1]
              /\ \A i \in 1..Len(sent) : sent'[i] = sent[i]
            <4>1. /\ Len(sent \o hand) = Len(sent) + Len(hand)
                  /\ \A i \in 1..Len(sent) : (sent \o hand)[i] = sent[i]
                  /\ (sent \o hand)[Len(sent) + 1] = hand[1]
                BY <1>2, <2>0
            <4> QED BY <1>5, <2>6, <4>1
        <3>2. \A i \in 1..Len(sent) : sent[i].n <= Taken - 1 /\ sent[i].n \in Nat
            <4>1. \A i \in 1..Len(sent) : sent[i] \in Msg
                BY <1>2
            <4>2. \A i \in 1..Len(sent) : sent[i].n \in Nat
                BY <4>1 DEF Msg
            <4> QED BY <1>5, <4>2 DEF Numbered
        <3>3. \A m \in dropped : m.n <= Taken - 1 /\ m.n \in Nat
            BY <1>2, <1>5 DEF Numbered, Msg
        <3>4. \A i \in 1..Len(sent') : sent'[i].n <= Taken
            <4> TAKE i \in 1..Len(sent')
            <4>1. CASE i = Len(sent) + 1
                BY <1>3, <2>1, <3>1, <4>1
            <4>2. CASE i \in 1..Len(sent)
                BY <1>3, <3>1, <3>2, <4>2
            <4>3. Len(sent) \in Nat
                BY <1>2
            <4> QED BY <3>1, <4>1, <4>2, <4>3
        <3>5. Numbered'
            BY <1>1, <1>2, <1>3, <2>5, <2>6, <3>3, <3>4 DEF Numbered
        <3>6. \A i, j \in 1..Len(sent') : i < j => sent'[i].n < sent'[j].n
            <4> SUFFICES ASSUME NEW i \in 1..Len(sent'), NEW j \in 1..Len(sent'), i < j
                         PROVE  sent'[i].n < sent'[j].n
                OBVIOUS
            <4>1. i \in 1..Len(sent)
                BY <1>2, <3>1
            <4>2. CASE j = Len(sent) + 1
                BY <1>3, <2>1, <3>1, <3>2, <4>1, <4>2
            <4>3. CASE j \in 1..Len(sent)
                BY <3>1, <4>1, <4>3 DEF SentInOrder, BusIsOrderly
            <4> QED BY <1>2, <3>1, <4>2, <4>3
        <3>7. SentInOrder'
            BY <1>1, <1>2, <1>5, <2>5, <2>6, <3>1, <3>6 DEF SentInOrder, BusIsOrderly
        <3> QED BY <2>2, <2>3, <2>4, <3>5, <3>7 DEF BusIsOrderly
    <2>7. CASE dropped' = dropped \cup ToSet(hand) /\ sent' = sent
        <3>1. ToSet(hand) = {hand[1]}
            BY <1>2, <1>5 DEF ToSet
        <3>2. \A m \in dropped : m.n <= Taken - 1 /\ m.n \in Nat
            BY <1>2, <1>5 DEF Numbered, Msg
        <3>3. hand[1] \notin dropped
            BY <1>3, <2>1, <3>2
        <3>4. /\ IsFiniteSet(dropped') /\ Cardinality(dropped') = Cardinality(dropped) + 1
            BY <1>2, <2>7, <3>1, <3>3, FS_AddElement
        <3>5. \A m \in dropped' : m.n <= Taken
            BY <1>3, <2>1, <2>7, <3>1, <3>2
        <3>6. \A i \in 1..Len(sent) : sent[i].n <= Taken - 1 /\ sent[i].n \in Nat
            <4>1. \A i \in 1..Len(sent) : sent[i] \in Msg
                BY <1>2
            <4>2. \A i \in 1..Len(sent) : sent[i].n \in Nat
                BY <4>1 DEF Msg
            <4> QED BY <1>5, <4>2 DEF Numbered
        <3>7. Numbered'
            BY <1>1, <1>2, <1>3, <2>5, <2>7, <3>4, <3>5, <3>6 DEF Numbered
        <3>8. SentInOrder'
            <4>1. \A i, j \in 1..Len(sent') : i < j => sent'[i].n < sent'[j].n
                BY <2>7 DEF SentInOrder, BusIsOrderly
            <4>2. Len(posted') = Len(queue') + Len(hand') + Len(sent') + Cardinality(dropped')
                <5>1. Len(posted) = Len(queue) + Len(hand) + Len(sent) + Cardinality(dropped)
                    BY DEF SentInOrder, BusIsOrderly
                <5> QED BY <1>1, <1>2, <1>5, <2>5, <2>7, <3>4, <5>1
            <4> QED BY <4>1, <4>2 DEF SentInOrder
        <3> QED BY <2>2, <2>3, <2>4, <3>7, <3>8 DEF BusIsOrderly
    <2> QED BY <1>1, <2>6, <2>7
<1>6. Len(hand) = 0 \/ Len(hand) = 1
    <2>1. Len(hand) \in Nat
        BY <1>2
    <2>2. Len(hand) <= 1
        BY DEF Numbered
    <2> QED BY <2>1, <2>2
<1> QED BY <1>4, <1>5, <1>6

(* The watchers change only while no callback is owed. *)
LEMMA WatchersChangeInPeace ==
    ASSUME BusInv, NEW w \in Watcher,
           UnregisterTopicWatcher(w) \/ \E t \in Topic : RegisterTopicWatcher(w, t)
    PROVE  BusInv'
<1> USE DEF BusInv
<1>1. /\ calling = <<>>
      /\ UNCHANGED <<main, bus, producer, queue, hand, posted, sent, dropped, calling>>
    BY DEF UnregisterTopicWatcher, MayUnregister, ConsumerMutexFree,
           RegisterTopicWatcher, busVars, queueVars, producerVars
<1>2. notifiers \in [Topic -> Seq(Watcher)]
    BY DEF BusTypeOK
<1>3. notifiers' \in [Topic -> Seq(Watcher)]
    <2>1. CASE UnregisterTopicWatcher(w)
        <3>1. PICK t \in Topic : \E i \in 1..Len(notifiers[t]) :
                    notifiers' = [notifiers EXCEPT ![t] = RemoveAt(@, i)]
            BY <2>1 DEF UnregisterTopicWatcher
        <3>2. PICK i \in 1..Len(notifiers[t]) :
                    notifiers' = [notifiers EXCEPT ![t] = RemoveAt(@, i)]
            BY <3>1
        <3>3. notifiers[t] \in Seq(Watcher)
            BY <1>2
        <3>4. /\ SubSeq(notifiers[t], 1, i - 1) \in Seq(Watcher)
              /\ SubSeq(notifiers[t], i + 1, Len(notifiers[t])) \in Seq(Watcher)
            BY <3>3
        <3>5. RemoveAt(notifiers[t], i) \in Seq(Watcher)
            BY <3>4 DEF RemoveAt
        <3> QED BY <1>2, <3>2, <3>5
    <2>2. CASE \E t \in Topic : RegisterTopicWatcher(w, t)
        <3>1. PICK t \in Topic : notifiers' = [notifiers EXCEPT ![t] = Append(@, w)]
            BY <2>2 DEF RegisterTopicWatcher
        <3>2. Append(notifiers[t], w) \in Seq(Watcher)
            BY <1>2
        <3> QED BY <1>2, <3>1, <3>2
    <2> QED BY <2>1, <2>2
<1>4. BusTypeOK' /\ InHand'
    BY <1>1, <1>3 DEF BusTypeOK, InHand
<1>5. UnregisteredIsNotCalled'
    BY <1>1 DEF UnregisteredIsNotCalled, ToSet
<1> QED BY <1>1, <1>4, <1>5, QuietKeeps DEF queueVars

LEMMA BusInvInit == ServiceBusInit => BusInv
<1> SUFFICES ASSUME ServiceBusInit PROVE BusInv
    OBVIOUS
<1> USE DEF ServiceBusInit
<1>1. BusTypeOK
    BY DEF BusTypeOK
<1>2. /\ Len(queue) = 0 /\ Len(hand) = 0 /\ Len(posted) = 0 /\ Len(sent) = 0
      /\ ToSet(calling) = {} /\ Cardinality(dropped) = 0 /\ IsFiniteSet(dropped)
    BY FS_EmptySet DEF ToSet
<1>3. Numbered
    BY <1>2 DEF Numbered, Taken
<1>4. SentInOrder /\ LeaveIsLast /\ UnregisteredIsNotCalled
    BY <1>2 DEF SentInOrder, LeaveIsLast, UnregisteredIsNotCalled
<1> QED BY <1>1, <1>2, <1>3, <1>4 DEF BusInv, InHand, Left, BusIsOrderly

LEMMA BusInvStep == BusInv /\ [ServiceBusNext]_serviceBusVars => BusInv'
<1> SUFFICES ASSUME BusInv, [ServiceBusNext]_serviceBusVars PROVE BusInv'
    OBVIOUS
<1> USE DEF BusInv
<1>1. CASE \/ StartSubSystemServers \/ StopEventBus \/ WakeEventBus \/ StopProducer
           \/ StopConsumer \/ Joined \/ ProducerStarts \/ ConsumerStarts
           \/ ConsumerDispatches \/ ConsumerEnds \/ UNCHANGED serviceBusVars
    <2>1. UNCHANGED <<queueVars, notifiers, calling>>
        BY <1>1 DEF StartSubSystemServers, StopEventBus, WakeEventBus, StopProducer,
                    StopConsumer, Joined, ProducerStarts, ConsumerStarts,
                    ConsumerDispatches, ConsumerEnds, serviceBusVars, consumerVars
    <2>2. /\ main' \in {"starting", "running", "wakeBus", "joinBus", "joinProducer",
                        "joinConsumer", "stopped"}
          /\ bus' \in {"off", "starting", "sleeping", "leaving"}
          /\ producer' \in {"off", "starting", "waiting", "busy"}
        BY <1>1 DEF BusTypeOK, StartSubSystemServers, StopEventBus, WakeEventBus,
                    StopProducer, WokenUp, StopConsumer, Joined, ProducerStarts,
                    ConsumerStarts, ConsumerDispatches, ConsumerEnds, serviceBusVars,
                    busVars, producerVars, consumerVars
    <2>3. BusTypeOK'
        BY <2>1, <2>2 DEF BusTypeOK, queueVars
    <2>4. InHand'
        BY <1>1, <2>1
           DEF InHand, StartSubSystemServers, StopEventBus, WakeEventBus,
               StopProducer, WokenUp, StopConsumer, Joined, ProducerStarts,
               ConsumerStarts, ConsumerDispatches, ConsumerEnds, serviceBusVars,
               busVars, queueVars, producerVars, consumerVars
    <2>5. bus = "off" /\ main # "starting" => bus' = "off" /\ main' # "starting"
        BY <1>1 DEF StartSubSystemServers, StopEventBus, WakeEventBus, StopProducer,
                    StopConsumer, Joined, ProducerStarts, ConsumerStarts,
                    ConsumerDispatches, ConsumerEnds, serviceBusVars, busVars
    <2> QED BY <2>1, <2>3, <2>4, <2>5, WatchersKeep, QuietKeeps
<1>2. CASE Post
    BY <1>2, PostingKeeps DEF Post, busVars, BusTypeOK, InHand
<1>3. CASE BusStarts
    BY <1>3, PostingKeeps DEF BusStarts, BusTypeOK, InHand
<1>4. CASE BusWakes
    <2>1. /\ PostMessage(AfterWake) /\ AfterWake \in {"KEEP_ALIVE", "LEAVE"}
          /\ AfterWake = "LEAVE" => BusAfterWake = "off"
          /\ BusAfterWake \in {"off", "sleeping", "leaving"}
        BY <1>4 DEF BusWakes, AfterWake, BusAfterWake
    <2>2. bus # "off" /\ main # "starting" /\ bus' = BusAfterWake
        BY <1>4 DEF BusWakes, InHand
    <2> QED BY <1>4, <2>1, <2>2, PostingKeeps DEF BusWakes
<1>5. CASE CallBack \/ \E t \in Topic : Receive(t)
    <2>1. UNCHANGED <<queueVars, notifiers, main, bus, producer>>
        BY <1>5 DEF CallBack, Receive, busVars, producerVars
    <2>2. calling' \in Seq(Watcher) /\ UnregisteredIsNotCalled'
        <3>1. CASE CallBack
            <4>1. /\ calling' \in Seq(Watcher) /\ Len(calling') = Len(calling) - 1
                  /\ \A i \in 1..Len(calling') : calling'[i] = calling[i + 1]
                BY <3>1 DEF CallBack, BusTypeOK
            <4>2. ToSet(calling') \subseteq ToSet(calling)
                <5> SUFFICES ASSUME NEW i \in 1..Len(calling')
                             PROVE  calling'[i] \in ToSet(calling)
                    BY <4>1 DEF ToSet
                <5>1. i + 1 \in 1..Len(calling) /\ calling \in Seq(Watcher)
                    BY <4>1 DEF BusTypeOK
                <5> QED BY <4>1, <5>1 DEF ToSet
            <4> QED BY <2>1, <4>1, <4>2
                    DEF UnregisteredIsNotCalled, Registered, BusIsOrderly
        <3>2. CASE \E t \in Topic : Receive(t)
            BY <2>1, <3>2 DEF Receive, UnregisteredIsNotCalled, Registered, BusTypeOK
        <3> QED BY <1>5, <3>1, <3>2
    <2>3. BusTypeOK' /\ InHand'
        BY <2>1, <2>2 DEF BusTypeOK, InHand, queueVars
    <2> QED BY <2>1, <2>2, <2>3, QuietKeeps
<1> QED BY <1>1, <1>2, <1>3, <1>4, <1>5, TakesKeeps, SendsKeeps, WatchersChangeInPeace
        DEF ServiceBusNext

(* From posting to the callbacks, KafkaManager neither reorders nor        *)
(* repeats a message, the gateway says LEAVE last, and a watcher that has  *)
(* unregistered is not called.                                             *)
THEOREM TheBusIsOrderly == ServiceBusSpec => []BusIsOrderly
<1>1. BusInv => BusIsOrderly
    BY DEF BusInv
<1> QED BY <1>1, BusInvInit, BusInvStep, PTL DEF ServiceBusSpec
=============================================================================
