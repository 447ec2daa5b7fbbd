------------------------------- MODULE ServiceBus -------------------------------
(***************************************************************************)
(* The way of a message to the service bus and from it: KafkaManager with  *)
(* its producer and its consumer thread, EventBusManager, which announces  *)
(* this gateway, and the main thread that starts and stops them.           *)
(*                                                                         *)
(* The producer's queue is a Poco NotificationQueue: wakeUpAll wakes only  *)
(* the thread that waits at that moment.  Thread_.wakeUp of the event bus  *)
(* is remembered by the thread's event.  Kafka itself is external: produce *)
(* may throw, and the dispatcher hands over what arrives on a topic.       *)
(***************************************************************************)
EXTENDS Naturals, Sequences, FiniteSets, SequencesExt

CONSTANTS
    Topic,      \* the topics of the bus
    Watcher,    \* callbacks of RegisterTopicWatcher
    MaxPosts    \* bound on the messages posted

VARIABLES
    main,       \* where the main thread is
    bus,        \* where the event bus thread is
    busRunning, \* EventBusManager::Running_
    woken,      \* the event of Thread_.wakeUp
    producer,   \* where the producer thread is
    producing,  \* KafkaProducer::Running_
    queue,      \* Queue_: what is to be sent
    hand,       \* the message the producer has taken
    posted,     \* every message posted, in order
    sent,       \* every message produced, in order
    dropped,    \* messages whose produce threw
    missed,     \* Stop found the producer thread not waiting
    consumer,   \* where the consumer thread is
    topics,     \* Topics_: topics that have had a watcher
    subscribed, \* what the consumer has subscribed to
    notifiers,  \* Notifiers_[t]: the watchers of topic t, in order
    calling     \* the callbacks yet to be called for the message in hand

busVars == <<bus, busRunning, woken>>
queueVars == <<queue, hand, posted, sent, dropped>>
producerVars == <<producer, producing, missed>>
consumerVars == <<consumer, topics, subscribed, notifiers, calling>>
serviceBusVars == <<main, busVars, queueVars, producerVars, consumerVars>>

\* A message: its position among all that were posted, and what it says.
Message(e) == [n |-> Len(posted) + 1, event |-> e]

ServiceBusInit ==
    /\ main = "starting"
    /\ bus = "off" /\ busRunning = FALSE /\ woken = FALSE
    /\ producer = "off" /\ producing = FALSE /\ missed = FALSE
    /\ queue = <<>> /\ hand = <<>> /\ posted = <<>> /\ sent = <<>>
    /\ dropped = {}
    /\ consumer = "off" /\ topics = {} /\ subscribed = {}
    /\ notifiers = [t \in Topic |-> <<>>]
    /\ calling = <<>>

----------------------------------------------------------------------------
(* Posting *)

\* KafkaManager::PostMessage: Queue_.enqueueNotification.
PostMessage(e) ==
    /\ Len(posted) < MaxPosts
    /\ queue' = Append(queue, Message(e))
    /\ posted' = Append(posted, Message(e))
    /\ UNCHANGED <<hand, sent, dropped>>

\* Any other part of the gateway posts; some stop after KafkaManager.
Post ==
    /\ PostMessage("DATA")
    /\ UNCHANGED <<main, busVars, producerVars, consumerVars>>

----------------------------------------------------------------------------
(* EventBusManager *)

\* run: JOIN first.
BusStarts ==
    /\ bus = "starting"
    /\ busRunning' = TRUE
    /\ bus' = "sleeping"
    /\ PostMessage("JOIN")
    /\ UNCHANGED <<main, woken, producerVars, consumerVars>>

\* What the thread posts when its sleep ends.
AfterWake == IF woken \/ bus = "leaving" THEN "LEAVE" ELSE "KEEP_ALIVE"

\* Mutant: LEAVE is posted inside the loop, which Running_ ends.
BusAfterWakeMutant == IF busRunning \/ bus = "sleeping" THEN "sleeping" ELSE "off"

BusAfterWake ==
    CASE woken \/ bus = "leaving" -> "off"
      [] ~woken /\ bus = "sleeping" /\ busRunning -> "sleeping"
      [] OTHER -> "leaving"

\* The sleep ends.  A wake-up leaves the loop and LEAVE is the last message;
\* a KEEP_ALIVE is followed by a look at Running_.
BusWakes ==
    /\ bus \in {"sleeping", "leaving"}
    /\ PostMessage(AfterWake)
    /\ bus' = BusAfterWake
    /\ UNCHANGED <<main, busRunning, woken, producerVars, consumerVars>>

----------------------------------------------------------------------------
(* KafkaProducer *)

\* run, up to its first wait: Running_ is set, whatever Stop has done.
ProducerStarts ==
    /\ producer = "starting"
    /\ producing' = TRUE
    /\ producer' = "waiting"
    /\ UNCHANGED <<main, busVars, queueVars, missed, consumerVars>>

\* waitDequeueNotification returns a message: it is sent, or, when Running_
\* is gone, left unsent.
ProducerTakes ==
    /\ producer = "waiting" /\ queue # <<>>
    /\ hand' = <<Head(queue)>>
    /\ queue' = Tail(queue)
    /\ producer' = IF producing THEN "busy" ELSE "off"
    /\ UNCHANGED <<main, busVars, posted, sent, dropped, producing, missed,
                   consumerVars>>

\* Mutant: a message whose produce threw goes back into the queue.
ProducesMutant ==
    \/ sent' = sent \o hand /\ UNCHANGED <<dropped, queue>>
    \/ queue' = queue \o hand /\ UNCHANGED <<dropped, sent>>

\* produce and flush succeed, or throw: the message is then lost.
Produces ==
    /\ \/ sent' = sent \o hand /\ UNCHANGED dropped
       \/ dropped' = dropped \cup ToSet(hand) /\ UNCHANGED sent
    /\ UNCHANGED queue

ProducerSends ==
    /\ producer = "busy"
    /\ Produces
    /\ hand' = <<>>
    /\ producer' = "waiting"
    /\ UNCHANGED <<main, busVars, posted, producing, missed, consumerVars>>

----------------------------------------------------------------------------
(* KafkaConsumer *)

\* run: the subscription is to the topics that have a watcher by now.
ConsumerStarts ==
    /\ consumer = "starting"
    /\ consumer' = "running"
    /\ subscribed' = topics
    /\ UNCHANGED <<main, busVars, queueVars, producerVars, topics, notifiers,
                   calling>>

\* The dispatcher is made.
ConsumerDispatches ==
    /\ consumer = "running"
    /\ consumer' = "dispatching"
    /\ UNCHANGED <<main, busVars, queueVars, producerVars, topics, subscribed,
                   notifiers, calling>>

\* A message arrives: ConsumerMutex_ is held until every watcher was called
\* and the message committed.
ConsumerMutexFree == calling = <<>>

Receive(t) ==
    /\ consumer = "dispatching" /\ ConsumerMutexFree
    /\ t \in subscribed
    /\ calling' = notifiers[t]
    /\ UNCHANGED <<main, busVars, queueVars, producerVars, consumer, topics,
                   subscribed, notifiers>>

\* A callback returns or throws: the next one is called in both cases.
CallBack ==
    /\ calling # <<>>
    /\ calling' = Tail(calling)
    /\ UNCHANGED <<main, busVars, queueVars, producerVars, consumer, topics,
                   subscribed, notifiers>>

Registered(w) == \E t \in Topic : w \in ToSet(notifiers[t])

RegisterTopicWatcher(w, t) ==
    /\ ConsumerMutexFree /\ ~Registered(w)
    /\ notifiers' = [notifiers EXCEPT ![t] = Append(@, w)]
    /\ topics' = topics \cup {t}
    /\ UNCHANGED <<main, busVars, queueVars, producerVars, consumer,
                   subscribed, calling>>

\* Mutant: the list is changed without ConsumerMutex_.
MayUnregisterMutant(w) == Registered(w)

MayUnregister(w) == Registered(w) /\ ConsumerMutexFree

\* The loop erases the first entry with the watcher's id; the topic stays subscribed.
UnregisterTopicWatcher(w) ==
    /\ MayUnregister(w)
    /\ \E t \in Topic : \E i \in 1..Len(notifiers[t]) :
          /\ notifiers[t][i] = w /\ \A j \in 1..(i - 1) : notifiers[t][j] # w
          /\ notifiers' = [notifiers EXCEPT ![t] = RemoveAt(@, i)]
    /\ UNCHANGED <<main, busVars, queueVars, producerVars, consumer, topics,
                   subscribed, calling>>

----------------------------------------------------------------------------
(* The main thread: StartSubSystemServers and StopSubSystemServers *)

\* KafkaManager::Start, then EventBusManager::Start.
StartSubSystemServers ==
    /\ main = "starting"
    /\ main' = "running"
    /\ consumer' = "starting"
    /\ producer' = "starting" /\ producing' = TRUE
    /\ bus' = "starting"
    /\ UNCHANGED <<busRunning, woken, queueVars, missed, topics, subscribed,
                   notifiers, calling>>

\* EventBusManager::Stop: first the flag, then the wake-up, then the join.
StopEventBus ==
    /\ main = "running"
    /\ main' = "wakeBus"
    /\ busRunning' = FALSE
    /\ UNCHANGED <<bus, woken, queueVars, producerVars, consumerVars>>

WakeEventBus ==
    /\ main = "wakeBus"
    /\ main' = "joinBus"
    /\ woken' = TRUE
    /\ UNCHANGED <<bus, busRunning, queueVars, producerVars, consumerVars>>

\* Mutant: Stop does not wake the thread up.
WokenUpMutant == producer

\* Queue_.wakeUpAll: a waiting thread gets no message and its loop ends.
WokenUp == IF producer = "waiting" /\ queue = <<>> THEN "off" ELSE producer

\* KafkaProducer::Stop.
StopProducer ==
    /\ main = "joinBus" /\ bus = "off"
    /\ main' = "joinProducer"
    /\ producing' = FALSE
    /\ producer' = WokenUp
    /\ missed' = (producer \in {"starting", "busy"})
    /\ UNCHANGED <<busVars, queueVars, consumerVars>>

\* The join returned; KafkaConsumer::Stop, which does nothing before the
\* thread has set Running_, and ends the dispatcher only if there is one.
StopConsumer ==
    /\ main = "joinProducer" /\ producer = "off"
    /\ main' = IF consumer = "starting" THEN "stopped" ELSE "joinConsumer"
    /\ consumer' = IF consumer = "dispatching" THEN "ending" ELSE consumer
    /\ UNCHANGED <<busVars, queueVars, producerVars, topics, subscribed,
                   notifiers, calling>>

\* The dispatcher ends after the message in hand.
ConsumerEnds ==
    /\ consumer = "ending" /\ ConsumerMutexFree
    /\ consumer' = "off"
    /\ UNCHANGED <<main, busVars, queueVars, producerVars, topics, subscribed,
                   notifiers, calling>>

Joined ==
    /\ main = "joinConsumer" /\ consumer = "off"
    /\ main' = "stopped"
    /\ UNCHANGED <<busVars, queueVars, producerVars, consumerVars>>

----------------------------------------------------------------------------

ServiceBusNext ==
    \/ StartSubSystemServers \/ StopEventBus \/ WakeEventBus \/ StopProducer \/ StopConsumer
    \/ Joined
    \/ Post \/ BusStarts \/ BusWakes
    \/ ProducerStarts \/ ProducerTakes \/ ProducerSends
    \/ ConsumerStarts \/ ConsumerDispatches \/ CallBack \/ ConsumerEnds
    \/ \E t \in Topic : Receive(t)
    \/ \E w \in Watcher : \/ UnregisterTopicWatcher(w)
                          \/ \E t \in Topic : RegisterTopicWatcher(w, t)

ServiceBusSpec == ServiceBusInit /\ [][ServiceBusNext]_serviceBusVars

\* The threads run; nobody has to post, to register or to stop the gateway.
ServiceBusFairness ==
    /\ WF_serviceBusVars(StopProducer) /\ WF_serviceBusVars(StopConsumer)
    /\ WF_serviceBusVars(Joined)
    /\ WF_serviceBusVars(ProducerTakes) /\ WF_serviceBusVars(ProducerSends)
    /\ WF_serviceBusVars(CallBack) /\ WF_serviceBusVars(ConsumerEnds)

ServiceBusFairSpec == ServiceBusSpec /\ ServiceBusFairness

----------------------------------------------------------------------------
(* Properties *)

\* Every message posted is in exactly one place, and what was sent was sent
\* in the order of posting, once: neither an exception of produce, which the
\* loop of KafkaProducer::run swallows, nor a stop reorders or repeats.
SentInOrder ==
    /\ \A i, j \in 1..Len(sent) : i < j => sent[i].n < sent[j].n
    /\ Len(posted) = Len(queue) + Len(hand) + Len(sent)
                        + Cardinality(dropped)

\* The last thing this gateway says of itself is LEAVE, once, and never is a
\* KEEP_ALIVE posted behind it: a peer would list the gateway again.
LeaveIsLast ==
    \A i, j \in 1..Len(posted) :
        (i < j /\ posted[i].event = "LEAVE") => posted[j].event = "DATA"

\* No callback of a watcher runs once UnregisterTopicWatcher has returned.
UnregisteredIsNotCalled == \A w \in ToSet(calling) : Registered(w)

\* KafkaManager::Stop returns if its wake-up found the producer thread waiting
\* and the consumer had its dispatcher.  A stop that comes while the producer
\* starts, or while it sends the last message, waits for somebody to post, or
\* for ever.
StopReturns ==
    /\ (main = "joinProducer" /\ ~missed) ~> (main # "joinProducer")
    /\ (main = "joinConsumer" /\ consumer = "ending") ~> (main = "stopped")

\* What goes through KafkaManager, from posting to the callbacks, is neither
\* reordered nor repeated nor handed to somebody who has left.
BusIsOrderly == SentInOrder /\ LeaveIsLast /\ UnregisteredIsNotCalled
================================================================================
