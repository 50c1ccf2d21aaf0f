----------------------------- MODULE StatusTopics -----------------------------
(***************************************************************************)
(* The status of the lidars on its way through the nodes: the UAM node of  *)
(* StatusService publishes on its latched update topic, the node of        *)
(* StatusAggregator subscribes to it and to those of other lidars with     *)
(* queues of one message, and may be restarted.                            *)
(*                                                                         *)
(* A message that is not handled before the next one arrives is dropped,   *)
(* and a subscriber that is new gets the message that is latched.          *)
(***************************************************************************)
EXTENDS StatusService

CONSTANTS
  Topics, Default, PublishOnChange, Nothing,  \* of StatusAggregator
  Lidar,       \* the topic of the UAM node
  MaxRestarts  \* bound: restarts of the aggregator

ASSUME LidarAssumption == Lidar \in Topics
ASSUME RestartsAssumption == MaxRestarts \in Nat
\* A status that was received has an area number, which counts from 1.
ASSUME DefaultAssumption == Default \notin Statuses
ASSUME NothingAssumption == Nothing \notin [Topics -> Statuses \cup {Default}]

VARIABLES
  output, published,  \* of StatusAggregator
  latched,  \* the last message on each of the topics
  inbox,    \* the message in the queue of each subscriber
  restarts

Aggregator == INSTANCE StatusAggregator

aggregator == <<output, published>>
topicVars  == <<vars, aggregator, latched, inbox, restarts>>

Messages == [Topics -> Statuses \cup {None}]

TypeOKTopics ==
  /\ TypeOK /\ Aggregator!TypeOK
  /\ latched \in Messages /\ inbox \in Messages
  /\ restarts \in 0..MaxRestarts

TopicsInit ==
  /\ Init /\ Aggregator!Init
  /\ latched = [topic \in Topics |-> None] /\ inbox = [topic \in Topics |-> None]
  /\ restarts = 0

----------------------------------------------------------------------------
\* Mutant: a message that finds the queue full is the one that is dropped.
PublishedOnceEmpty(topic, message) ==
  /\ latched' = [latched EXCEPT ![topic] = message]
  /\ inbox' = IF inbox[topic] = None THEN [inbox EXCEPT ![topic] = message] ELSE inbox

\* The topic is latched, and the queue of its subscriber keeps the last message.
Published(topic, message) ==
  /\ latched' = [latched EXCEPT ![topic] = message]
  /\ inbox' = [inbox EXCEPT ![topic] = message]

\* updateStatus() publishes at the end of a scan that changed the status, and
\* from configure().
PublishesUpdate ==
  \/ io = "update" /\ io' = "idle" /\ onUpdate
  \/ ~configured /\ configured'

Node ==
  /\ Next
  /\ IF PublishesUpdate THEN Published(Lidar, updateTopic') ELSE UNCHANGED <<latched, inbox>>
  /\ UNCHANGED <<aggregator, restarts>>

OtherNode(topic, received) ==
  /\ Published(topic, received)
  /\ UNCHANGED <<vars, aggregator, restarts>>

Deliver(topic) ==
  /\ inbox[topic] # None
  /\ Aggregator!statusCallback(topic, inbox[topic])
  /\ inbox' = [inbox EXCEPT ![topic] = None]
  /\ UNCHANGED <<vars, latched, restarts>>

\* The constructor: nothing is known, and every subscription brings the
\* latched message.
AggregatorRestarts ==
  /\ restarts < MaxRestarts /\ restarts' = restarts + 1
  /\ output' = [topic \in Topics |-> Default] /\ published' = Nothing
  /\ inbox' = latched
  /\ UNCHANGED <<vars, latched>>

TopicsNext ==
  \/ Node \/ AggregatorRestarts
  \/ \E topic \in Topics : Deliver(topic)
  \/ \E topic \in Topics \ {Lidar}, received \in Statuses : OtherNode(topic, received)

TopicsSpec == TopicsInit /\ [][TopicsNext]_topicVars

\* Besides the fairness of StatusService, a message that is in a queue is
\* handled: the node spins, and a topic's turn comes.
FairTopicsSpec ==
  /\ TopicsSpec
  /\ WF_vars(Sleep \/ Return) /\ WF_vars(UpdateStatus)
  /\ \A topic \in Topics : WF_topicVars(Deliver(topic))

----------------------------------------------------------------------------
(* Properties *)

\* End to end: unless a message is still on its way, the aggregate that the
\* last node publishes holds the last status of the lidar, with dropped
\* messages, publish_on_change and restarts in between.
AggregateIsCurrent ==
  io = "idle" /\ last # None /\ inbox[Lidar] = None =>
    published # Nothing /\ published[Lidar] = last

\* A status that stays is seen by who reads the aggregate, and goes on being
\* seen, unless a call of the service or a scan forgets to publish it.
StatusArrives ==
  \A news \in Statuses :
    <>[](last = news) => <>[](published # Nothing /\ published[Lidar] = news)

=============================================================================
