-------------------------- MODULE StatusTopics_proofs --------------------------
(***************************************************************************)
(* The proofs about the status on its way from the lidar to the aggregate. *)
(*                                                                         *)
(* Between the comparison and the publication the update topic is behind   *)
(* only if on_update_status remembers it (ServiceInv).  From there the     *)
(* message that counts is either in the queue of the aggregator or is what *)
(* the aggregator holds, and what it holds is published unless it is still *)
(* the default, with which a first status is compared (TopicsInv).         *)
(***************************************************************************)
EXTENDS StatusTopics, TLAPS

UpdatePending == io \in {"publish", "clear", "update"}

ServiceInv ==
  /\ ~UpdatePending => updateTopic = last
  /\ UpdatePending =>
      /\ onUpdate \in BOOLEAN
      /\ onUpdate => last = status
      /\ ~onUpdate => updateTopic = last

LEMMA MainStep == ASSUME ServiceInv, Main PROVE ServiceInv'
<1> USE DEF ServiceInv, UpdatePending, thread
<1>1. ASSUME NEW received \in Statuses, Configure(received) PROVE ServiceInv'
  BY <1>1 DEF Configure
<1>2. CASE TriggerReconfigure BY <1>2 DEF TriggerReconfigure, topics
<1>3. CASE Call BY <1>3 DEF Call, topics
<1>4. CASE Refuse BY <1>4 DEF Refuse, topics
<1>5. CASE Sleep BY <1>5 DEF Sleep, topics
<1>6. CASE Return BY <1>6 DEF Return, topics
<1> QED BY <1>1, <1>2, <1>3, <1>4, <1>5, <1>6 DEF Main

LEMMA UpdateStatusStep == ASSUME ServiceInv, UpdateStatus PROVE ServiceInv'
<1> USE DEF ServiceInv, UpdatePending
<1>1. CASE Compare
  <2>1. onUpdate' = (last # status) /\ io' = "publish"
    BY <1>1 DEF Compare
  <2>2. status' = status /\ updateTopic' = updateTopic /\ updateTopic = last
    BY <1>1 DEF Compare, topics
  <2>3. last' = status \/ (last' = last /\ last = status)
    BY <1>1 DEF Compare
  <2>4. onUpdate' \in BOOLEAN
    BY <2>1
  <2>5. onUpdate' => last' = status'
    BY <2>2, <2>3
  <2>6. ~onUpdate' => updateTopic' = last'
    BY <2>1, <2>2, <2>3
  <2> QED BY <2>1, <2>4, <2>5, <2>6
<1>2. CASE PublishOnRequest BY <1>2 DEF PublishOnRequest
<1>3. CASE ClearRequest BY <1>3 DEF ClearRequest, topics
<1>4. CASE PublishOnUpdate BY <1>4 DEF PublishOnUpdate
<1> QED BY <1>1, <1>2, <1>3, <1>4 DEF UpdateStatus

\* However the calls of the service and the scans of the io thread interleave,
\* no change of the status is kept from the subscribers of the update topic.
THEOREM UpdateTopicAlwaysCurrent == Spec => []UpdateTopicIsCurrent
<1>1. Init => ServiceInv
  BY DEF Init, ServiceInv, UpdatePending
<1>2. ServiceInv /\ [Next]_vars => ServiceInv'
  <2>1. ASSUME ServiceInv, UNCHANGED vars PROVE ServiceInv'
    BY <2>1 DEF ServiceInv, UpdatePending, vars, thread, topics
  <2>2. ASSUME ServiceInv, NEW received \in Statuses, Scan(received) PROVE ServiceInv'
    BY <2>2 DEF ServiceInv, UpdatePending, Scan, topics
  <2> QED BY <2>1, <2>2, MainStep, UpdateStatusStep DEF Next
<1>3. ServiceInv => UpdateTopicIsCurrent
  BY DEF ServiceInv, UpdatePending, UpdateTopicIsCurrent
<1> QED BY <1>1, <1>2, <1>3, PTL DEF Spec

----------------------------------------------------------------------------
\* The fields of the two threads stay of their types.
LEMMA ServiceTyped ==
  ASSUME TypeOK, [Next]_vars
  PROVE  TypeOK'
<1> USE DEF TypeOK, main, thread, topics
<1>1. ASSUME NEW received \in Statuses, Configure(received) PROVE TypeOK'
  BY <1>1 DEF Configure
<1>2. CASE TriggerReconfigure BY <1>2 DEF TriggerReconfigure
<1>3. CASE Call BY <1>3, CyclesAssumption DEF Call
<1>4. CASE Refuse BY <1>4 DEF Refuse
<1>5. CASE Sleep BY <1>5, CyclesAssumption DEF Sleep
<1>6. CASE Return BY <1>6, CyclesAssumption DEF Return
<1>7. ASSUME NEW received \in Statuses, Scan(received) PROVE TypeOK'
  BY <1>7 DEF Scan
<1>8. CASE Compare BY <1>8 DEF Compare
<1>9. CASE PublishOnRequest BY <1>9 DEF PublishOnRequest
<1>10. CASE ClearRequest BY <1>10 DEF ClearRequest
<1>11. CASE PublishOnUpdate BY <1>11 DEF PublishOnUpdate
<1>12. CASE UNCHANGED vars BY <1>12 DEF vars
<1> QED BY <1>1, <1>2, <1>3, <1>4, <1>5, <1>6, <1>7, <1>8, <1>9, <1>10, <1>11, <1>12
        DEF Next, Main, UpdateStatus

LEMMA ServiceStep ==
  ASSUME ServiceInv, [Next]_vars
  PROVE  ServiceInv'
<1>1. ASSUME UNCHANGED vars PROVE ServiceInv'
  BY <1>1 DEF ServiceInv, UpdatePending, vars, thread, topics
<1>2. ASSUME NEW received \in Statuses, Scan(received) PROVE ServiceInv'
  BY <1>2 DEF ServiceInv, UpdatePending, Scan, topics
<1> QED BY <1>1, <1>2, MainStep, UpdateStatusStep DEF Next

\* The update topic changes only with a message on it.
LEMMA UpdateIsPublished ==
  ASSUME TypeOK, Next, ~PublishesUpdate
  PROVE  updateTopic' = updateTopic
<1> USE DEF PublishesUpdate, main, thread, topics
<1>1. ASSUME NEW received \in Statuses, Configure(received) PROVE FALSE
  BY <1>1 DEF Configure
<1>2. CASE PublishOnUpdate BY <1>2 DEF PublishOnUpdate
<1> QED BY <1>1, <1>2
        DEF Next, Main, UpdateStatus, TriggerReconfigure, Call, Refuse, Sleep, Return, Scan,
            Compare, PublishOnRequest, ClearRequest

----------------------------------------------------------------------------
Unheard == \A topic \in Topics : output[topic] = Default

TopicsInv ==
  /\ TypeOKTopics
  /\ ServiceInv
  /\ latched[Lidar] = updateTopic
  /\ inbox[Lidar] \in {None, updateTopic}
  /\ updateTopic # None /\ inbox[Lidar] = None => output[Lidar] = updateTopic
  /\ published = output \/ (published = Nothing /\ Unheard)

LEMMA TopicsInitially == TopicsInit => TopicsInv
<1> SUFFICES ASSUME TopicsInit PROVE TopicsInv
  OBVIOUS
<1>0. Init
  BY DEF TopicsInit
<1>1. TypeOK
  <2>1. waited \in 0..Cycles
    BY <1>0, CyclesAssumption DEF Init
  <2>2. {status, last, requestTopic, updateTopic} \subseteq Statuses \cup {None}
    BY <1>0 DEF Init
  <2>3. /\ configured \in BOOLEAN /\ requested \in BOOLEAN
        /\ onRequest \in BOOLEAN /\ onUpdate \in BOOLEAN
    BY <1>0, Zenon DEF Init
  <2>4. /\ service \in {"idle", "waiting"} /\ answer \in {"none", "published", "failed"}
        /\ io \in {"idle", "compare", "publish", "clear", "update"}
    BY <1>0 DEF Init
  <2> QED BY <2>1, <2>2, <2>3, <2>4, Zenon DEF TypeOK
<1>2. Aggregator!TypeOK
  BY DEF TopicsInit, Aggregator!Init, Aggregator!TypeOK, Aggregator!Output, Aggregator!Status
<1>3. TypeOKTopics
  BY <1>1, <1>2, RestartsAssumption DEF TopicsInit, TypeOKTopics, Messages
<1> QED BY <1>3, LidarAssumption
        DEF TopicsInit, TopicsInv, Init, ServiceInv, UpdatePending, Aggregator!Init, Unheard

LEMMA NodeKeepsInv ==
  ASSUME TopicsInv, Node
  PROVE  TopicsInv'
<1>1. TypeOK' /\ ServiceInv'
  BY ServiceTyped, ServiceStep DEF TopicsInv, TypeOKTopics, Node
<1>2. Aggregator!TypeOK' /\ restarts' \in 0..MaxRestarts
  BY DEF TopicsInv, TypeOKTopics, Node, aggregator, Aggregator!TypeOK
<1>3. updateTopic' \in Statuses \cup {None}
  BY <1>1 DEF TypeOK
<1>4. CASE PublishesUpdate
  <2>1. /\ latched' = [latched EXCEPT ![Lidar] = updateTopic']
        /\ inbox' = [inbox EXCEPT ![Lidar] = updateTopic']
    BY <1>4 DEF Node, Published
  <2>2. latched' \in Messages /\ inbox' \in Messages
    BY <1>3, <2>1, LidarAssumption DEF TopicsInv, TypeOKTopics, Messages
  <2>3. latched'[Lidar] = updateTopic' /\ inbox'[Lidar] = updateTopic'
    BY <2>1, LidarAssumption DEF TopicsInv, TypeOKTopics, Messages
  <2> QED BY <1>1, <1>2, <2>2, <2>3 DEF TopicsInv, TypeOKTopics, Node, aggregator, Unheard
<1>5. CASE ~PublishesUpdate
  <2>1. updateTopic' = updateTopic /\ UNCHANGED <<latched, inbox>>
    BY <1>5, UpdateIsPublished DEF Node, TopicsInv, TypeOKTopics
  <2> QED BY <1>1, <1>2, <2>1 DEF TopicsInv, TypeOKTopics, Node, aggregator, Unheard
<1> QED BY <1>4, <1>5

LEMMA OtherNodeKeepsInv ==
  ASSUME TopicsInv, NEW topic \in Topics \ {Lidar}, NEW received \in Statuses,
         OtherNode(topic, received)
  PROVE  TopicsInv'
<1>1. TypeOK' /\ ServiceInv'
  BY ServiceTyped, ServiceStep DEF TopicsInv, TypeOKTopics, OtherNode
<1>2. latched' \in Messages /\ inbox' \in Messages
  BY DEF TopicsInv, TypeOKTopics, OtherNode, Published, Messages
<1>3. latched'[Lidar] = latched[Lidar] /\ inbox'[Lidar] = inbox[Lidar]
  BY LidarAssumption DEF TopicsInv, TypeOKTopics, OtherNode, Published, Messages
<1> QED BY <1>1, <1>2, <1>3
        DEF TopicsInv, TypeOKTopics, OtherNode, aggregator, Unheard, Aggregator!TypeOK, vars, topics

LEMMA DeliverKeepsInv ==
  ASSUME TopicsInv, NEW topic \in Topics, Deliver(topic)
  PROVE  TopicsInv'
<1> DEFINE message == inbox[topic]
<1>1. message \in Statuses
  BY DEF TopicsInv, TypeOKTopics, Messages, Deliver
<1>2. TypeOK' /\ ServiceInv'
  BY ServiceTyped, ServiceStep DEF TopicsInv, TypeOKTopics, Deliver
<1>3. /\ output' = [output EXCEPT ![topic] = message]
      /\ output \in [Topics -> Statuses \cup {Default}]
  BY DEF TopicsInv, TypeOKTopics, Aggregator!TypeOK, Aggregator!Output, Aggregator!Status,
         Deliver, Aggregator!statusCallback
<1>4. output' \in [Topics -> Statuses \cup {Default}]
  BY <1>1, <1>3
<1>5. published' = output' \/ (published' = Nothing /\ Unheard')
  <2>1. CASE PublishOnChange /\ message = output[topic]
    <3>1. output' = output
      BY <1>3, <2>1
    <3>2. published' = published
      BY <2>1 DEF Deliver, Aggregator!statusCallback, Aggregator!Changes
    <3> QED BY <3>1, <3>2 DEF TopicsInv, Unheard
  <2>2. CASE ~(PublishOnChange /\ message = output[topic])
    BY <2>2 DEF Deliver, Aggregator!statusCallback, Aggregator!Changes
  <2> QED BY <2>1, <2>2
<1>6. Aggregator!TypeOK'
  BY <1>3, <1>4, <1>5 DEF Aggregator!TypeOK, Aggregator!Output, Aggregator!Status
<1>7. /\ inbox' = [inbox EXCEPT ![topic] = None] /\ inbox' \in Messages
      /\ latched' = latched /\ restarts' = restarts /\ updateTopic' = updateTopic
  BY DEF TopicsInv, TypeOKTopics, Messages, Deliver, vars, topics
<1>8. TypeOKTopics'
  BY <1>2, <1>6, <1>7 DEF TopicsInv, TypeOKTopics
<1>9. /\ inbox'[Lidar] \in {None, updateTopic'}
      /\ updateTopic' # None /\ inbox'[Lidar] = None => output'[Lidar] = updateTopic'
  <2>1. CASE topic = Lidar
    <3>1. message = updateTopic
      BY <2>1 DEF TopicsInv, Deliver
    <3> QED BY <1>3, <1>7, <2>1, <3>1, LidarAssumption DEF TopicsInv, TypeOKTopics, Messages
  <2>2. CASE topic # Lidar
    <3>1. inbox'[Lidar] = inbox[Lidar] /\ output'[Lidar] = output[Lidar]
      BY <1>3, <1>7, <2>2, LidarAssumption DEF TopicsInv, TypeOKTopics, Messages
    <3> QED BY <1>7, <3>1 DEF TopicsInv
  <2> QED BY <2>1, <2>2
<1> QED BY <1>2, <1>5, <1>7, <1>8, <1>9 DEF TopicsInv

LEMMA RestartKeepsInv ==
  ASSUME TopicsInv, AggregatorRestarts
  PROVE  TopicsInv'
<1>1. TypeOK' /\ ServiceInv'
  BY ServiceTyped, ServiceStep DEF TopicsInv, TypeOKTopics, AggregatorRestarts
<1>2. Aggregator!TypeOK' /\ Unheard'
  BY DEF AggregatorRestarts, Aggregator!TypeOK, Aggregator!Output, Aggregator!Status, Unheard
<1>3. restarts' \in 0..MaxRestarts
  BY RestartsAssumption DEF TopicsInv, TypeOKTopics, AggregatorRestarts
<1> QED BY <1>1, <1>2, <1>3, LidarAssumption
        DEF TopicsInv, TypeOKTopics, AggregatorRestarts, vars, topics

LEMMA TopicsStep == TopicsInv /\ [TopicsNext]_topicVars => TopicsInv'
<1> SUFFICES ASSUME TopicsInv, [TopicsNext]_topicVars PROVE TopicsInv'
  OBVIOUS
<1>1. CASE UNCHANGED topicVars
  <2>1. TypeOK' /\ ServiceInv'
    BY <1>1, ServiceTyped, ServiceStep DEF TopicsInv, TypeOKTopics, topicVars
  <2> QED BY <1>1, <2>1
          DEF TopicsInv, TypeOKTopics, topicVars, aggregator, Unheard, Aggregator!TypeOK, vars, topics
<1> QED BY <1>1, NodeKeepsInv, RestartKeepsInv, DeliverKeepsInv, OtherNodeKeepsInv DEF TopicsNext

LEMMA TopicsInvariant == TopicsSpec => []TopicsInv
<1> QED BY TopicsInitially, TopicsStep, PTL DEF TopicsSpec

\* Every field of the two nodes, and every message between them, is of its type.
THEOREM TopicsTyped == TopicsSpec => []TypeOKTopics
<1>1. TopicsInv => TypeOKTopics
  BY DEF TopicsInv
<1> QED BY <1>1, TopicsInvariant, PTL

\* For any number of lidars, in both modes of publish_on_change: the aggregate
\* holds the last status of the lidar unless a message is on its way.
THEOREM AggregateAlwaysCurrent == TopicsSpec => []AggregateIsCurrent
<1>1. TopicsInv => AggregateIsCurrent
  <2> SUFFICES ASSUME TopicsInv, io = "idle", last # None, inbox[Lidar] = None
               PROVE  published # Nothing /\ published[Lidar] = last
    BY DEF AggregateIsCurrent
  <2>1. updateTopic = last /\ last \in Statuses
    BY DEF TopicsInv, ServiceInv, UpdatePending, TypeOKTopics, TypeOK
  <2>2. output[Lidar] = last
    BY <2>1 DEF TopicsInv
  <2>3. ~Unheard
    BY <2>1, <2>2, LidarAssumption, DefaultAssumption DEF Unheard
  <2>4. published = output /\ output # Nothing
    BY <2>3, NothingAssumption
       DEF TopicsInv, TypeOKTopics, Aggregator!TypeOK, Aggregator!Output, Aggregator!Status
  <2> QED BY <2>2, <2>4
<1> QED BY <1>1, TopicsInvariant, PTL

=============================================================================
