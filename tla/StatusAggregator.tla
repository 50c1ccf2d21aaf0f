--------------------------- MODULE StatusAggregator ---------------------------
(***************************************************************************)
(* The node uam_status_aggregator_node.cpp: it keeps the last status of    *)
(* each of its topics and publishes them together, at every status or, if  *)
(* publish_on_change is set, at every status that differs from the last.   *)
(***************************************************************************)
CONSTANTS
  Topics,            \* params_.status_topics that are valid names
  Statuses, Default, \* the statuses of the sensors; a default constructed one
  PublishOnChange,   \* params_.publish_on_change
  Nothing            \* nothing was published

Status == Statuses \cup {Default}
Output == [Topics -> Status]

VARIABLES
  output,     \* output_status_
  published   \* the last message on the latched topic

TypeOK ==
  /\ output \in Output
  /\ published \in Output \cup {Nothing}

Init ==
  /\ output = [topic \in Topics |-> Default]
  /\ published = Nothing

\* Mutant: the comparison is made after the assignment.
ChangesAfterwards(topic, status) == FALSE

Changes(topic, status) == status # output[topic]

statusCallback(topic, status) ==
  /\ output' = [output EXCEPT ![topic] = status]
  /\ published' = IF PublishOnChange /\ ~Changes(topic, status) THEN published ELSE output'

=============================================================================
