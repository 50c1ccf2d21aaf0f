SPECIFICATION FairTopicsSpec
CONSTANTS
  Statuses = {clear, warning}
  None = none
  Cycles = 2
  Topics = {front, rear}
  Default = default
  PublishOnChange = TRUE
  Nothing = nothing
  Lidar = front
  MaxRestarts = 1
INVARIANTS
  TypeOKTopics
  UpdateTopicIsCurrent
  AggregateIsCurrent
PROPERTIES
  ServiceReturns
  StatusArrives
