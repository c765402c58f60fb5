\* Queues that hold everything: the pipeline comes to its end.
SPECIFICATION PFairSpec
CONSTANTS
  Uids <- MCUids
  Checkpoints <- MCCheckpoints
  Transitions <- MCTransitions
  Times = {1}
  SetBack = FALSE
  MaxCalls = 12
  Requests = 3
  Stages = 2
  QueueSize = 5
INVARIANTS
  KnownIsOnItsWay
  EveryStepIsKnown
PROPERTY
  MainFlushes
