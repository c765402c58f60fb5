\* Queues of constant size: threads wait for ever, main() with them.
SPECIFICATION PFairSpec
CONSTANTS
  Uids <- MCUids
  Checkpoints <- MCCheckpoints
  Transitions <- MCTransitions
  Times = {1}
  SetBack = FALSE
  MaxCalls = 12
  Requests = 2
  Stages = 2
  QueueSize = 1
PROPERTY
  MainFlushes
CHECK_DEADLOCK FALSE
