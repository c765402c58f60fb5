\* Two requests, two threads, both formats.
SPECIFICATION TSpec
CONSTANTS
  u1 = u1
  u2 = u2
  p1 = p1
  p2 = p2
  t1 = t1
  t2 = t2
  Uids <- MCUids
  Checkpoints <- MCCheckpoints
  Transitions <- MCTransitions
  Threads <- MCThreads
  Times = {1, 2, 3}
  SetBack = FALSE
  MaxCalls = 3
SYMMETRY Symmetry
INVARIANTS
  TypeOK
  EachCallIsCounted
  DurationsDoNotOverlap
  DurationsMatchCounts
  ReportsAgree
PROPERTY
  ImplementsAtomic
