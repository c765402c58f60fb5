\* Two counters and a measure, flushed in either format.
SPECIFICATION FairSpec
CONSTANTS
  c1 = c1
  c2 = c2
  m1 = m1
  Counters <- MCCounters
  Others <- MCOthers
  Incs = {1}
  Modulus = 2
  Times = {1, 2}
  SetBack = FALSE
  MaxTotal = 2
INVARIANTS
  TypeOK
  HeldIsOfInterval
  NoGap
PROPERTIES
  ImplementsLedger
  StampsAdvance
  CountedIsReported
