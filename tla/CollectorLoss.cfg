\* A failing write loses the counts that were reset before it.
SPECIFICATION Spec
CONSTANTS
  c1 = c1
  c2 = c2
  m1 = m1
  Counters <- OneCounter
  Others = {}
  Incs = {1}
  Modulus = 4
  Times = {1}
  SetBack = FALSE
  MaxTotal = 2
INVARIANT
  NothingLost
