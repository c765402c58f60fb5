\* Safety of the two threads; the dump thread starts after the constructor.
SPECIFICATION Spec
CONSTANTS
  h1 = h1
  h2 = h2
  h3 = h3
  n1 = n1
  n2 = n2
  Names <- MCNames
  Addrs <- MCAddrs
  Incs = {1}
  Times = {1, 2}
  MaxCalls = 3
  CtorRace = FALSE
SYMMETRY Symmetry
INVARIANTS
  TypeOK
  HeapSafe
  Conservation
  AtMostOneLostPerDump
  IntervalsTile
  ExitReportsAll
PROPERTIES
  ImplementsLedger
