\* A malformed line ends the program and what it has not printed.
SPECIFICATION SSpec
CONSTANTS
  h1 = h1
  h2 = h2
  h3 = h3
  Names <- MCNames
  Addrs <- MCAddrs
  Lines <- MCLines
  Digits = {"1"}
  OutOfRange <- MCOutOfRange
  Incs = {1}
  Times = {1}
  MaxCalls = 2
  CtorRace = FALSE
SYMMETRY Symmetry
INVARIANT
  InputNeverKills
