\* The dump thread runs before m_terminate is initialised: the last dump is missing.
SPECIFICATION Spec
CONSTANTS
  h1 = h1
  h2 = h2
  h3 = h3
  n1 = n1
  n2 = n2
  Names <- MCOneName
  Addrs <- MCAddrs
  Incs = {1}
  Times = {1}
  MaxCalls = 2
  CtorRace = TRUE
INVARIANT ExitReportsAll
