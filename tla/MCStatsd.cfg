\* The whole program: input, parser, storage and dump thread.
SPECIFICATION SFairSpec
CONSTANTS
  h1 = h1
  h2 = h2
  h3 = h3
  Names <- MCNames
  Addrs <- MCAddrs
  Lines <- MCLines
  Digits = {"1"}
  OutOfRange <- MCOutOfRange
  Incs = {1}
  Times = {1}
  MaxCalls = 2
  CtorRace = FALSE
INVARIANTS
  STypeOK
  ExitReportsInput
  OnlyLastLineIsUnaccepted
PROPERTIES
  JoinReturns
  ReadIsPrinted
