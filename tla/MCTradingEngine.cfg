CONSTANTS
  A = A
  B = B
  Long = Long
  Orders <- MCOrders
  Files <- MCFiles
  Overrides <- MCOverrides
  MaxSymbols = 2
  MaxTime = 2
  MaxFills <- MCMaxFills
  Word = 16
  Highest = 1
SPECIFICATION FairSpec
INVARIANTS
  TypeOK
  NoUseAfterDestroy
  OneTripPerOrder
PROPERTIES
  OnlyLongWaitsAreMissed
  ReportIsFinal
  UnheardOnlyAfterStop
  EngineEnds
