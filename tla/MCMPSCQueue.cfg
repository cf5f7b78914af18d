SPECIFICATION FairSpec
CONSTANTS
  Producers = {p1, p2, p3}
  MaxPush <- OneTwice
  Stub = Stub
  Null = Null
INVARIANTS
  NoUseAfterFree
  NoLeak
  PoppedInPushOrder
  DrainedBeforeExit
PROPERTIES
  ShutdownCompletes
  ImplementsFifo
