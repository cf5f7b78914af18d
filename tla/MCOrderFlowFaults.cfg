SPECIFICATION Spec
CONSTANTS
  MaxOrders = 3
  Symbols = {"AAPL"}
  SymbolOf <- OneSymbol
  SideOf <- AllBuys
  QtyOf <- TwoThenOne
  NoOrder = NoOrder
  Faults = {"queryFail", "foreignOrder", "earlyOrder", "authFail", "lostAck"}
  MaxTracked = 3
  PageSize = 2
  MaxPosition = 3
  MaxDisconnects = 1
INVARIANTS
  AtMostOneWorking
  OverLimitOnlyByLost
PROPERTIES
  TrackerKeepsWorking
