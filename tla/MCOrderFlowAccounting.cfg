SPECIFICATION FairSpec
CONSTANTS
  MaxOrders = 3
  Symbols = {"AAPL"}
  SymbolOf <- OneSymbol
  SideOf <- BuySellBuy
  QtyOf <- TwoThenOne
  NoOrder = NoOrder
  Faults = {}
  MaxTracked = 3
  PageSize = 2
  MaxPosition = 3
  MaxDisconnects = 2
INVARIANTS
  NeverOverCounted
  PositionsMatchBroker
PROPERTIES
  SubmittedIsExecuted
  EndIsLearnt
