SPECIFICATION Spec
CONSTANTS
  MaxOrders = 3
  Symbols = {"AAPL"}
  SymbolOf <- OneSymbol
  SideOf <- AllBuys
  QtyOf <- Ones
  NoOrder = NoOrder
  Faults = {"lostAck"}
  MaxTracked = 3
  PageSize = 2
  MaxPosition = 2
  MaxDisconnects = 1
INVARIANT
  BrokerWithinLimit
