SPECIFICATION Spec
CONSTANTS
  MaxOrders = 3
  Symbols = {"AAPL"}
  SymbolOf <- OneSymbol
  SideOf <- AllBuys
  QtyOf <- Ones
  NoOrder = NoOrder
  Faults = {"eventInWindow"}
  MaxTracked = 3
  PageSize = 2
  MaxPosition = 3
  MaxDisconnects = 1
INVARIANT
  NeverOverCounted
