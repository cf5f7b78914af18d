SPECIFICATION Spec
CONSTANTS
  Prices = {3, 5, 8}
  MaxQty = 3
  MaxFills = 5
INVARIANTS
  CashBalances
  FlatHasNoCost
  AverageWithinEntries
