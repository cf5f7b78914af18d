SPECIFICATION Spec
CONSTANTS
  Symbols <- OneSymbol
  Traded <- OneSymbol
  OrderQty = 1
  OrderValues = {1, 2}
  MaxOrderValue = 1
  MaxPosition = 2
  Cooldown = 2
  From = 2
  WordSize = 16
  MaxTime = 10
INVARIANT
  LimitRespected
