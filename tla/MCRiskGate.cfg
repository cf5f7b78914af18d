SPECIFICATION Spec
CONSTANTS
  Symbols <- TwoThreads
  Traded <- Shared
  OrderQty = 1
  OrderValues = {1, 2}
  MaxOrderValue = 1
  MaxPosition = 2
  Cooldown = 2
  From = 3
  WordSize = 16
  MaxTime = 6
INVARIANTS
  TypeOK
  ExposureBounded
  CooldownBounded
