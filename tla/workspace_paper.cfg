SPECIFICATION FairSpec
CONSTANTS
  a = a
  b = b
  c1 = c1
  c2 = c2
  Symbols = {a, b}
  AllowShort = FALSE
  MaxOrderQty = 3
  MaxPositionQty = 2
  MaxOpenPositions = 1
  MaxNotional = 3
  Calls = {c1, c2}
  NoCall = NoCall
  Strategies <- MCStrategies
  NoStrategy = NoStrategy
  Prices <- MCPrices
  Remote = FALSE
  HasStore = TRUE
  MaxWorking = 0
INVARIANTS
  TypeOK
PROPERTIES
  ImplementsDesk
  CallsReturn
  HaltQuiets
CHECK_DEADLOCK FALSE
