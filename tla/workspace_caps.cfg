SPECIFICATION Spec
CONSTANTS
  a = a
  b = b
  c1 = c1
  c2 = c2
  Symbols = {a, b}
  AllowShort = FALSE
  MaxOrderQty = 3
  MaxPositionQty = 1
  MaxOpenPositions = 1
  MaxNotional = 3
  Calls = {c1, c2}
  NoCall = NoCall
  Strategies <- OneStrategy
  NoStrategy = NoStrategy
  Prices <- OnePrice
  Remote = TRUE
  HasStore = TRUE
  MaxWorking = 2
INVARIANT
  PositionCapIsHard
CHECK_DEADLOCK FALSE
