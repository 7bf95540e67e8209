SPECIFICATION Spec
CONSTANTS
  a = a
  b = b
  d1 = d1
  d2 = d2
  d3 = d3
  d4 = d4
  NoReturn = NoReturn
  Item = {a, b}
  Quantity <- MCGiftQuantity
  LineTotal <- MCGiftLineTotal
  Tracked = {a}
  FirstCaptures <- MCOneTender
  LateCapture = {}
  HandOut = {}
  ReturnId = {d1, d2}
  MaxAsked = 2
  MaxCaptures = 1
  MaxHandOuts = 0
INVARIANTS
  ReturnedStockIsBack
CHECK_DEADLOCK FALSE
