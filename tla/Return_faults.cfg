SPECIFICATION Spec
CONSTANTS
  a = a
  b = b
  d1 = d1
  d2 = d2
  d3 = d3
  d4 = d4
  NoReturn = NoReturn
  Item = {a, b}
  Quantity <- MCQuantity
  LineTotal <- MCLineTotal
  Tracked = {a}
  FirstCaptures <- MCOneTender
  LateCapture = {1, 4}
  HandOut = {1, 2}
  ReturnId = {d1, d2, d3, d4}
  MaxAsked = 3
  MaxCaptures = 2
  MaxHandOuts = 2
INVARIANTS
  TypeOK
  RefundFollowsQuantity
  EachReturnCountsOnce
  ReturnedIsSettled
  ReturnedStockIsBack
  ReturnsStayPossible
PROPERTIES
  RefundsFollowLedger
  TendersNeverOverRefunded
  ReturnsAreCovered
CHECK_DEADLOCK FALSE
