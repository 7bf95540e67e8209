SPECIFICATION Spec
CONSTANTS
  a = a
  b = b
  d1 = d1
  d2 = d2
  d3 = d3
  d4 = d4
  NoReturn = NoReturn
  Item = {a}
  Quantity <- MCUnits
  LineTotal <- MCUnits
  Tracked = {a}
  FirstCaptures <- MCThreeTenders
  LateCapture = {}
  HandOut = {}
  ReturnId = {d1, d2, d3}
  MaxAsked = 3
  MaxCaptures = 3
  MaxHandOuts = 0
INVARIANTS
  RemainderReturnable
CHECK_DEADLOCK FALSE
