SPECIFICATION MCSpec
CONSTANTS
  c1 = c1
  c2 = c2
  p1 = p1
  q1 = q1
  b1 = b1
  b2 = b2
  canon = canon
  local = local
  n1 = n1
  None = None
  Category = {c1, c2}
  Product = {p1}
  Price = {q1}
  Barcode = {b1, b2}
  Customer = {canon, local}
  LocalCustomer = {local}
  Phone = {n1}
  ChangeInput <- MCInput
  Page = 2
  MaxPages = 2
  MaxLog = 3
  MaxFaults = 1
  MaxEdits = 2
  MaxSales = 1
  MaxRestores = 1
INVARIANTS
  TypeOK
  CursorIsBehind
  NewestFactWins
  EditsAreSent
PROPERTIES
  ImplementsFeedContract
  EveryChangeArrives
CHECK_DEADLOCK FALSE
