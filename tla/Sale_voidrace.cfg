SPECIFICATION SerialSpec
CONSTANTS
  i1 = i1
  t1 = t1
  t2 = t2
  r1 = r1
  r2 = r2
  r3 = r3
  NoPayment = NoPayment
  Tracked = {i1}
  Tender = {t1}
  PaymentInput <- MCFewPayments
  Total = 2
  Request = {r1, r2}
INVARIANTS
  VoidedSaleIsUnsold
CHECK_DEADLOCK FALSE
