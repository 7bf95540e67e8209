SPECIFICATION MCSpec
CONSTANTS
  ann = ann
  bob = bob
  mia = mia
  pin1 = pin1
  pin2 = pin2
  s1 = s1
  s2 = s2
  l1 = l1
  l2 = l2
  l3 = l3
  t1 = t1
  r1 = r1
  r2 = r2
  o1 = o1
  o2 = o2
  p1 = p1
  loop = loop
  post = post
  None = None
  NoConfig = NoConfig
  User = {ann, bob, mia}
  Pin = {pin1, pin2}
  Store = {s1, s2}
  Attempt = {l1, l2, l3}
  GrantInput <- MCGrants
  MaxFailed = 2
  LockoutTime = 1
  SessionTTL = 2
  MaxTime = 2
  Order = {o1, o2}
  Approval = {t1}
  Request = {r1, r2}
  ApprovalTTL = 1
  Config <- MCConfigs
  Refresher = {loop, post}
  Loop = loop
  MaxPublish = 2
  MaxConfigFaults = 1
  Product = {p1}
  BasketInput <- MCBaskets
  ProductInput <- MCProducts
  PriceInput <- MCPrices
INVARIANTS
  TypeOK
  LockoutIsEarned
  EachActionApproved
  OrdersAddUp
  CreatedOnce
PROPERTIES
  OrderIsKept
  ConfigConverges
CHECK_DEADLOCK FALSE
