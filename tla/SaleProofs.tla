----------------------------- MODULE SaleProofs -----------------------------
(***************************************************************************)
(* Proofs about SaleLifecycle, for every set of items, payments and        *)
(* concurrent requests: type correctness, what holds of a returned and of  *)
(* a cancelled sale, and that the primary key of sales_order_snapshots     *)
(* serialises the requests for a sale without payments, which then follows *)
(* SaleContract.  Of requests that do not overlap, that a sale implements  *)
(* SaleContract whatever payments come in between.                         *)
(***************************************************************************)
EXTENDS SerialSale, SumTheorems, TLAPS

USE DEF ApplySaleTx, ApplyCompletionTx, CompensateCaptures, ApplySaleReturnTx

-----------------------------------------------------------------------------
(* Type correctness                                                        *)

LEMMA ReadType ==
  ASSUME TypeOK, NEW r \in Request, NEW what \in Ops, Read(r, what)
  PROVE  TypeOK'
BY DEF TypeOK, Read, row, money, goods, Ops

LEMMA WriteType ==
  ASSUME TypeOK, NEW r \in Request,
         NEW type \in {"none", "sale.completed", "sale.returned"}, Write(r, type)
  PROVE  /\ version' \in Nat
         /\ snapshots' \subseteq Nat
         /\ emitted' \subseteq {"sale.completed", "sale.returned"} \X Nat
         /\ op' \in [Request -> Ops]
         /\ seen' \in [Request -> Nat]
<1>1. seen[r] + 1 \in Nat
  BY DEF TypeOK
<1>2. version' \in Nat /\ snapshots' \subseteq Nat
  BY <1>1 DEF TypeOK, Write, RowVersion
<1>3. emitted' \subseteq {"sale.completed", "sale.returned"} \X Nat
  <2>1. CASE type = "none"
    BY <2>1 DEF TypeOK, Write
  <2>2. CASE type # "none"
    <3>1. emitted' = emitted \union {<<type, seen[r] + 1>>}
      BY <2>2 DEF Write
    <3>2. <<type, seen[r] + 1>> \in {"sale.completed", "sale.returned"} \X Nat
      BY <1>1, <2>2
    <3>3. QED
      BY <3>1, <3>2 DEF TypeOK
  <2>3. QED
    BY <2>1, <2>2
<1>4. op' \in [Request -> Ops] /\ seen' \in [Request -> Nat]
  BY DEF TypeOK, Write, Ops
<1>5. QED
  BY <1>2, <1>3, <1>4

LEMMA CapturesType == Captures(pay) \subseteq Tender
BY DEF Captures, Recorded

LEMMA TypeStep == TypeOK /\ [Next]_vars => TypeOK'
<1> SUFFICES ASSUME TypeOK, [Next]_vars PROVE TypeOK'
  OBVIOUS
<1>1. CASE Create
  BY <1>1 DEF TypeOK, Create, Statuses, money, goods
<1>2. ASSUME NEW t \in Tender, NEW x \in PaymentInput, Pay(t, x) PROVE TypeOK'
  <2>1. pay' \in [Tender -> Payment \union {NoPayment}]
    BY <1>2, SaleAssumption DEF Pay, TypeOK
  <2>2. \A n : PaymentStatus(n) \in Statuses
    BY DEF PaymentStatus, Statuses
  <2>3. status' \in Statuses /\ version' \in Nat
    BY <1>2, <2>2 DEF Pay, TypeOK
  <2>4. QED
    BY <1>2, <2>1, <2>3 DEF Pay, TypeOK, goods
<1>3. ASSUME NEW r \in Request, ReadToComplete(r) \/ ReadToVoid(r) \/ ReadToRefund(r)
      PROVE  TypeOK'
  BY <1>3, ReadType DEF ReadToComplete, ReadToVoid, ReadToRefund, Ops
<1>4. ASSUME NEW r \in Request, Fail(r) PROVE TypeOK'
  BY <1>4 DEF Fail, TypeOK, Ops, row, money, goods
<1>5. ASSUME NEW r \in Request, CommitComplete(r) PROVE TypeOK'
  BY <1>5, WriteType DEF CommitComplete, TypeOK, money
<1>6. ASSUME NEW r \in Request, CommitVoid(r) PROVE TypeOK'
  <2>1. status' \in Statuses
    BY <1>6 DEF CommitVoid, Statuses, Over
  <2>2. QED
    BY <1>6, <2>1, WriteType DEF CommitVoid, TypeOK, money, goods
<1>7. ASSUME NEW r \in Request, CommitRefund(r) PROVE TypeOK'
  <2>1. status' \in Statuses
    BY <1>7 DEF CommitRefund, Statuses, Over
  <2>2. QED
    BY <1>7, <2>1, WriteType, CapturesType DEF CommitRefund, TypeOK, Restorable
<1>8. CASE UNCHANGED vars
  BY <1>8 DEF TypeOK, vars, row, money, goods
<1>9. QED
  BY <1>1, <1>2, <1>3, <1>4, <1>5, <1>6, <1>7, <1>8 DEF Next, Serve

LEMMA TypeInit == Init => TypeOK
<1> SUFFICES ASSUME Init PROVE TypeOK
  OBVIOUS
<1>1. op \in [Request -> Ops] /\ seen \in [Request -> Nat]
  BY DEF Init, Ops
<1>2. pay \in [Tender -> Payment \union {NoPayment}]
  BY DEF Init
<1>3. /\ snapshots \subseteq Nat /\ reversed \subseteq Tender
      /\ issued \subseteq Tracked /\ restored \subseteq Tracked
      /\ emitted \subseteq {"sale.completed", "sale.returned"} \X Nat
  BY DEF Init
<1>4. status \in Statuses /\ completed \in BOOLEAN /\ version \in Nat /\ receipt \in BOOLEAN
  BY DEF Init, Statuses
<1>5. QED
  BY <1>1, <1>2, <1>3, <1>4 DEF TypeOK

\* The order row, its payments, its stock and the requests have their types.
THEOREM SaleTypeOK == Spec => []TypeOK
BY TypeInit, TypeStep, PTL DEF Spec

-----------------------------------------------------------------------------
(* A cancelled sale                                                        *)

LEMMA MoneyStep ==
  TypeOK /\ CancelledHoldsNoMoney /\ [Next]_vars => CancelledHoldsNoMoney'
<1> SUFFICES ASSUME TypeOK, CancelledHoldsNoMoney, [Next]_vars,
                    status' = "cancelled"
             PROVE  NetPaid(pay, reversed)' = 0
  BY DEF CancelledHoldsNoMoney
<1>1. CASE Create
  BY <1>1 DEF Create
<1>2. ASSUME NEW t \in Tender, NEW x \in PaymentInput, Pay(t, x)
      PROVE  NetPaid(pay, reversed)' = 0
  <2>1. \A n : PaymentStatus(n) # "cancelled"
    BY DEF PaymentStatus
  <2>2. QED
    BY <1>2, <2>1 DEF Pay, AcceptsPayment, Over
<1>3. ASSUME NEW r \in Request, Serve(r) PROVE NetPaid(pay, reversed)' = 0
  <2>1. CASE CommitVoid(r)
    BY <2>1 DEF CommitVoid, NoMoneyHeld, money
  <2>2. CASE CommitRefund(r)
    BY <2>2 DEF CommitRefund
  <2>3. CASE CommitComplete(r) \/ Fail(r)
    BY <2>3 DEF CommitComplete, Fail, CancelledHoldsNoMoney, row, money
  <2>4. CASE ReadToComplete(r) \/ ReadToVoid(r) \/ ReadToRefund(r)
    BY <2>4 DEF ReadToComplete, ReadToVoid, ReadToRefund, Read,
                CancelledHoldsNoMoney, row, money
  <2>5. QED
    BY <1>3, <2>1, <2>2, <2>3, <2>4 DEF Serve
<1>4. CASE UNCHANGED vars
  BY <1>4 DEF vars, row, money, CancelledHoldsNoMoney
<1>5. QED
  BY <1>1, <1>2, <1>3, <1>4 DEF Next

\* A void that races payments, completions and refunds never cancels a sale
\* that holds money, and no money comes to a cancelled sale.
THEOREM SaleCancelledHoldsNoMoney == Spec => []CancelledHoldsNoMoney
<1>1. Init => CancelledHoldsNoMoney
  BY DEF Init, CancelledHoldsNoMoney
<1>2. QED
  BY <1>1, TypeInit, TypeStep, MoneyStep, PTL DEF Spec

-----------------------------------------------------------------------------
(* A returned sale                                                         *)

\* What a completion leaves behind, and a later stale completion cannot add to.
Goods ==
  /\ completed => issued = Tracked
  /\ restored \subseteq issued
  /\ status = "returned" => completed

SquareInv == TypeOK /\ Goods /\ ReturnedIsSquare

LEMMA SquareStep == SquareInv /\ [Next]_vars => SquareInv'
<1> SUFFICES ASSUME SquareInv, [Next]_vars PROVE Goods' /\ ReturnedIsSquare'
  BY TypeStep DEF SquareInv
<1> USE DEF SquareInv
<1>1. CASE Create
  BY <1>1 DEF Create, Goods, ReturnedIsSquare, goods
<1>2. ASSUME NEW t \in Tender, NEW x \in PaymentInput, Pay(t, x)
      PROVE  Goods' /\ ReturnedIsSquare'
  <2>1. \A n : PaymentStatus(n) # "returned"
    BY DEF PaymentStatus
  <2>2. status' # "returned"
    BY <1>2, <2>1 DEF Pay, AcceptsPayment, Over
  <2>3. QED
    BY <1>2, <2>2 DEF Pay, Goods, ReturnedIsSquare, goods
<1>3. ASSUME NEW r \in Request, Serve(r) PROVE Goods' /\ ReturnedIsSquare'
  <2>1. CASE CommitComplete(r)
    <3>1. issued' = Tracked /\ restored' = restored /\ completed'
      BY <2>1 DEF CommitComplete, TypeOK
    <3>2. Goods'
      BY <2>1, <3>1 DEF CommitComplete, Goods, TypeOK
    <3>3. ASSUME status' = "returned" PROVE issued' = issued
      BY <2>1, <3>1, <3>3 DEF CommitComplete, Goods
    <3>4. ReturnedIsSquare'
      BY <2>1, <3>3 DEF CommitComplete, ReturnedIsSquare, money
    <3>5. QED
      BY <3>2, <3>4
  <2>2. CASE CommitVoid(r)
    BY <2>2 DEF CommitVoid, Goods, ReturnedIsSquare, goods, money
  <2>3. CASE CommitRefund(r)
    <3>1. restored' = issued' /\ issued' = issued
      BY <2>3 DEF CommitRefund, Restorable, Goods
    <3>2. Goods'
      BY <2>3, <3>1 DEF CommitRefund, Goods, StillSold, Sold
    <3>3. ReturnedIsSquare'
      BY <2>3, <3>1 DEF CommitRefund, ReturnedIsSquare
    <3>4. QED
      BY <3>2, <3>3
  <2>4. CASE ReadToComplete(r) \/ ReadToVoid(r) \/ ReadToRefund(r)
    BY <2>4 DEF ReadToComplete, ReadToVoid, ReadToRefund, Read, Goods,
                ReturnedIsSquare, row, money, goods
  <2>5. CASE Fail(r)
    BY <2>5 DEF Fail, Goods, ReturnedIsSquare, row, money, goods
  <2>6. QED
    BY <1>3, <2>1, <2>2, <2>3, <2>4, <2>5 DEF Serve
<1>4. CASE UNCHANGED vars
  BY <1>4 DEF vars, row, money, goods, Goods, ReturnedIsSquare
<1>5. QED
  BY <1>1, <1>2, <1>3, <1>4 DEF Next

\* A returned sale is square: every capture compensated, no other money out,
\* every issued item back, whatever was under way when it was refunded.
THEOREM SaleReturnedIsSquare == Spec => []ReturnedIsSquare
<1>1. Init => SquareInv
  BY TypeInit DEF Init, SquareInv, Goods, ReturnedIsSquare
<1>2. SquareInv => ReturnedIsSquare
  BY DEF SquareInv
<1>3. QED
  BY <1>1, <1>2, SquareStep, PTL DEF Spec

-----------------------------------------------------------------------------
(* Events of which there is one at most                                    *)

LEMMA AtMostOne ==
  ASSUME NEW S, \A a, b \in S : a = b
  PROVE  Cardinality(S) <= 1
<1>1. CASE S = {}
  BY <1>1, FS_EmptySet
<1>2. ASSUME NEW a \in S PROVE Cardinality(S) <= 1
  <2>1. S = {a}
    BY <1>2
  <2>2. QED
    BY <2>1, FS_Singleton
<1>3. QED
  BY <1>1, <1>2

LEMMA WriteEmits ==
  ASSUME NEW r \in Request, NEW type \in {"none", "sale.completed", "sale.returned"},
         Write(r, type), NEW other \in {"sale.completed", "sale.returned"}
  PROVE  /\ other # type => Emitted(other)' = Emitted(other)
         /\ other = type => Emitted(other)' = Emitted(other) \union {<<other, seen[r] + 1>>}
BY DEF Write, Emitted

\* A return is emitted by the step that ends the sale, and no sale ends twice.
OneReturn ==
  /\ Emitted("sale.returned") # {} => status \in Over
  /\ \A a, b \in Emitted("sale.returned") : a = b

LEMMA OneReturnStep == OneReturn /\ [Next]_vars => OneReturn'
<1> SUFFICES ASSUME OneReturn, [Next]_vars PROVE OneReturn'
  OBVIOUS
<1> DEFINE R == Emitted("sale.returned")
<1>1. ASSUME R' = R, status \in Over => status' \in Over PROVE OneReturn'
  BY <1>1 DEF OneReturn
<1> HIDE DEF R
<1>2. CASE Create
  BY <1>2, <1>1 DEF Create, Emitted, Over, R
<1>3. ASSUME NEW t \in Tender, NEW x \in PaymentInput, Pay(t, x) PROVE OneReturn'
  BY <1>3, <1>1 DEF Pay, AcceptsPayment, Emitted, R
<1>4. ASSUME NEW r \in Request, Serve(r) PROVE OneReturn'
  <2>1. CASE CommitComplete(r)
    BY <2>1, <1>1, WriteEmits DEF CommitComplete, R
  <2>2. CASE CommitVoid(r)
    BY <2>2, <1>1, WriteEmits DEF CommitVoid, Over, R
  <2>3. CASE CommitRefund(r)
    <3>1. Emitted("sale.returned") = {}
      BY <2>3 DEF CommitRefund, StillSold, Sold, OneReturn
    <3>2. Emitted("sale.returned")' = {<<"sale.returned", seen[r] + 1>>}
      BY <2>3, <3>1, WriteEmits DEF CommitRefund
    <3>3. status' \in Over
      BY <2>3 DEF CommitRefund, Over
    <3>4. QED
      BY <3>2, <3>3 DEF OneReturn
  <2>4. CASE ReadToComplete(r) \/ ReadToVoid(r) \/ ReadToRefund(r)
    BY <2>4, <1>1 DEF ReadToComplete, ReadToVoid, ReadToRefund, Read, Emitted, row, R
  <2>5. CASE Fail(r)
    BY <2>5, <1>1 DEF Fail, Emitted, row, R
  <2>6. QED
    BY <1>4, <2>1, <2>2, <2>3, <2>4, <2>5 DEF Serve
<1>5. CASE UNCHANGED vars
  BY <1>5, <1>1 DEF vars, row, Emitted, R
<1>6. QED
  BY <1>2, <1>3, <1>4, <1>5 DEF Next

\* However many refunds of a sale race with each other and with its payments,
\* completions and voids, one sale.returned event is written at most.
THEOREM SaleReturnedOnce == Spec => []ReturnedOnce
<1>1. Init => OneReturn
  BY DEF Init, OneReturn, Emitted
<1>2. OneReturn => ReturnedOnce
  BY AtMostOne DEF OneReturn, ReturnedOnce
<1>3. QED
  BY <1>1, <1>2, OneReturnStep, PTL DEF Spec

-----------------------------------------------------------------------------
(* A sale without payments                                                 *)

\* As long as no payment is recorded the snapshots are exactly the versions,
\* so a request commits only if nothing was committed since it read.
Locked ==
  /\ snapshots = 1..version
  /\ \A r \in Request : op[r] # "none" => seen[r] <= version /\ seen[r] # 0
  /\ \A r \in Request :
       seen[r] = version =>
         /\ op[r] \in {"complete", "void"} => Open
         /\ op[r] = "refund" => Sold
  /\ status = "absent" <=> version = 0
  /\ \A a, b \in Emitted("sale.completed") : a = b
  /\ ~completed => ~receipt /\ issued = {} /\ Emitted("sale.completed") = {}
  /\ status = "cancelled" => ~completed

UnpaidInv == TypeOK /\ (Recorded(pay) = {} => Locked)

LEMMA LockedCommit ==
  ASSUME TypeOK, Locked, NEW r \in Request, op[r] # "none", NEW type, Write(r, type)
  PROVE  /\ seen[r] = version
         /\ version' = version + 1
         /\ snapshots' = 1..version'
         /\ \A q \in Request : op'[q] # "none" => seen'[q] # version' /\ seen'[q] <= version'
                                                  /\ seen'[q] # 0
<1> USE DEF TypeOK, Locked, Write, FreshSnapshot, RowVersion
<1>1. seen[r] \in Nat /\ version \in Nat /\ seen[r] <= version
  OBVIOUS
<1>2. seen[r] + 1 \notin 1..version
  OBVIOUS
<1>3. seen[r] = version
  BY <1>1, <1>2
<1>4. version' = version + 1 /\ snapshots' = 1..version'
  BY <1>1, <1>3
<1>5. ASSUME NEW q \in Request, op'[q] # "none"
      PROVE  seen'[q] # version' /\ seen'[q] <= version' /\ seen'[q] # 0
  <2>1. q # r /\ seen'[q] = seen[q] /\ op'[q] = op[q]
    BY <1>5
  <2>2. seen[q] \in Nat /\ seen[q] <= version /\ seen[q] # 0
    BY <1>5, <2>1
  <2>3. QED
    BY <1>1, <1>4, <2>1, <2>2
<1>6. QED
  BY <1>3, <1>4, <1>5

LEMMA UnpaidStep == UnpaidInv /\ [Next]_vars => UnpaidInv'
<1> SUFFICES ASSUME UnpaidInv, [Next]_vars, Recorded(pay)' = {} PROVE Locked'
  BY TypeStep DEF UnpaidInv
<1>1. CASE Create
  <2>1. Recorded(pay) = {} /\ TypeOK /\ Locked
    BY <1>1 DEF UnpaidInv, Create, money, Recorded
  <2>2. version = 0 /\ \A r \in Request : op[r] = "none"
    BY <1>1, <2>1 DEF Create, Locked, TypeOK
  <2>3. version' = 1 /\ snapshots' = 1..1
    BY <1>1 DEF Create
  <2>4. QED
    BY <1>1, <2>1, <2>2, <2>3 DEF Create, Locked, TypeOK, Open, Sold, Emitted, goods
<1>2. ASSUME NEW t \in Tender, NEW x \in PaymentInput, Pay(t, x) PROVE Locked'
  <2>1. pay'[t] # NoPayment
    BY <1>2, SaleAssumption DEF Pay, UnpaidInv, TypeOK
  <2>2. QED
    BY <2>1 DEF Recorded
<1>3. ASSUME NEW r \in Request, Serve(r) PROVE Locked'
  <2>1. Recorded(pay) = {} /\ TypeOK /\ Locked
    BY <1>3 DEF UnpaidInv, Serve, Recorded, ReadToComplete, ReadToVoid, ReadToRefund,
                Read, Fail, CommitComplete, CommitVoid, CommitRefund, money
  <2>2. CASE CommitComplete(r)
    <3>1. Open /\ version' = version + 1 /\ snapshots' = 1..version' /\ version \in Nat
      BY <2>1, <2>2, LockedCommit DEF CommitComplete, Locked, TypeOK
    <3>2. \A q \in Request : op'[q] # "none" => seen'[q] # version' /\ seen'[q] <= version'
                                                 /\ seen'[q] # 0
      BY <2>1, <2>2, LockedCommit DEF CommitComplete
    <3>3. Emitted("sale.completed")' = {<<"sale.completed", seen[r] + 1>>}
      BY <2>1, <2>2, <3>1, WriteEmits DEF CommitComplete, Locked, Open
    <3>4. QED
      BY <2>1, <2>2, <3>1, <3>2, <3>3 DEF CommitComplete, Locked, Open, Over
  <2>3. CASE CommitVoid(r)
    <3>1. Open /\ version' = version + 1 /\ snapshots' = 1..version' /\ version \in Nat
      BY <2>1, <2>3, LockedCommit DEF CommitVoid, Locked, TypeOK
    <3>2. \A q \in Request : op'[q] # "none" => seen'[q] # version' /\ seen'[q] <= version'
                                                 /\ seen'[q] # 0
      BY <2>1, <2>3, LockedCommit DEF CommitVoid
    <3>3. Emitted("sale.completed")' = Emitted("sale.completed")
      BY <2>3, WriteEmits DEF CommitVoid
    <3>4. QED
      BY <2>1, <2>3, <3>1, <3>2, <3>3 DEF CommitVoid, Locked, Open, Over, goods
  <2>4. CASE CommitRefund(r)
    <3>1. Sold /\ version' = version + 1 /\ snapshots' = 1..version' /\ version \in Nat
      BY <2>1, <2>4, LockedCommit DEF CommitRefund, StillSold, TypeOK
    <3>2. \A q \in Request : op'[q] # "none" => seen'[q] # version' /\ seen'[q] <= version'
                                                 /\ seen'[q] # 0
      BY <2>1, <2>4, LockedCommit DEF CommitRefund
    <3>3. Emitted("sale.completed")' = Emitted("sale.completed")
      BY <2>4, WriteEmits DEF CommitRefund
    <3>4. QED
      BY <2>1, <2>4, <3>1, <3>2, <3>3 DEF CommitRefund, Locked, Sold, Over
  <2>5. ASSUME ReadToComplete(r) \/ ReadToVoid(r) \/ ReadToRefund(r) PROVE Locked'
    <3>1. UNCHANGED <<status, completed, version, snapshots, issued, receipt, emitted>>
      BY <2>5 DEF ReadToComplete, ReadToVoid, ReadToRefund, Read, row, goods
    <3>2. version \in Nat /\ version # 0
      BY <2>1, <2>5 DEF ReadToComplete, ReadToVoid, ReadToRefund, Open, Sold, Locked, TypeOK
    <3>3. /\ seen'[r] = version /\ op'[r] \in Ops
          /\ op'[r] \in {"complete", "void"} => Open
          /\ op'[r] = "refund" => Sold
      BY <2>1, <2>5 DEF ReadToComplete, ReadToVoid, ReadToRefund, Read, TypeOK, Ops
    <3>4. \A q \in Request : q # r => seen'[q] = seen[q] /\ op'[q] = op[q]
      BY <2>1, <2>5 DEF ReadToComplete, ReadToVoid, ReadToRefund, Read, TypeOK
    <3>5. Open' = Open /\ Sold' = Sold /\ Emitted("sale.completed")' = Emitted("sale.completed")
      BY <3>1 DEF Open, Sold, Emitted
    <3>6. QED
      BY <2>1, <3>1, <3>2, <3>3, <3>4, <3>5 DEF Locked
  <2>6. CASE Fail(r)
    <3>1. UNCHANGED <<status, completed, version, snapshots, issued, receipt, emitted>>
      BY <2>6 DEF Fail, row, goods
    <3>2. op'[r] = "none" /\ \A q \in Request : q # r => seen'[q] = seen[q] /\ op'[q] = op[q]
      BY <2>1, <2>6 DEF Fail, TypeOK
    <3>3. Open' = Open /\ Sold' = Sold /\ Emitted("sale.completed")' = Emitted("sale.completed")
      BY <3>1 DEF Open, Sold, Emitted
    <3>4. QED
      BY <2>1, <3>1, <3>2, <3>3 DEF Locked
  <2>7. QED
    BY <1>3, <2>2, <2>3, <2>4, <2>5, <2>6 DEF Serve
<1>4. CASE UNCHANGED vars
  BY <1>4 DEF vars, row, money, goods, UnpaidInv, Locked, Recorded, Open, Sold, Emitted
<1>5. QED
  BY <1>1, <1>2, <1>3, <1>4 DEF Next

LEMMA UnpaidInit == Init => UnpaidInv
<1> SUFFICES ASSUME Init PROVE Locked
  BY TypeInit DEF UnpaidInv
<1>1. snapshots = 1..version
  BY DEF Init
<1>2. QED
  BY <1>1 DEF Init, Locked, Emitted

\* Any number of concurrent completions of a sale without payments writes one
\* sale.completed event: the key of the snapshots lets the first commit alone.
THEOREM SaleUnpaidSoldOnce == Spec => []UnpaidSoldOnce
<1>1. UnpaidInv => UnpaidSoldOnce
  BY AtMostOne DEF UnpaidInv, Locked, UnpaidSoldOnce, SoldOnce
<1>2. QED
  BY <1>1, UnpaidInit, UnpaidStep, PTL DEF Spec

\* A sale without payments is never both voided and sold.
THEOREM SaleUnpaidVoidedIsUnsold == Spec => []UnpaidVoidedIsUnsold
<1>1. UnpaidInv => UnpaidVoidedIsUnsold
  BY DEF UnpaidInv, Locked, UnpaidVoidedIsUnsold, VoidedSaleIsUnsold
<1>2. QED
  BY <1>1, UnpaidInit, UnpaidStep, PTL DEF Spec

-----------------------------------------------------------------------------
(* The money of a sale                                                     *)

\* What the sums over the payments need to be sums.
Books ==
  /\ IsFiniteSet(Recorded(pay))
  /\ reversed \subseteq Recorded(pay)

LEMMA AmountsInt ==
  ASSUME NEW p \in [Tender -> Payment \union {NoPayment}], IsFiniteSet(Recorded(p)),
         NEW S, S \subseteq Recorded(p)
  PROVE  Amounts(p, S) \in Int
<1> DEFINE f == [t \in S |-> p[t].amount]
<1>1. IsFiniteSet(S)
  BY FS_Subset
<1>2. f \in [S -> Int]
  <2>1. \A t \in S : p[t] \in Payment
    BY DEF Recorded
  <2>2. \A x \in Payment : x.amount \in Int
    BY DEF Payment
  <2>3. QED
    BY <2>1, <2>2
<1> HIDE DEF f
<1>3. SumOf(f) \in Int
  BY <1>1, <1>2, SumInt
<1>4. QED
  BY <1>3 DEF Amounts, f

LEMMA NetPaidInt ==
  ASSUME NEW p \in [Tender -> Payment \union {NoPayment}], IsFiniteSet(Recorded(p)),
         NEW R, R \subseteq Recorded(p)
  PROVE  NetPaid(p, R) \in Int
<1>1. Captures(p) \subseteq Recorded(p) /\ Reversals(p) \subseteq Recorded(p)
  BY DEF Captures, Reversals
<1>2. /\ Amounts(p, Captures(p)) \in Int /\ Amounts(p, Reversals(p)) \in Int
      /\ Amounts(p, R) \in Int
  BY <1>1, AmountsInt
<1>3. QED
  BY <1>2 DEF NetPaid

LEMMA AmountsEmpty == ASSUME NEW p PROVE Amounts(p, {}) = 0
<1> DEFINE f == [t \in {} |-> p[t].amount]
<1>1. SumOf(f) = 0
  BY SumEmpty
<1>2. QED
  BY <1>1 DEF Amounts

\* A sale whose captures are all compensated, and from which no other money
\* went out, holds none.
LEMMA CompensatedIsEven ==
  ASSUME NEW p \in [Tender -> Payment \union {NoPayment}], IsFiniteSet(Recorded(p)),
         Reversals(p) = {}
  PROVE  NetPaid(p, Captures(p)) = 0
<1>1. Captures(p) \subseteq Recorded(p)
  BY DEF Captures
<1>2. Amounts(p, Captures(p)) \in Int
  BY <1>1, AmountsInt
<1>3. Amounts(p, Reversals(p)) = 0
  BY AmountsEmpty
<1> DEFINE n == Amounts(p, Captures(p))
<1>4. NetPaid(p, Captures(p)) = n - 0 - n
  BY <1>3 DEF NetPaid
<1> HIDE DEF n
<1>5. QED
  BY <1>2, <1>4 DEF n

LEMMA UnpaidIsEven ==
  ASSUME NEW p, NEW R, Recorded(p) = {}, R \subseteq Recorded(p)
  PROVE  NetPaid(p, R) = 0
<1>1. Captures(p) = {} /\ Reversals(p) = {} /\ R = {}
  BY DEF Captures, Reversals
<1>2. QED
  BY <1>1, AmountsEmpty DEF NetPaid

\* Goods only come back to a sale that is over.
OnShelf == restored # {} => status \in Over

\* Before the order is created nothing happens to it.
Unborn == status = "absent" => ~completed /\ \A r \in Request : op[r] = "none"

BooksInv == SquareInv /\ Books /\ OnShelf /\ Unborn

LEMMA BooksStep == BooksInv /\ [Next]_vars => BooksInv'
<1> SUFFICES ASSUME BooksInv, [Next]_vars PROVE Books' /\ OnShelf' /\ Unborn'
  BY SquareStep DEF BooksInv
<1> USE DEF BooksInv
<1>1. CASE Create
  BY <1>1 DEF Create, money, goods, Books, OnShelf, Unborn, Recorded, Over
<1>2. ASSUME NEW t \in Tender, NEW x \in PaymentInput, Pay(t, x) PROVE Books' /\ OnShelf' /\ Unborn'
  <2>1. Recorded(pay)' = Recorded(pay) \union {t}
    BY <1>2, SaleAssumption DEF Pay, Recorded, SquareInv, TypeOK
  <2>2. IsFiniteSet(Recorded(pay)')
    BY <2>1, FS_AddElement DEF Books
  <2>3. Books'
    BY <1>2, <2>1, <2>2 DEF Pay, Books
  <2>4. restored' = {}
    BY <1>2 DEF Pay, AcceptsPayment, Over, OnShelf, goods
  <2>5. status' # "absent"
    BY <1>2 DEF Pay, PaymentStatus, AcceptsPayment
  <2>6. QED
    BY <2>3, <2>4, <2>5 DEF OnShelf, Unborn
<1>3. ASSUME NEW r \in Request, Serve(r) PROVE Books' /\ OnShelf' /\ Unborn'
  <2>1. CASE CommitRefund(r)
    <3>1. reversed' = Captures(pay) /\ pay' = pay /\ status' = "returned"
      BY <2>1 DEF CommitRefund
    <3>2. QED
      BY <3>1 DEF Books, OnShelf, Captures, Recorded, Over, Unborn
  <2>2. CASE CommitVoid(r)
    BY <2>2 DEF CommitVoid, money, goods, Books, OnShelf, Recorded, Over, Unborn
  <2>3. CASE CommitComplete(r)
    BY <2>3 DEF CommitComplete, money, Books, OnShelf, Recorded, Unborn
  <2>4. CASE ReadToComplete(r) \/ ReadToVoid(r) \/ ReadToRefund(r)
    BY <2>4 DEF ReadToComplete, ReadToVoid, ReadToRefund, Read, row, money, goods,
                Books, OnShelf, Recorded, Unborn, Open, Sold
  <2>5. CASE Fail(r)
    <3>1. UNCHANGED <<status, completed, pay, reversed, restored>> /\ status # "absent"
      BY <2>5 DEF Fail, row, money, goods, Unborn
    <3>2. QED
      BY <3>1 DEF Books, OnShelf, Recorded, Unborn
  <2>6. QED
    BY <1>3, <2>1, <2>2, <2>3, <2>4, <2>5 DEF Serve
<1>4. CASE UNCHANGED vars
  BY <1>4 DEF vars, row, money, goods, Books, OnShelf, Recorded, Unborn
<1>5. QED
  BY <1>1, <1>2, <1>3, <1>4 DEF Next

LEMMA BooksInit == Init => BooksInv
<1> SUFFICES ASSUME Init PROVE BooksInv
  OBVIOUS
<1>1. SquareInv
  BY TypeInit DEF Init, SquareInv, Goods, ReturnedIsSquare
<1>2. Recorded(pay) = {}
  BY DEF Init, Recorded
<1>3. QED
  BY <1>1, <1>2, FS_EmptySet DEF Init, BooksInv, Books, OnShelf, Unborn

-----------------------------------------------------------------------------
(* The contract                                                            *)

\* What a request read still holds.
ReadHolds(r) ==
  /\ op[r] \in {"complete", "void"} => Open
  /\ op[r] = "refund" => Sold

ReadsHold == \A r \in Request : ReadHolds(r)

Commit(r) == CommitComplete(r) \/ CommitVoid(r) \/ CommitRefund(r)

\* A step of a sale whose requests act on what is still so is one of SaleContract.
LEMMA ContractStep ==
  ASSUME BooksInv, BooksInv', [Next]_vars,
         \A r \in Request : Commit(r) => ReadHolds(r)
  PROVE  Contract!Next \/ UNCHANGED Contract!vars
<1> DEFINE held == NetPaid(pay, reversed)
<1> USE DEF BooksInv
<1>1. held \in Int /\ held' \in Int
  <2>1. held \in Int
    BY NetPaidInt DEF SquareInv, TypeOK, Books
  <2>2. pay' \in [Tender -> Payment \union {NoPayment}]
        /\ IsFiniteSet(Recorded(pay')) /\ reversed' \subseteq Recorded(pay')
    BY DEF SquareInv, TypeOK, Books, Recorded
  <2>3. NetPaid(pay', reversed') \in Int
    BY <2>2, NetPaidInt
  <2>4. held' = NetPaid(pay', reversed')
    BY DEF NetPaid, Captures, Reversals, Recorded
  <2>5. QED
    BY <2>1, <2>3, <2>4
<1>2. ASSUME UNCHANGED <<row, money, goods>> PROVE UNCHANGED Contract!vars
  <2>1. UNCHANGED <<status, completed, pay, reversed, issued, restored>>
    BY <1>2 DEF row, money, goods
  <2>2. Phase' = Phase
    BY <2>1 DEF Phase
  <2>3. NetPaid(pay, reversed)' = NetPaid(pay, reversed)
    BY <2>1 DEF NetPaid, Captures, Reversals, Recorded
  <2>4. QED
    BY <2>1, <2>2, <2>3 DEF Contract!vars
<1>3. ASSUME UNCHANGED <<pay, reversed>> PROVE held' = held
  BY <1>3 DEF NetPaid, Captures, Reversals, Recorded
<1> HIDE DEF held
<1>4. CASE Create
  <2>1. status = "absent" /\ status' = "confirmed" /\ completed' = completed
        /\ UNCHANGED <<pay, reversed, issued, restored>>
    BY <1>4 DEF Create, money, goods
  <2>2. ~completed
    BY <2>1 DEF Unborn
  <2>3. QED
    BY <2>1, <2>2, <1>3 DEF Contract!Next, Contract!Open, Phase, held
<1>5. ASSUME NEW t \in Tender, NEW x \in PaymentInput, Pay(t, x) PROVE Contract!Next
  <2>1. \A n : PaymentStatus(n) \in {"confirmed", "partially_paid", "paid"}
    BY DEF PaymentStatus
  <2>2. /\ status \notin Over \union {"absent"}
        /\ status' \in {"confirmed", "partially_paid", "paid"}
        /\ UNCHANGED <<completed, issued, restored>>
    BY <1>5, <2>1 DEF Pay, AcceptsPayment, goods
  <2>3. Phase \in {"open", "sold"} /\ Phase' = Phase
    BY <2>2 DEF Phase, Over
  <2>4. Contract!Money
    BY <1>1, <2>2, <2>3 DEF Contract!Money, held
  <2>5. QED
    BY <2>4 DEF Contract!Next
<1>6. ASSUME NEW r \in Request, CommitComplete(r) PROVE Contract!Next
  <2>1. Open /\ restored = {}
    BY <1>6 DEF CommitComplete, Commit, ReadHolds, Open, OnShelf
  <2>2. /\ status' = status /\ completed' /\ issued' = Tracked /\ restored' = {}
        /\ UNCHANGED <<pay, reversed>>
    BY <1>6, <2>1 DEF CommitComplete, money, SquareInv, TypeOK
  <2>3. Phase = "open" /\ Phase' = "sold"
    BY <2>1, <2>2 DEF Open, Over, Phase
  <2>4. Contract!Sell
    BY <1>3, <2>2, <2>3 DEF Contract!Sell, held
  <2>5. QED
    BY <2>4 DEF Contract!Next
<1>7. ASSUME NEW r \in Request, CommitVoid(r) PROVE Contract!Next
  <2>1. Open /\ NetPaid(pay, reversed) = 0
    BY <1>7 DEF CommitVoid, Commit, ReadHolds, NoMoneyHeld
  <2>2. status' = "cancelled" /\ UNCHANGED <<pay, reversed, issued, restored>>
    BY <1>7 DEF CommitVoid, money, goods
  <2>3. Phase = "open" /\ Phase' = "voided"
    BY <2>1, <2>2 DEF Open, Over, Phase
  <2>4. Contract!Void
    BY <1>3, <2>1, <2>2, <2>3 DEF Contract!Void, held
  <2>5. QED
    BY <2>4 DEF Contract!Next
<1>8. ASSUME NEW r \in Request, CommitRefund(r) PROVE Contract!Next
  <2>1. Sold /\ Reversals(pay) = {}
    BY <1>8 DEF CommitRefund, StillSold
  <2>2. /\ status' = "returned" /\ issued' = issued /\ restored' = restored \union (issued \ restored)
        /\ pay' = pay /\ reversed' = Captures(pay)
    BY <1>8 DEF CommitRefund, Restorable
  <2>3. Phase = "sold" /\ Phase' = "returned"
    BY <2>1, <2>2 DEF Sold, Over, Phase
  <2>4. NetPaid(pay, Captures(pay)) = 0
    BY <2>1, CompensatedIsEven DEF SquareInv, TypeOK, Books
  <2>5. NetPaid(pay, reversed)' = 0
    BY <2>2, <2>4 DEF NetPaid, Captures, Reversals, Recorded
  <2>6. Contract!Return
    BY <2>2, <2>3, <2>5 DEF Contract!Return
  <2>7. QED
    BY <2>6 DEF Contract!Next
<1>9. ASSUME NEW r \in Request,
             ReadToComplete(r) \/ ReadToVoid(r) \/ ReadToRefund(r) \/ Fail(r)
      PROVE  UNCHANGED Contract!vars
  BY <1>2, <1>9 DEF ReadToComplete, ReadToVoid, ReadToRefund, Read, Fail
<1>10. CASE UNCHANGED vars
  BY <1>2, <1>10 DEF vars
<1>11. QED
  BY <1>4, <1>5, <1>6, <1>7, <1>8, <1>9, <1>10 DEF Next, Serve

\* A sale without payments.
LEMMA UnpaidContractStep ==
  ASSUME UnpaidInv, BooksInv, BooksInv', [Next]_vars, Recorded(pay)' = {}
  PROVE  Contract!Next \/ UNCHANGED Contract!vars
<1>1. Recorded(pay) = {}
  <2>1. ASSUME NEW t \in Tender, pay[t] # NoPayment PROVE pay'[t] # NoPayment
    <3>1. ASSUME NEW u \in Tender, NEW x \in PaymentInput, Pay(u, x) PROVE pay'[t] # NoPayment
      BY <2>1, <3>1, SaleAssumption DEF Pay, BooksInv, SquareInv, TypeOK
    <3>2. CASE UNCHANGED pay
      BY <2>1, <3>2
    <3>3. QED
      BY <3>1, <3>2 DEF Next, Serve, Create, ReadToComplete, ReadToVoid, ReadToRefund, Read,
                        Fail, CommitComplete, CommitVoid, CommitRefund, money, vars
  <2>2. QED
    BY <2>1 DEF Recorded
<1>2. Locked /\ TypeOK
  BY <1>1 DEF UnpaidInv
<1>3. ASSUME NEW r \in Request, Commit(r) PROVE ReadHolds(r)
  <2>1. op[r] # "none" /\ \E type : Write(r, type)
    BY <1>3 DEF Commit, CommitComplete, CommitVoid, CommitRefund
  <2>2. seen[r] = version
    BY <1>2, <2>1, LockedCommit
  <2>3. QED
    BY <1>2, <2>2 DEF Locked, ReadHolds
<1>4. QED
  BY <1>3, ContractStep

\* While nothing is paid, any number of concurrent requests take the sale
\* through its life as SaleContract allows.
THEOREM UnpaidSaleFollowsContract == Spec => UnpaidFollowsContract
<1>1. ASSUME UnpaidInv, BooksInv, BooksInv', [Next]_vars
      PROVE  [Recorded(pay)' = {} => Contract!Next]_(Contract!vars)
  BY <1>1, UnpaidContractStep
<1>2. QED
  BY <1>1, UnpaidInit, UnpaidStep, BooksInit, BooksStep, PTL DEF Spec, UnpaidFollowsContract

-----------------------------------------------------------------------------
(* Requests that do not overlap                                            *)

\* Payments only move the version away from the snapshots.
Behind ==
  /\ snapshots \subseteq 0..version
  /\ \A r \in Request : op[r] # "none" => snapshots \subseteq 0..seen[r] /\ seen[r] <= version

SerialInv == BooksInv /\ (serial => OneAtATime /\ Behind /\ ReadsHold)

LEMMA SerialCommit ==
  ASSUME TypeOK, OneAtATime, Behind, NEW r \in Request, op[r] # "none", NEW type, Write(r, type)
  PROVE  Behind' /\ \A q \in Request : op'[q] = "none"
<1>1. \A q \in Request : op'[q] = "none"
  BY DEF OneAtATime, Write, TypeOK
<1>2. seen[r] \in Nat /\ snapshots \subseteq 0..seen[r]
  BY DEF Behind, TypeOK
<1>3. snapshots' = snapshots \union {seen[r] + 1} /\ version' = seen[r] + 1
  BY DEF Write, RowVersion
<1>4. snapshots' \subseteq 0..version'
  <2>1. ASSUME NEW n \in Nat, NEW v \in 0..n PROVE v \in 0..(n + 1) /\ n + 1 \in 0..(n + 1)
    OBVIOUS
  <2>2. \A v \in snapshots' : v \in 0..(seen[r] + 1)
    <3>1. ASSUME NEW v \in snapshots PROVE v \in 0..(seen[r] + 1)
      BY <1>2, <2>1
    <3>2. seen[r] + 1 \in 0..(seen[r] + 1)
      BY <1>2
    <3>3. QED
      BY <1>3, <3>1, <3>2
  <2>3. QED
    BY <1>3, <2>2
<1>5. QED
  BY <1>1, <1>4 DEF Behind

LEMMA SerialStep ==
  ASSUME SerialInv, serial, serial', OneAtATime', [Next]_vars
  PROVE  Behind' /\ ReadsHold'
<1>1. TypeOK /\ OneAtATime /\ Behind /\ ReadsHold /\ Unborn
  BY DEF SerialInv, BooksInv, SquareInv
<1>2. CASE Create
  <2>1. \A r \in Request : op'[r] = "none"
    BY <1>1, <1>2 DEF Create, Unborn
  <2>2. snapshots' = {1} /\ version' = 1
    BY <1>2 DEF Create
  <2>3. QED
    BY <2>1, <2>2 DEF Behind, ReadsHold, ReadHolds
<1>3. ASSUME NEW t \in Tender, NEW x \in PaymentInput, Pay(t, x) PROVE Behind' /\ ReadsHold'
  <2>1. \A n : PaymentStatus(n) \in {"confirmed", "partially_paid", "paid"}
    BY DEF PaymentStatus
  <2>2. /\ status \notin Over \union {"absent"} /\ status' \notin Over \union {"absent"}
        /\ version' = version + 1 /\ UNCHANGED <<completed, snapshots, op, seen>>
    BY <1>3, <2>1 DEF Pay, AcceptsPayment, Over
  <2>3. Behind'
    <3>1. version \in Nat /\ \A r \in Request : seen[r] \in Nat
      BY <1>1 DEF TypeOK
    <3>2. snapshots \subseteq 0..(version + 1)
      BY <1>1, <3>1 DEF Behind
    <3>3. \A r \in Request : op[r] # "none" => seen[r] <= version + 1
      BY <1>1, <3>1 DEF Behind
    <3>4. QED
      BY <1>1, <2>2, <3>2, <3>3 DEF Behind
  <2>4. ReadsHold'
    BY <1>1, <2>2 DEF ReadsHold, ReadHolds, Open, Sold
  <2>5. QED
    BY <2>3, <2>4
<1>4. ASSUME NEW r \in Request, NEW what \in {"complete", "void", "refund"}, Read(r, what),
             what \in {"complete", "void"} => Open, what = "refund" => Sold
      PROVE  Behind' /\ ReadsHold'
  <2>1. /\ op'[r] = what /\ seen'[r] = version
        /\ \A q \in Request : op'[q] # "none" => q = r
    BY <1>1, <1>4 DEF Read, TypeOK, OneAtATime
  <2>2. UNCHANGED <<status, completed, version, snapshots>>
    BY <1>4 DEF Read, row
  <2>3. Behind'
    BY <1>1, <2>1, <2>2 DEF Behind, TypeOK
  <2>4. Open' = Open /\ Sold' = Sold
    BY <2>2 DEF Open, Sold
  <2>5. ReadsHold'
    BY <1>4, <2>1, <2>4 DEF ReadsHold, ReadHolds
  <2>6. QED
    BY <2>3, <2>5
<1>5. ASSUME NEW r \in Request, Fail(r) PROVE Behind' /\ ReadsHold'
  <2>1. \A q \in Request : op'[q] # "none" => op'[q] = op[q] /\ seen'[q] = seen[q]
    BY <1>1, <1>5 DEF Fail, TypeOK
  <2>2. UNCHANGED <<status, completed, version, snapshots>>
    BY <1>5 DEF Fail, row
  <2>3. Open' = Open /\ Sold' = Sold
    BY <2>2 DEF Open, Sold
  <2>4. Behind'
    BY <1>1, <2>1, <2>2 DEF Behind
  <2>5. ReadsHold'
    BY <1>1, <2>1, <2>3 DEF ReadsHold, ReadHolds
  <2>6. QED
    BY <2>4, <2>5
<1>6. ASSUME NEW r \in Request, op[r] # "none", NEW type, Write(r, type)
      PROVE  Behind' /\ ReadsHold'
  BY <1>1, <1>6, SerialCommit DEF ReadsHold, ReadHolds
<1>7. CASE UNCHANGED vars
  BY <1>1, <1>7 DEF vars, row, Behind, ReadsHold, ReadHolds, Open, Sold
<1>8. ASSUME NEW r \in Request, Serve(r) PROVE Behind' /\ ReadsHold'
  <2>1. CASE ReadToComplete(r) \/ ReadToVoid(r) \/ ReadToRefund(r)
    BY <1>4, <2>1 DEF ReadToComplete, ReadToVoid, ReadToRefund
  <2>2. CASE CommitComplete(r) \/ CommitVoid(r) \/ CommitRefund(r)
    BY <1>6, <2>2 DEF CommitComplete, CommitVoid, CommitRefund
  <2>3. QED
    BY <1>5, <1>8, <2>1, <2>2 DEF Serve
<1>9. QED
  BY <1>2, <1>3, <1>7, <1>8 DEF Next

LEMMA SerialInvariant ==
  /\ SerialInit => SerialInv
  /\ SerialInv /\ [SerialNext]_<<vars, serial>> => SerialInv'
<1>1. ASSUME SerialInit PROVE SerialInv
  <2>1. BooksInv /\ \A r \in Request : op[r] = "none"
    BY <1>1, BooksInit DEF SerialInit, Init
  <2>2. snapshots = {}
    BY <1>1 DEF SerialInit, Init
  <2>3. QED
    BY <2>1, <2>2 DEF SerialInv, OneAtATime, Behind, ReadsHold, ReadHolds
<1>2. ASSUME SerialInv, [SerialNext]_<<vars, serial>> PROVE SerialInv'
  <2>1. [Next]_vars /\ serial' = serial
    BY <1>2 DEF SerialNext
  <2>2. BooksInv'
    BY <1>2, <2>1, BooksStep DEF SerialInv
  <2>3. ASSUME serial PROVE OneAtATime'
    BY <1>2, <2>3 DEF SerialNext, SerialInv, OneAtATime, vars
  <2>4. ASSUME serial PROVE Behind' /\ ReadsHold'
    BY <1>2, <2>1, <2>3, <2>4, SerialStep
  <2>5. QED
    BY <2>1, <2>2, <2>3, <2>4 DEF SerialInv
<1>3. QED
  BY <1>1, <1>2

\* When no two requests for the sale overlap, the snapshot a refund has to
\* insert is not there yet, whatever payments came in between.
THEOREM SerialSaleStaysRefundable == SerialSpec => []SerialRefundStaysPossible
<1>1. SerialInv => SerialRefundStaysPossible
  <2>1. SUFFICES ASSUME SerialInv, serial PROVE FreshSnapshot(version + 1)
    BY DEF SerialRefundStaysPossible, RefundStaysPossible
  <2>2. version \in Nat /\ snapshots \subseteq 0..version
    BY <2>1 DEF SerialInv, Behind, BooksInv, SquareInv, TypeOK
  <2>3. QED
    BY <2>2 DEF FreshSnapshot
<1>2. QED
  BY <1>1, SerialInvariant, PTL DEF SerialSpec

LEMMA SerialContractStep ==
  ASSUME SerialInv, SerialInv', [SerialNext]_<<vars, serial>>, serial
  PROVE  Contract!Next \/ UNCHANGED Contract!vars
<1>1. BooksInv /\ BooksInv' /\ ReadsHold
  BY DEF SerialInv
<1>2. [Next]_vars
  BY DEF SerialNext
<1>3. QED
  BY <1>1, <1>2, ContractStep DEF ReadsHold

\* Whatever payments come between requests that do not overlap, the sale goes
\* through its life as SaleContract allows.
THEOREM SerialSaleFollowsContract == SerialSpec => SerialFollowsContract
<1>1. ASSUME SerialInv, SerialInv', [SerialNext]_<<vars, serial>>
      PROVE  [serial => Contract!Next]_(Contract!vars)
  BY <1>1, SerialContractStep
<1>2. QED
  BY <1>1, SerialInvariant, PTL DEF SerialSpec, SerialFollowsContract

\* The same as a refinement: a sale whose requests do not overlap implements
\* SaleContract from the start.
THEOREM SerialSaleImplementsContract == SerialSpec /\ serial => Contract!Spec
<1>1. SerialInit => Contract!Init
  <2>1. SUFFICES ASSUME SerialInit PROVE Contract!Init
    OBVIOUS
  <2>2. Recorded(pay) = {} /\ reversed = {} /\ issued \ restored = {} /\ status = "absent"
    BY <2>1 DEF SerialInit, Init, Recorded
  <2>3. NetPaid(pay, reversed) = 0
    BY <2>2, UnpaidIsEven
  <2>4. QED
    BY <2>2, <2>3 DEF Contract!Init, Phase
<1>2. ASSUME SerialInv, SerialInv', [SerialNext]_<<vars, serial>>, serial
      PROVE  [Contract!Next]_(Contract!vars)
  BY <1>2, SerialContractStep
<1>3. serial /\ [SerialNext]_<<vars, serial>> => serial'
  BY DEF SerialNext
<1>4. QED
  BY <1>1, <1>2, <1>3, SerialInvariant, PTL DEF SerialSpec, Contract!Spec

\* What a sale that is not completed has not done, and in serial behaviours that
\* a voided one never was completed.
SoldInv ==
  /\ ~completed => ~receipt /\ issued = {} /\ Emitted("sale.completed") = {}
  /\ serial =>
       /\ status = "cancelled" => ~completed
       /\ \A a, b \in Emitted("sale.completed") : a = b

LEMMA SoldStep ==
  ASSUME SerialInv, SoldInv, [Next]_vars, serial' = serial
  PROVE  SoldInv'
<1>1. /\ TypeOK
      /\ serial => ReadsHold
  BY DEF SerialInv, BooksInv, SquareInv
<1> DEFINE S == Emitted("sale.completed")
<1>2. ASSUME UNCHANGED <<completed, receipt, issued, serial>>, S' = S,
             serial /\ status' = "cancelled" /\ completed => status = "cancelled"
      PROVE  SoldInv'
  BY <1>2 DEF SoldInv
<1> HIDE DEF S
<1>3. CASE Create
  BY <1>2, <1>3 DEF Create, goods, S, Emitted
<1>4. ASSUME NEW t \in Tender, NEW x \in PaymentInput, Pay(t, x) PROVE SoldInv'
  <2>1. \A n : PaymentStatus(n) # "cancelled"
    BY DEF PaymentStatus
  <2>2. status' # "cancelled"
    BY <1>4, <2>1 DEF Pay, AcceptsPayment, Over
  <2>3. QED
    BY <1>2, <1>4, <2>2 DEF Pay, goods, S, Emitted
<1>5. ASSUME NEW r \in Request, Serve(r) PROVE SoldInv'
  <2>1. CASE CommitComplete(r)
    <3>1. completed' /\ status' = status
      BY <2>1, <1>1 DEF CommitComplete
    <3>2. ASSUME serial PROVE Open
      BY <1>1, <2>1, <3>2 DEF CommitComplete, ReadsHold, ReadHolds
    <3>3. ASSUME serial PROVE S' = {<<"sale.completed", seen[r] + 1>>}
      <4>1. S = {}
        BY <3>2, <3>3 DEF Open, SoldInv, S
      <4>2. QED
        BY <2>1, <4>1, WriteEmits DEF CommitComplete, S
    <3>4. ASSUME serial PROVE status' # "cancelled"
      BY <3>1, <3>2, <3>4 DEF Open, Over
    <3>5. QED
      BY <3>1, <3>3, <3>4 DEF SoldInv, S
  <2>2. CASE CommitVoid(r)
    <3>1. S' = S /\ UNCHANGED <<completed, issued, receipt>>
      BY <2>2, WriteEmits DEF CommitVoid, goods, S
    <3>2. ASSUME serial PROVE ~completed
      BY <1>1, <2>2, <3>2 DEF CommitVoid, ReadsHold, ReadHolds, Open
    <3>3. QED
      BY <1>2, <3>1, <3>2
  <2>3. CASE CommitRefund(r)
    <3>1. S' = S
      BY <2>3, WriteEmits DEF CommitRefund, S
    <3>2. QED
      BY <1>2, <2>3, <3>1 DEF CommitRefund
  <2>4. CASE ReadToComplete(r) \/ ReadToVoid(r) \/ ReadToRefund(r)
    BY <1>2, <2>4 DEF ReadToComplete, ReadToVoid, ReadToRefund, Read, row, goods, S, Emitted
  <2>5. CASE Fail(r)
    BY <1>2, <2>5 DEF Fail, row, goods, S, Emitted
  <2>6. QED
    BY <1>5, <2>1, <2>2, <2>3, <2>4, <2>5 DEF Serve
<1>6. CASE UNCHANGED vars
  BY <1>2, <1>6 DEF vars, row, goods, S, Emitted
<1>7. QED
  BY <1>3, <1>4, <1>5, <1>6 DEF Next

LEMMA SoldInvariant ==
  /\ SerialInit => SoldInv
  /\ SerialInv /\ SoldInv /\ [SerialNext]_<<vars, serial>> => SoldInv'
<1>1. SerialInit => SoldInv
  BY DEF SerialInit, Init, SoldInv, Emitted
<1>2. [SerialNext]_<<vars, serial>> => [Next]_vars /\ serial' = serial
  BY DEF SerialNext
<1>3. QED
  BY <1>1, <1>2, SoldStep

\* What a race of a void and a completion breaks holds whenever requests do not
\* overlap, payments in between or not: a voided sale was not sold.
THEOREM SerialVoidedSaleIsUnsold == SerialSpec => [](serial => VoidedSaleIsUnsold)
<1>1. SoldInv => (serial => VoidedSaleIsUnsold)
  BY DEF SoldInv, VoidedSaleIsUnsold
<1>2. QED
  BY <1>1, SerialInvariant, SoldInvariant, PTL DEF SerialSpec

\* Whenever requests do not overlap, Central is told of one sale at most.
THEOREM SerialSaleSoldOnce == SerialSpec => [](serial => SoldOnce)
<1>1. SoldInv => (serial => SoldOnce)
  BY AtMostOne DEF SoldInv, SoldOnce
<1>2. QED
  BY <1>1, SerialInvariant, SoldInvariant, PTL DEF SerialSpec

=============================================================================
