--------------------------- MODULE SaleLifecycle ---------------------------
(***************************************************************************)
(* One sale of the point of sale (internal/orders, payments, inventory,    *)
(* receipts, refunds): created, paid, completed, voided or refunded in     *)
(* full by HTTP requests that may run at the same time.                    *)
(*                                                                         *)
(* Completing, voiding and refunding work in two steps.  The order is read *)
(* OUTSIDE the transaction (orders.Get) and checked; the transaction then  *)
(* writes version = the version read + 1 and inserts a snapshot whose      *)
(* primary key is (order, version).  A payment is one transaction that     *)
(* bumps the version and inserts no snapshot.  Every transaction is one    *)
(* atomic step, and a transaction that fails leaves nothing behind.        *)
(*                                                                         *)
(* Sales only share stock balances and the receipt counter, which are      *)
(* updated inside the transactions, so one sale is modelled.  Partial      *)
(* returns are not in this module.                                         *)
(***************************************************************************)
EXTENDS Sums, FiniteSets

CONSTANTS
  Tracked,      \* the order items whose product has track_inventory
  Tender,       \* client payment ids
  PaymentInput, \* the payments a client may record, see Payment
  NoPayment,    \* a client payment id not recorded yet
  Total,        \* total_minor
  Request       \* HTTP requests in progress that complete, void or refund

\* direction and status as recorded.  "pending" stands for every status that
\* moves no money (pending, failed, voided).
Payment == [direction : {"in", "out"},
            status : {"pending", "captured", "refunded"},
            amount : Nat \ {0}]

ASSUME SaleAssumption ==
  /\ PaymentInput \subseteq Payment
  /\ NoPayment \notin Payment
  /\ Total \in Nat

VARIABLES
  \* Row of sales_orders and its snapshots.
  status,     \* status, "absent" before the order is created
  completed,  \* completed_at is set
  version,    \* version
  snapshots,  \* the versions in sales_order_snapshots
  \* Tables payments, inventory_movements and receipts.
  pay,        \* the payment of each client payment id
  reversed,   \* tenders with a compensating payment "refund:<order>:<payment>"
  issued,     \* items with a sale_issue movement
  restored,   \* items with a sale_return movement
  receipt,    \* the receipt exists
  \* Table outbox_events, events of the order itself: <<type, version>>.  The
  \* events of payments, movements and the receipt are inserted with their row.
  emitted,
  \* Requests between their read and their transaction.
  op,         \* what a request is about to do
  seen        \* the version it has read

row   == <<status, completed, version, snapshots>>
money == <<pay, reversed>>
goods == <<issued, restored, receipt>>
vars  == <<row, money, goods, emitted, op, seen>>

Over == {"cancelled", "returned"}

-----------------------------------------------------------------------------
(* Money                                                                   *)

Recorded(p) == {t \in Tender : p[t] # NoPayment}

CapturedIn(x) == x.direction = "in" /\ x.status = "captured"
MovedOut(x) == x.direction = "out" /\ x.status \in {"captured", "refunded"}

Captures(p) == {t \in Recorded(p) : CapturedIn(p[t])}
Reversals(p) == {t \in Recorded(p) : MovedOut(p[t])}

Amounts(p, S) == SumOf([t \in S |-> p[t].amount])

\* Net captured money of payments p when the tenders in R are compensated.
NetPaid(p, R) == Amounts(p, Captures(p)) - Amounts(p, Reversals(p)) - Amounts(p, R)

\* Mutant of PaymentStatus: a sale whose payments net out to nothing is a draft.
PaymentStatusDraft(paid) ==
  CASE paid <= 0    -> "draft"
    [] paid >= Total /\ paid > 0 -> "paid"
    [] OTHER        -> "partially_paid"

PaymentStatus(paid) ==
  CASE paid <= 0                -> "confirmed"
    [] paid > 0 /\ paid < Total -> "partially_paid"
    [] OTHER                    -> "paid"

\* Mutant of AcceptsPayment: a payment only needs the order to exist.
AcceptsPaymentAnytime == status # "absent"

\* payments.Create and CreateRefundTx refuse an order that is over.
AcceptsPayment == status \notin Over \union {"absent"}

-----------------------------------------------------------------------------
Init ==
  /\ status = "absent"
  /\ completed = FALSE
  /\ version = 0
  /\ snapshots = {}
  /\ pay = [t \in Tender |-> NoPayment]
  /\ reversed = {}
  /\ issued = {}
  /\ restored = {}
  /\ receipt = FALSE
  /\ emitted = {}
  /\ op = [r \in Request |-> "none"]
  /\ seen = [r \in Request |-> 0]

\* orders.Create: a client_order_id seen before returns the order it made.
Create ==
  /\ status = "absent"
  /\ status' = "confirmed"
  /\ version' = 1
  /\ snapshots' = {1}
  /\ UNCHANGED <<completed, money, goods, emitted, op, seen>>

\* payments.Create with a new client_payment_id, then recalcOrderPaymentState.
\* A client_payment_id seen before changes nothing.
Pay(t, x) ==
  /\ AcceptsPayment
  /\ pay[t] = NoPayment
  /\ pay' = [pay EXCEPT ![t] = x]
  /\ IF status \in Over
     THEN UNCHANGED <<status, version>>
     ELSE /\ status' = PaymentStatus(NetPaid(pay', reversed))
          /\ version' = version + 1
  /\ UNCHANGED <<completed, snapshots, reversed, goods, emitted, op, seen>>

-----------------------------------------------------------------------------
(* First step of a request: orders.Get and the checks on what it returned  *)

Read(r, what) ==
  /\ op[r] = "none"
  /\ op' = [op EXCEPT ![r] = what]
  /\ seen' = [seen EXCEPT ![r] = version]
  /\ UNCHANGED <<row, money, goods, emitted>>

\* Mutant of Open: a completed sale is not recognised as one.
OpenUnlessOver == status \notin Over \union {"absent"}

\* Neither completed, nor cancelled, nor returned.
Open == status \notin Over \union {"absent"} /\ ~completed

\* Completed and neither cancelled nor returned.
Sold == status \notin Over \union {"absent"} /\ completed

ReadToComplete(r) == Open /\ Read(r, "complete")
ReadToVoid(r)     == Open /\ Read(r, "void")
ReadToRefund(r)   == Sold /\ Read(r, "refund")

\* The request fails: its transaction is rolled back, its client is gone or
\* the process stops.
Fail(r) ==
  /\ op[r] # "none"
  /\ op' = [op EXCEPT ![r] = "none"]
  /\ seen' = [seen EXCEPT ![r] = 0]
  /\ UNCHANGED <<row, money, goods, emitted>>

-----------------------------------------------------------------------------
(* Second step of a request: its transaction, when it commits              *)

\* Mutant of FreshSnapshot: snapshots are overwritten.
FreshSnapshotUpsert(v) == TRUE

\* The insert into sales_order_snapshots does not violate its primary key.
FreshSnapshot(v) == v \notin snapshots

\* Mutant of RowVersion: the transaction leaves the version column alone.
RowVersionKept(v) == version

\* What the transaction stores in the version column.
RowVersion(v) == v

\* The write every transaction ends with.
Write(r, type) ==
  LET v == seen[r] + 1
  IN  /\ FreshSnapshot(v)
      /\ snapshots' = snapshots \union {v}
      /\ version' = RowVersion(v)
      /\ emitted' = IF type = "none" THEN emitted ELSE emitted \union {<<type, v>>}
      /\ op' = [op EXCEPT ![r] = "none"]
      /\ seen' = [seen EXCEPT ![r] = 0]

\* Issues every tracked item that was not issued before.
ApplySaleTx == issued' = issued \union Tracked

\* Issues a receipt, unless the order has one.
ApplyCompletionTx == receipt' = TRUE

\* CompleteWith and its hooks.  Nothing is re-checked.
CommitComplete(r) ==
  /\ op[r] = "complete"
  /\ Write(r, "sale.completed")
  /\ completed' = TRUE
  /\ ApplySaleTx
  /\ ApplyCompletionTx
  /\ UNCHANGED <<status, money, restored>>

\* Mutant of NoMoneyHeld: the money is not looked at inside the transaction.
NoMoneyHeldUnchecked == TRUE

NoMoneyHeld == NetPaid(pay, reversed) = 0

\* VoidWithActors: only the money is looked at again.
CommitVoid(r) ==
  /\ op[r] = "void"
  /\ NoMoneyHeld
  /\ Write(r, "none")
  /\ status' = "cancelled"
  /\ UNCHANGED <<completed, money, goods>>

\* Mutant of StillSold: the refund's transaction trusts what was read before it.
StillSoldUnchecked == TRUE

\* RefundWithActors reads the order again inside its transaction.
StillSold == Sold

\* The items ApplySaleReturnTx puts back: issued ones without any return.
Restorable == issued \ restored

ApplySaleReturnTx == restored' = restored \union Restorable

\* CreateRefundTx for every capture.  It bumps the version; Write sets it.
CompensateCaptures == reversed' = Captures(pay)

\* RefundWithActors and the hooks of RefundFullSaleWithActors.  No reversal may
\* exist, so the net is the sum of the captures: the checks on its sign and on
\* the total cannot fail, and it is zero only if there is no capture.
CommitRefund(r) ==
  /\ op[r] = "refund"
  /\ StillSold
  /\ Reversals(pay) = {} /\ reversed = {}
  /\ Write(r, "sale.returned")
  /\ CompensateCaptures
  /\ ApplySaleReturnTx
  /\ status' = "returned"
  /\ UNCHANGED <<completed, pay, issued, receipt>>

-----------------------------------------------------------------------------
Serve(r) ==
  \/ ReadToComplete(r) \/ CommitComplete(r)
  \/ ReadToVoid(r) \/ CommitVoid(r)
  \/ ReadToRefund(r) \/ CommitRefund(r)
  \/ Fail(r)

Next ==
  \/ Create
  \/ \E t \in Tender, x \in PaymentInput : Pay(t, x)
  \/ \E r \in Request : Serve(r)

Spec == Init /\ [][Next]_vars

-----------------------------------------------------------------------------
(* Properties                                                              *)

Statuses == {"absent", "confirmed", "partially_paid", "paid"} \union Over
Ops == {"none", "complete", "void", "refund"}

\* The columns and the requests have their types.
TypeOK ==
  /\ status \in Statuses
  /\ completed \in BOOLEAN
  /\ version \in Nat
  /\ snapshots \subseteq Nat
  /\ pay \in [Tender -> Payment \union {NoPayment}]
  /\ reversed \subseteq Tender
  /\ issued \subseteq Tracked
  /\ restored \subseteq Tracked
  /\ receipt \in BOOLEAN
  /\ emitted \subseteq {"sale.completed", "sale.returned"} \X Nat
  /\ op \in [Request -> Ops]
  /\ seen \in [Request -> Nat]

Emitted(type) == {e \in emitted : e[1] = type}

\* A returned sale is square, whatever payments, completions and voids were
\* under way when it was refunded: every capture is compensated, nothing else
\* went out, and every issued item is back on the shelf.
ReturnedIsSquare ==
  status = "returned" =>
    /\ reversed = Captures(pay)
    /\ Reversals(pay) = {}
    /\ restored = issued

\* No payment that races a void ends up on a cancelled sale.
CancelledHoldsNoMoney == status = "cancelled" => NetPaid(pay, reversed) = 0

\* However many refunds of a sale run at once, Central is told of one return.
ReturnedOnce == Cardinality(Emitted("sale.returned")) <= 1

\* However many completions of a sale run at once, Central is told of one sale.
\* It takes the primary key of the snapshots, and holds only while no payment
\* bumps the version between the reads of two completions.
SoldOnce == Cardinality(Emitted("sale.completed")) <= 1

\* SoldOnce for a sale without payments.
UnpaidSoldOnce == Recorded(pay) = {} => SoldOnce

\* A completed sale can be refunded: the snapshot its refund has to insert is
\* not there yet.
RefundStaysPossible == Sold => FreshSnapshot(version + 1)

\* void.go: an order is cancelled "only before sale completion"; the inventory
\* matrix: "No completed inventory issue survives a void before completion".
VoidedSaleIsUnsold ==
  status = "cancelled" => ~completed /\ ~receipt /\ issued = {} /\ Emitted("sale.completed") = {}

\* VoidedSaleIsUnsold for a sale without payments, however many completions and
\* voids of it run at once.
UnpaidVoidedIsUnsold == Recorded(pay) = {} => VoidedSaleIsUnsold

-----------------------------------------------------------------------------
(* Refinement                                                              *)

Phase ==
  CASE status = "absent"    -> "none"
    [] status = "cancelled" -> "voided"
    [] status = "returned"  -> "returned"
    [] OTHER                -> IF completed THEN "sold" ELSE "open"

Contract == INSTANCE SaleContract
  WITH phase <- Phase, gone <- issued \ restored, held <- NetPaid(pay, reversed)

\* While nothing is paid the sale goes through its life as SaleContract allows,
\* however many requests for it run at once: the primary key of the snapshots
\* alone makes them take turns.
UnpaidFollowsContract == [][Recorded(pay)' = {} => Contract!Next]_(Contract!vars)

=============================================================================
