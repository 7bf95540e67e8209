--------------------------- MODULE PartialReturn ---------------------------
(***************************************************************************)
(* A completed sale of which goods come back in parts                      *)
(* (internal/refunds, orders/partial_return.go, inventory/partial_return.go*)
(* and payments/refund_tx.go), until all of it is returned or the rest is  *)
(* refunded as a whole.  In between, money may still be taken or given     *)
(* back by hand.                                                           *)
(*                                                                         *)
(* ReturnPartial reads the order before its transaction, but uses of it    *)
(* only the lines, which never change, and a status it checks again        *)
(* inside: every operation is one atomic step here.  The status column's   *)
(* payment part (confirmed, partially_paid, paid) is SaleLifecycle's.      *)
(***************************************************************************)
EXTENDS Sums, Sequences

CONSTANTS
  Item,         \* order items
  Quantity,     \* quantity_milli of each, in units small enough to count
  LineTotal,    \* line_total_minor of each
  Tracked,      \* items with a sale_issue movement
  FirstCaptures,\* amounts of the captured payments at completion
  LateCapture,  \* amounts that may be captured later
  HandOut,      \* amounts that may be paid out by hand
  ReturnId,     \* ids of return operations
  NoReturn,     \* a return id not used yet
  MaxAsked,     \* bound: the quantity of an item in one return
  MaxCaptures,  \* bound: captured payments
  MaxHandOuts   \* bound: money paid out by hand

ASSUME ReturnAssumption ==
  /\ IsFiniteSet(Item)
  /\ NoReturn \notin [Item -> Nat]
  /\ Quantity \in [Item -> Nat \ {0}]
  /\ LineTotal \in [Item -> Nat]
  /\ Tracked \subseteq Item
  /\ FirstCaptures \in Seq(Nat \ {0})
  /\ LateCapture \subseteq Nat \ {0}
  /\ HandOut \subseteq Nat \ {0}
  /\ MaxAsked \in Nat /\ MaxCaptures \in Nat /\ MaxHandOuts \in Nat

VARIABLES
  status,      \* "sold" or "returned"
  ledger,      \* pos_partial_returns: the quantities of each return id
  returned,    \* per item, the sum of quantity_milli in the ledger
  refundMinor, \* per item, the sum of refund_minor in the ledger
  restored,    \* per item, the sum of the sale_return movements
  capture,     \* amounts of the captured payments, in the order of the query
  refunded,    \* per capture, what the out payments that refer to it sum to
  loose        \* what the out payments that refer to no capture sum to

lines == <<ledger, returned, refundMinor>>
money == <<capture, refunded, loose>>
vars  == <<status, lines, restored, money>>

\* Quantities a cashier may ask to take back: an item not named counts zero.
Asked == {q \in [Item -> 0..MaxAsked] : \E i \in Item : q[i] > 0}

-----------------------------------------------------------------------------
(* PlanPartialReturn                                                       *)

ProportionalFloor(total, numerator, denominator) ==
  IF total <= 0 \/ numerator <= 0 \/ denominator <= 0 THEN 0
  ELSE (total * numerator) \div denominator

\* The refund owed when n of item i are back in all.
LineTarget(i, n) ==
  IF n = Quantity[i] THEN LineTotal[i] ELSE ProportionalFloor(LineTotal[i], n, Quantity[i])

CumulativeQty(q, i) == returned[i] + q[i]

\* Mutant of Plannable: the quantities sold are not looked at.
PlannableUnbounded(q) ==
  \A i \in Item : q[i] > 0 => refundMinor[i] <= LineTarget(i, CumulativeQty(q, i))

\* No item comes back more often than it was sold, and no refund shrinks.
Plannable(q) ==
  \A i \in Item : q[i] > 0 =>
    /\ CumulativeQty(q, i) <= Quantity[i]
    /\ refundMinor[i] <= LineTarget(i, CumulativeQty(q, i))

\* Mutant of PlannedRefund: every return is rounded on its own.
PlannedRefundEach(q) ==
  [i \in Item |-> refundMinor[i] + LineTarget(i, q[i])]

\* What each line has refunded after this return.
PlannedRefund(q) ==
  [i \in Item |-> IF q[i] > 0 THEN LineTarget(i, CumulativeQty(q, i)) ELSE refundMinor[i]]

\* Mutant of FullRemaining: only the items named in this return are looked at.
FullRemainingNamed(q) == \A i \in Item : q[i] > 0 => CumulativeQty(q, i) = Quantity[i]

\* Nothing of the sale is left with the customer.
FullRemaining(q) == \A i \in Item : CumulativeQty(q, i) = Quantity[i]

-----------------------------------------------------------------------------
(* reversePartialTendersTx                                                 *)

Captured == SumOf(capture)
NetPaid == Captured - SumOf(refunded) - loose

\* What capture k's share of a refund of c in all rounds down to.
Share(k, c) == ProportionalFloor(capture[k], c, Captured)

\* Mutant of Target: the last capture's share is not reduced by the others'.
TargetUnreduced(k, c) == IF k = Len(capture) THEN c ELSE Share(k, c)

\* What capture k has to give back of c in all: the last one takes the remainder.
Target(k, c) ==
  IF k = Len(capture)
  THEN c - SumOf([j \in 1..(Len(capture) - 1) |-> Share(j, c)])
  ELSE Share(k, c)

Targets(c) == [k \in DOMAIN capture |-> IF c = 0 THEN refunded[k] ELSE Target(k, c)]

\* Mutant of Covered: CreateRefundTx does not look at the net.
CoveredUnchecked(targets) == TRUE

\* CreateRefundTx: what is paid out now is still held.
Covered(targets) ==
  LET out == SumOf(targets) - SumOf(refunded)
  IN  out = 0 \/ out <= NetPaid

\* The captures can give back c in all.
Allocatable(c) ==
  /\ \A k \in DOMAIN capture : refunded[k] <= capture[k]
  /\ c <= Captured
  /\ \A k \in DOMAIN capture : refunded[k] <= Targets(c)[k]
  /\ Covered(Targets(c))

-----------------------------------------------------------------------------
Init ==
  /\ status = "sold"
  /\ ledger = [id \in ReturnId |-> NoReturn]
  /\ returned = [i \in Item |-> 0]
  /\ refundMinor = [i \in Item |-> 0]
  /\ restored = [i \in Item |-> 0]
  /\ capture = FirstCaptures
  /\ refunded = [k \in DOMAIN FirstCaptures |-> 0]
  /\ loose = 0

\* Mutant of Unused: a return id is not looked up.
UnusedUnchecked(id) == TRUE

\* loadPartialReturnReplay: a return id seen before changes nothing.
Unused(id) == ledger[id] = NoReturn

\* The return goes into the ledger, by quantity and by refund.
AppendPartialReturnTx(id, q) ==
  /\ ledger' = [ledger EXCEPT ![id] = q]
  /\ returned' = [i \in Item |-> CumulativeQty(q, i)]
  /\ refundMinor' = PlannedRefund(q)

\* Of each issued item no more comes back than was issued.
ApplyPartialSaleReturnTx(q) ==
  /\ \A i \in Tracked : q[i] > 0 => restored[i] + q[i] <= Quantity[i]
  /\ restored' = [i \in Item |-> IF i \in Tracked THEN restored[i] + q[i] ELSE restored[i]]

ApplyPartialReturnStateTx(fullRemaining) ==
  /\ status = "sold"
  /\ status' = IF fullRemaining THEN "returned" ELSE "sold"

ReturnPartial(id, q) ==
  LET cumulative == SumOf(PlannedRefund(q))
  IN  /\ Unused(id)
      /\ Plannable(q)
      /\ AppendPartialReturnTx(id, q)
      /\ Allocatable(cumulative)
      /\ refunded' = Targets(cumulative)
      /\ ApplyPartialSaleReturnTx(q)
      /\ ApplyPartialReturnStateTx(FullRemaining(q))
      /\ UNCHANGED <<capture, loose>>

\* Mutant of NoReversal: a full refund does not mind earlier reversals.
NoReversalUnchecked == TRUE

NoReversal == SumOf(refunded) = 0 /\ loose = 0

\* The whole of each issued item is restored, unless it has a sale_return movement.
ApplySaleReturnTx ==
  restored' = [i \in Item |->
                 IF i \in Tracked /\ restored[i] = 0 THEN Quantity[i] ELSE restored[i]]

\* RefundFullSaleWithActors: every capture is compensated.
RefundFull ==
  /\ status = "sold"
  /\ NoReversal
  /\ refunded' = capture
  /\ ApplySaleReturnTx
  /\ status' = "returned"
  /\ UNCHANGED <<lines, capture, loose>>

\* payments.Create: money taken after the completion.
Capture(n) ==
  /\ status = "sold"
  /\ Len(capture) < MaxCaptures
  /\ capture' = Append(capture, n)
  /\ refunded' = Append(refunded, 0)
  /\ UNCHANGED <<status, lines, restored, loose>>

\* payments.Create with direction "out": money given back by hand.  Its reference
\* is whatever the client sends: the id of capture k, or anything else (k = 0).
PayOut(k, n) ==
  /\ status = "sold"
  /\ SumOf(refunded) + loose + n <= MaxHandOuts + SumOf(refundMinor)
  /\ IF k = 0
     THEN loose' = loose + n /\ UNCHANGED refunded
     ELSE refunded' = [refunded EXCEPT ![k] = @ + n] /\ UNCHANGED loose
  /\ UNCHANGED <<status, lines, restored, capture>>

Next ==
  \/ \E id \in ReturnId, q \in Asked : ReturnPartial(id, q)
  \/ RefundFull
  \/ \E n \in LateCapture : Capture(n)
  \/ \E n \in HandOut, k \in {0} \union DOMAIN capture : PayOut(k, n)

Spec == Init /\ [][Next]_vars

-----------------------------------------------------------------------------
(* Properties                                                              *)

Total == SumOf(LineTotal)

\* No item comes back, and no line is refunded, for more than was sold.
WithinSale ==
  \A i \in Item :
    /\ returned[i] <= Quantity[i]
    /\ refundMinor[i] <= LineTotal[i]
    /\ restored[i] <= Quantity[i]

\* The ledger, the movements and the payments have their types and stay within
\* what was sold.
TypeOK ==
  /\ status \in {"sold", "returned"}
  /\ ledger \in [ReturnId -> [Item -> Nat] \union {NoReturn}]
  /\ returned \in [Item -> Nat]
  /\ refundMinor \in [Item -> Nat]
  /\ restored \in [Item -> Nat]
  /\ WithinSale
  /\ capture \in Seq(Nat \ {0})
  /\ refunded \in Seq(Int)
  /\ Len(refunded) = Len(capture)
  /\ loose \in Nat

\* However a quantity is split into returns, the line has refunded the same: its
\* share of the line's total, rounded once (PlanPartialReturn's "repeated partial
\* returns of the same line cannot lose or create minor currency units").
RefundFollowsQuantity ==
  \A i \in Item : refundMinor[i] = LineTarget(i, returned[i])

\* Whatever was captured or paid out by hand in the meantime, after a return the
\* captures have given back what the ledger owes, to the minor unit; as long as
\* it owes nothing, returns pay nothing.
RefundsFollowLedger ==
  [][ledger' # ledger =>
       LET owed == SumOf(refundMinor')
       IN  SumOf(refunded') = IF owed = 0 THEN SumOf(refunded) ELSE owed]_vars

\* No return gives back more of a tender than the tender brought in.  This is so of
\* at most two captures (TendersNeverOver in ReturnProofs): of the refund 2 of
\* captures 1, 1, 1 the last one gives back 2.
TendersNeverOverRefunded ==
  [][ledger' # ledger => \A k \in DOMAIN capture : refunded'[k] <= capture'[k]]_vars

\* No return pays out money that is not held any more.
ReturnsAreCovered ==
  [][ledger' # ledger => NetPaid' >= 0 \/ NetPaid' = NetPaid]_vars

\* The returns in the ledger.
Done == {id \in ReturnId : ledger[id] # NoReturn}

\* However often a return is sent again, it is counted once: in the ledger's
\* sums and on the shelf.
EachReturnCountsOnce ==
  \A i \in Item :
    LET sum == SumOf([id \in Done |-> ledger[id][i]])
    IN  /\ returned[i] = sum
        /\ status = "sold" /\ i \in Tracked => restored[i] = sum

\* A returned sale is settled: all goods are back and all lines refunded, or
\* every capture is compensated.
ReturnedIsSettled ==
  status = "returned" =>
    \/ returned = Quantity /\ refundMinor = LineTotal
    \/ refunded = capture /\ loose = 0

\* refunds/service.go: a full refund "restores sale-issued stock".
ReturnedStockIsBack ==
  status = "returned" => \A i \in Tracked : restored[i] = Quantity[i]

\* The sale is paid in full, and no money was given back by hand.
PaidInFull ==
  Captured = Total /\ loose = 0 /\ SumOf(refunded) = SumOf(refundMinor)

\* Each tender has given back its share of what the ledger owes, and nothing else
\* was paid out.
SharesGivenBack ==
  /\ loose = 0
  /\ refunded = [k \in DOMAIN capture |-> Target(k, SumOf(refundMinor))]

\* As long as the tenders are in their shares, they can give back every larger sum
\* up to what they brought in: no return is refused for the sake of rounding.  This
\* too is so of at most two captures (TwoTendersStayPossible in ReturnProofs).
ReturnsStayPossible ==
  status = "sold" /\ SharesGivenBack =>
    \A c \in SumOf(refundMinor)..Captured : Allocatable(c)

\* refunds/partial_plan.go: "when the final remaining quantity is returned, the
\* cumulative refund equals the original line total exactly".
RemainderReturnable ==
  status = "sold" /\ PaidInFull => Allocatable(Total)

=============================================================================
