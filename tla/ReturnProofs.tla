---------------------------- MODULE ReturnProofs ----------------------------
(***************************************************************************)
(* Proofs about PartialReturn, for every sale: what a line has refunded    *)
(* depends only on how much of it came back, no line is refunded for more  *)
(* than it cost, and a returned sale is settled.  Each return counts once, *)
(* pays what the ledger owes and no more than is held, and the goods are   *)
(* back when the sale is returned, if every piece of them costs something. *)
(* Of the tenders, that two of them can always give back their shares and  *)
(* the whole.                                                              *)
(***************************************************************************)
EXTENDS PartialReturn, SumTheorems, TLAPS

-----------------------------------------------------------------------------
(* Rounding down                                                           *)

LEMMA DivBounds ==
  ASSUME NEW p \in Nat, NEW d \in Nat \ {0}
  PROVE  /\ p \div d \in Nat
         /\ d * (p \div d) <= p
         /\ p < d * (p \div d) + d
OBVIOUS

LEMMA LessByFactor ==
  ASSUME NEW x \in Int, NEW y \in Int, NEW d \in Nat \ {0}, d * x < d * y + d
  PROVE  x <= y
<1>1. SUFFICES ASSUME x >= y + 1 PROVE FALSE
  OBVIOUS
<1>2. d * x >= d * (y + 1)
  BY <1>1
<1>3. d * (y + 1) = d * y + d
  OBVIOUS
<1>4. QED
  BY <1>2, <1>3

\* proportionalFloor never exceeds the amount it divides.
LEMMA FloorBounded ==
  ASSUME NEW total \in Nat, NEW d \in Nat \ {0}, NEW n \in 0..d
  PROVE  ProportionalFloor(total, n, d) \in 0..total
<1>1. CASE total = 0 \/ n = 0
  BY <1>1 DEF ProportionalFloor
<1>2. CASE total > 0 /\ n > 0
  <2>1. ProportionalFloor(total, n, d) = (total * n) \div d
    BY <1>2 DEF ProportionalFloor
  <2>2. total * n \in Nat /\ total * n <= total * d /\ total * d = d * total
    OBVIOUS
  <2>3. /\ (total * n) \div d \in Nat
        /\ d * ((total * n) \div d) <= total * n
    BY <2>2, DivBounds
  <2>4. (total * n) \div d <= total
    BY <2>2, <2>3, LessByFactor
  <2>5. QED
    BY <2>1, <2>3, <2>4
<1>3. QED
  BY <1>1, <1>2

\* proportionalFloor grows with the quantity.
LEMMA FloorMonotone ==
  ASSUME NEW total \in Nat, NEW d \in Nat \ {0}, NEW n \in Nat, NEW m \in Nat, n <= m
  PROVE  ProportionalFloor(total, n, d) <= ProportionalFloor(total, m, d)
<1>1. CASE total = 0 \/ n = 0
  <2>1. ProportionalFloor(total, n, d) = 0
    BY <1>1 DEF ProportionalFloor
  <2>2. total * m \in Nat
    OBVIOUS
  <2>3. ProportionalFloor(total, m, d) >= 0
    BY <2>2, DivBounds DEF ProportionalFloor
  <2>4. QED
    BY <2>1, <2>3
<1>2. CASE total > 0 /\ n > 0
  <2>1. /\ ProportionalFloor(total, n, d) = (total * n) \div d
        /\ ProportionalFloor(total, m, d) = (total * m) \div d
    BY <1>2 DEF ProportionalFloor
  <2>2. total * n \in Nat /\ total * m \in Nat /\ total * n <= total * m
    OBVIOUS
  <2>3. /\ (total * n) \div d \in Nat
        /\ d * ((total * n) \div d) <= total * n
        /\ (total * m) \div d \in Nat
        /\ total * m < d * ((total * m) \div d) + d
    BY <2>2, DivBounds
  <2>4. (total * n) \div d <= (total * m) \div d
    BY <2>2, <2>3, LessByFactor
  <2>5. QED
    BY <2>1, <2>4
<1>3. QED
  BY <1>1, <1>2

-----------------------------------------------------------------------------
(* The refund of a line                                                    *)

LEMMA LineTargetBounded ==
  ASSUME NEW i \in Item, NEW n \in 0..Quantity[i]
  PROVE  LineTarget(i, n) \in 0..LineTotal[i]
<1>1. LineTotal[i] \in Nat /\ Quantity[i] \in Nat \ {0}
  BY ReturnAssumption
<1>2. ProportionalFloor(LineTotal[i], n, Quantity[i]) \in 0..LineTotal[i]
  BY <1>1, FloorBounded
<1>3. QED
  BY <1>1, <1>2 DEF LineTarget

LEMMA LineTargetMonotone ==
  ASSUME NEW i \in Item, NEW m \in 0..Quantity[i], NEW n \in 0..m
  PROVE  LineTarget(i, n) <= LineTarget(i, m)
<1>1. LineTotal[i] \in Nat /\ Quantity[i] \in Nat \ {0}
  BY ReturnAssumption
<1>2. CASE m = Quantity[i]
  <2>1. LineTarget(i, m) = LineTotal[i]
    BY <1>2 DEF LineTarget
  <2>2. LineTarget(i, n) \in 0..LineTotal[i]
    BY <1>1, LineTargetBounded
  <2>3. QED
    BY <1>1, <2>1, <2>2
<1>3. CASE m # Quantity[i]
  <2>1. n # Quantity[i]
    BY <1>1, <1>3
  <2>2. QED
    BY <1>1, <1>3, <2>1, FloorMonotone DEF LineTarget
<1>4. QED
  BY <1>2, <1>3

-----------------------------------------------------------------------------
(* The inductive invariant                                                 *)

\* The types of what the invariant speaks of.
ItemTypes ==
  /\ status \in {"sold", "returned"}
  /\ returned \in [Item -> Nat]
  /\ refundMinor \in [Item -> Nat]
  /\ restored \in [Item -> Nat]

\* While the sale lasts, what is back on the shelf is what was returned.
ShelfFollowsLedger ==
  status = "sold" => \A i \in Tracked : restored[i] = returned[i]

UntrackedUntouched == \A i \in Item \ Tracked : restored[i] = 0

RInv ==
  /\ ItemTypes
  /\ WithinSale
  /\ RefundFollowsQuantity
  /\ ShelfFollowsLedger
  /\ UntrackedUntouched
  /\ ReturnedIsSettled

LEMMA InitRInv == Init => RInv
<1>1. SUFFICES ASSUME Init PROVE RInv
  OBVIOUS
<1>2. \A i \in Item : LineTarget(i, 0) = 0
  BY ReturnAssumption DEF LineTarget, ProportionalFloor
<1>3. ItemTypes /\ WithinSale /\ ShelfFollowsLedger /\ UntrackedUntouched
  BY <1>1, ReturnAssumption
     DEF Init, ItemTypes, WithinSale, ShelfFollowsLedger, UntrackedUntouched
<1>4. RefundFollowsQuantity /\ ReturnedIsSettled
  BY <1>1, <1>2 DEF Init, RefundFollowsQuantity, ReturnedIsSettled
<1>5. QED
  BY <1>3, <1>4 DEF RInv

\* A return is refused for its quantities alone: PlanPartialReturn's test that
\* the refund of a line does not shrink never fails.
THEOREM RefundNeverShrinks ==
  ASSUME RInv, NEW i \in Item, NEW q \in [Item -> Nat], CumulativeQty(q, i) <= Quantity[i]
  PROVE  refundMinor[i] <= LineTarget(i, CumulativeQty(q, i))
<1>1. CumulativeQty(q, i) \in 0..Quantity[i] /\ returned[i] \in 0..CumulativeQty(q, i)
  BY ReturnAssumption DEF RInv, ItemTypes, CumulativeQty
<1>2. LineTarget(i, returned[i]) <= LineTarget(i, CumulativeQty(q, i))
  BY <1>1, LineTargetMonotone
<1>3. QED
  BY <1>2 DEF RInv, RefundFollowsQuantity

LEMMA ReturnPartialRInv ==
  ASSUME RInv, NEW id \in ReturnId, NEW q \in Asked, ReturnPartial(id, q)
  PROVE  RInv'
<1>1. q \in [Item -> Nat]
  BY ReturnAssumption DEF Asked
<1>2. ASSUME NEW i \in Item
      PROVE  /\ CumulativeQty(q, i) \in 0..Quantity[i]
             /\ returned'[i] = CumulativeQty(q, i)
             /\ refundMinor'[i] = LineTarget(i, CumulativeQty(q, i))
  <2>1. CumulativeQty(q, i) \in 0..Quantity[i]
    <3>1. CASE q[i] > 0
      BY <1>1, <3>1, ReturnAssumption DEF ReturnPartial, Plannable, CumulativeQty, RInv, ItemTypes
    <3>2. CASE q[i] = 0
      BY <1>1, <3>2, ReturnAssumption DEF CumulativeQty, RInv, ItemTypes, WithinSale
    <3>3. QED
      BY <1>1, <3>1, <3>2
  <2>2. returned'[i] = CumulativeQty(q, i)
    BY DEF ReturnPartial, AppendPartialReturnTx
  <2>3. refundMinor'[i] = LineTarget(i, CumulativeQty(q, i))
    <3>1. refundMinor' = PlannedRefund(q)
      BY DEF ReturnPartial, AppendPartialReturnTx
    <3>2. CASE q[i] > 0
      BY <3>1, <3>2 DEF PlannedRefund
    <3>3. CASE q[i] = 0
      <4>1. CumulativeQty(q, i) = returned[i]
        BY <3>3 DEF CumulativeQty, RInv, ItemTypes
      <4>2. refundMinor'[i] = refundMinor[i]
        BY <3>1, <3>3 DEF PlannedRefund
      <4>3. QED
        BY <4>1, <4>2 DEF RInv, RefundFollowsQuantity
    <3>4. QED
      BY <1>1, <3>2, <3>3
  <2>4. QED
    BY <2>1, <2>2, <2>3
<1>3. status = "sold" /\ status' \in {"sold", "returned"}
  BY DEF ReturnPartial, ApplyPartialReturnStateTx
<1>4. /\ returned' \in [Item -> Nat]
      /\ refundMinor' \in [Item -> Nat]
  <2>1. returned' = [i \in Item |-> CumulativeQty(q, i)] /\ refundMinor' = PlannedRefund(q)
    BY DEF ReturnPartial, AppendPartialReturnTx
  <2>2. \A i \in Item : returned'[i] \in Nat /\ refundMinor'[i] \in Nat
    BY <1>2, LineTargetBounded, ReturnAssumption
  <2>3. QED
    BY <2>1, <2>2 DEF PlannedRefund
<1>5. ASSUME NEW i \in Item
      PROVE  /\ restored'[i] = IF i \in Tracked THEN returned'[i] ELSE 0
             /\ restored'[i] \in 0..Quantity[i]
  <2>1. restored'[i] = IF i \in Tracked THEN restored[i] + q[i] ELSE restored[i]
    BY DEF ReturnPartial, ApplyPartialSaleReturnTx
  <2>2. CASE i \in Tracked
    BY <1>2, <1>3, <2>1, <2>2 DEF RInv, ShelfFollowsLedger, CumulativeQty
  <2>3. CASE i \notin Tracked
    BY <2>1, <2>3, ReturnAssumption DEF RInv, UntrackedUntouched
  <2>4. QED
    BY <2>2, <2>3
<1>6. restored' \in [Item -> Nat]
  <2>1. restored' = [i \in Item |-> IF i \in Tracked THEN restored[i] + q[i] ELSE restored[i]]
    BY DEF ReturnPartial, ApplyPartialSaleReturnTx
  <2>2. \A i \in Item : restored'[i] \in Nat
    BY <1>5, ReturnAssumption
  <2>3. QED
    BY <2>1, <2>2
<1>7. WithinSale'
  <2>1. ASSUME NEW i \in Item
        PROVE  returned'[i] <= Quantity[i] /\ refundMinor'[i] <= LineTotal[i]
    BY <1>2, LineTargetBounded, ReturnAssumption
  <2>2. QED
    BY <1>5, <2>1, ReturnAssumption DEF WithinSale
<1>8. RefundFollowsQuantity'
  BY <1>2 DEF RefundFollowsQuantity, LineTarget
<1>9. ShelfFollowsLedger' /\ UntrackedUntouched'
  BY <1>5, ReturnAssumption DEF ShelfFollowsLedger, UntrackedUntouched
<1>10. ReturnedIsSettled'
  <2>1. SUFFICES ASSUME status' = "returned" PROVE returned' = Quantity /\ refundMinor' = LineTotal
    BY DEF ReturnedIsSettled
  <2>2. \A i \in Item : CumulativeQty(q, i) = Quantity[i]
    BY <2>1 DEF ReturnPartial, ApplyPartialReturnStateTx, FullRemaining
  <2>3. \A i \in Item : returned'[i] = Quantity[i] /\ refundMinor'[i] = LineTotal[i]
    BY <1>2, <2>2 DEF LineTarget
  <2>4. QED
    BY <1>4, <2>3, ReturnAssumption
<1>11. QED
  BY <1>3, <1>4, <1>6, <1>7, <1>8, <1>9, <1>10 DEF RInv, ItemTypes

LEMMA RefundFullRInv ==
  ASSUME RInv, RefundFull
  PROVE  RInv'
<1>1. returned' = returned /\ refundMinor' = refundMinor /\ loose = 0 /\ loose' = loose
  BY DEF RefundFull, ApplySaleReturnTx, lines, NoReversal
<1>2. status' = "returned" /\ refunded' = capture /\ capture' = capture
  BY DEF RefundFull
<1>3. ASSUME NEW i \in Item
      PROVE  /\ restored'[i] \in 0..Quantity[i]
             /\ i \notin Tracked => restored'[i] = 0
  BY ReturnAssumption
     DEF RefundFull, ApplySaleReturnTx, RInv, ItemTypes, WithinSale, UntrackedUntouched
<1>4. restored' \in [Item -> Nat]
  <2>1. restored' = [i \in Item |->
                       IF i \in Tracked /\ restored[i] = 0 THEN Quantity[i] ELSE restored[i]]
    BY DEF RefundFull, ApplySaleReturnTx
  <2>2. \A i \in Item : restored'[i] \in Nat
    BY <1>3, ReturnAssumption
  <2>3. QED
    BY <2>1, <2>2
<1>5. ItemTypes' /\ ShelfFollowsLedger' /\ ReturnedIsSettled'
  BY <1>1, <1>2, <1>4 DEF RInv, ItemTypes, ShelfFollowsLedger, ReturnedIsSettled
<1>6. WithinSale' /\ UntrackedUntouched'
  BY <1>1, <1>3, ReturnAssumption DEF RInv, WithinSale, UntrackedUntouched
<1>7. RefundFollowsQuantity'
  BY <1>1 DEF RInv, RefundFollowsQuantity, LineTarget
<1>8. QED
  BY <1>5, <1>6, <1>7 DEF RInv

\* Steps that only move money, or nothing at all.
LEMMA ItemsUnchangedRInv ==
  ASSUME RInv, UNCHANGED <<status, lines, restored>>,
         status = "sold" \/ UNCHANGED money
  PROVE  RInv'
<1>1. /\ returned' = returned /\ refundMinor' = refundMinor
      /\ restored' = restored /\ status' = status
  BY DEF lines
<1>2. ItemTypes' /\ WithinSale' /\ ShelfFollowsLedger' /\ UntrackedUntouched'
  BY <1>1 DEF RInv, ItemTypes, WithinSale, ShelfFollowsLedger, UntrackedUntouched
<1>3. RefundFollowsQuantity'
  BY <1>1 DEF RInv, RefundFollowsQuantity, LineTarget
<1>4. ReturnedIsSettled'
  BY <1>1 DEF RInv, ReturnedIsSettled, money
<1>5. QED
  BY <1>2, <1>3, <1>4 DEF RInv

LEMMA NextRInv == RInv /\ [Next]_vars => RInv'
<1>1. SUFFICES ASSUME RInv, [Next]_vars PROVE RInv'
  OBVIOUS
<1>2. ASSUME NEW id \in ReturnId, NEW q \in Asked, ReturnPartial(id, q) PROVE RInv'
  BY <1>1, <1>2, ReturnPartialRInv
<1>3. CASE RefundFull
  BY <1>1, <1>3, RefundFullRInv
<1>4. ASSUME NEW n \in LateCapture, Capture(n) PROVE RInv'
  BY <1>1, <1>4, ItemsUnchangedRInv DEF Capture
<1>5. ASSUME NEW n \in HandOut, NEW k \in {0} \union DOMAIN capture, PayOut(k, n) PROVE RInv'
  BY <1>1, <1>5, ItemsUnchangedRInv DEF PayOut
<1>6. CASE UNCHANGED vars
  BY <1>1, <1>6, ItemsUnchangedRInv DEF vars, money
<1>7. QED
  BY <1>1, <1>2, <1>3, <1>4, <1>5, <1>6 DEF Next

THEOREM ReturnInvariant == Spec => []RInv
BY InitRInv, NextRInv, PTL DEF Spec

\* The refund of a line depends only on how much of it is back, whatever the
\* returns it was split into.
THEOREM RefundsAreExact == Spec => []RefundFollowsQuantity
<1>1. RInv => RefundFollowsQuantity
  BY DEF RInv
<1>2. QED
  BY <1>1, ReturnInvariant, PTL

\* No item comes back, reaches the shelf or is refunded for more than was sold.
THEOREM NeverMoreThanSold == Spec => []WithinSale
<1>1. RInv => WithinSale
  BY DEF RInv
<1>2. QED
  BY <1>1, ReturnInvariant, PTL

\* A returned sale has all its goods back and all its lines refunded, or every
\* capture compensated.
THEOREM ReturnedSalesAreSettled == Spec => []ReturnedIsSettled
<1>1. RInv => ReturnedIsSettled
  BY DEF RInv
<1>2. QED
  BY <1>1, ReturnInvariant, PTL

-----------------------------------------------------------------------------
(* The tenders                                                             *)

\* Of two captures the first can give back its share of any refund, rounded
\* down, and the second the rest; with three the second half fails.
THEOREM TwoTendersSuffice ==
  ASSUME NEW a1 \in Nat \ {0}, NEW a2 \in Nat \ {0}, NEW c \in 0..(a1 + a2)
  PROVE  LET share == ProportionalFloor(a1, c, a1 + a2)
         IN  share \in 0..a1 /\ c - share \in 0..a2
<1> DEFINE T == a1 + a2
           share == ProportionalFloor(a1, c, T)
<1>1. T \in Nat \ {0} /\ share \in 0..a1
  BY FloorBounded
<1>2. CASE c = 0
  BY <1>2, <1>1 DEF ProportionalFloor
<1>3. CASE c > 0
  <2>1. share = (a1 * c) \div T
    BY <1>3 DEF ProportionalFloor
  <2>2. a1 * c \in Nat /\ a1 * c <= T * c /\ T * c = a1 * c + a2 * c /\ a2 * c <= T * a2
    <3>1. T * c = a1 * c + a2 * c /\ a2 * c \in Nat /\ a1 * c \in Nat
      OBVIOUS
    <3>2. a2 * c <= a2 * T /\ a2 * T = T * a2
      BY <1>1
    <3>3. QED
      BY <3>1, <3>2
  <2>3. T * share <= a1 * c /\ a1 * c < T * share + T
    BY <1>1, <2>1, <2>2, DivBounds
  <2>4. share <= c
    <3>1. T * share < T * c + T
      BY <1>1, <2>2, <2>3
    <3>2. QED
      BY <1>1, <3>1, LessByFactor
  <2>5. c - share <= a2
    <3>1. T * (c - share) = T * c - T * share
      BY <1>1
    <3>2. T * (c - share) < T * a2 + T
      BY <1>1, <2>2, <2>3, <3>1
    <3>3. QED
      BY <1>1, <3>2, LessByFactor
  <2>6. QED
    BY <1>1, <2>4, <2>5
<1>4. QED
  BY <1>2, <1>3

-----------------------------------------------------------------------------
(* Shares of the captures                                                  *)

CaptureTypes == capture \in Seq(Nat \ {0})

LEMMA CapturedType ==
  ASSUME CaptureTypes
  PROVE  /\ Captured \in Nat
         /\ \A k \in DOMAIN capture : capture[k] \in Nat \ {0} /\ capture[k] <= Captured
<1> DEFINE n == Len(capture)
<1>1. n \in Nat /\ DOMAIN capture = 1..n /\ capture \in [1..n -> Nat \ {0}]
  BY DEF CaptureTypes
<1>2. IsFiniteSet(1..n) /\ capture \in [1..n -> Nat]
  BY <1>1, FS_Interval
<1>3. QED
  BY <1>1, <1>2, SumNat DEF Captured

LEMMA ShareType ==
  ASSUME CaptureTypes, NEW k \in DOMAIN capture, NEW c \in 0..Captured
  PROVE  Share(k, c) \in 0..capture[k]
<1>1. capture[k] \in Nat /\ Captured \in Nat \ {0}
  BY CapturedType
<1>2. QED
  BY <1>1, FloorBounded DEF Share

\* Whatever is to be given back in all, the shares of the captures add up to it.
LEMMA TargetsAddUp ==
  ASSUME CaptureTypes, capture # <<>>, NEW c \in 0..Captured,
         NEW t, t = [k \in DOMAIN capture |-> Target(k, c)]
  PROVE  /\ t \in [DOMAIN capture -> Int]
         /\ SumOf(t) = c
<1> DEFINE m == Len(capture) - 1
           f == [j \in 1..m |-> Share(j, c)]
<1>1. m \in Nat /\ Len(capture) = m + 1 /\ DOMAIN capture = 1..(m + 1) /\ c \in Int
  BY CapturedType DEF CaptureTypes
<1>2. f \in [1..m -> Int]
  <2>1. ASSUME NEW j \in 1..m PROVE Share(j, c) \in Int
    <3>1. j \in DOMAIN capture
      BY <1>1
    <3>2. capture[j] \in Nat /\ Share(j, c) \in 0..capture[j]
      BY <3>1, ShareType, CapturedType
    <3>3. QED
      BY <3>2
  <2>2. QED
    BY <2>1
<1>3. SumOf(f) \in Int
  <2> HIDE DEF f, m
  <2>1. IsFiniteSet(1..m)
    BY <1>1, FS_Interval
  <2>2. QED
    BY <1>2, <2>1, SumInt
<1>4. /\ t[m + 1] = c - SumOf(f)
      /\ \A j \in 1..m : t[j] = f[j]
  <2>1. t[m + 1] = Target(m + 1, c) /\ m + 1 = Len(capture)
    BY <1>1
  <2>2. Target(Len(capture), c) = c - SumOf(f)
    BY DEF Target
  <2>3. ASSUME NEW j \in 1..m PROVE t[j] = f[j]
    <3>1. j # Len(capture) /\ j \in DOMAIN capture
      <4> HIDE DEF m, f
      <4>1. QED
        BY <1>1
    <3>2. Target(j, c) = Share(j, c)
      BY <3>1 DEF Target
    <3>3. t[j] = Target(j, c) /\ f[j] = Share(j, c)
      BY <3>1
    <3>4. QED
      BY <3>2, <3>3
  <2>4. QED
    BY <2>1, <2>2, <2>3
<1> HIDE DEF f, m
<1>5. t \in [1..(m + 1) -> Int]
  <2>1. ASSUME NEW j \in 1..(m + 1) PROVE t[j] \in Int
    <3>1. j \in 1..m \/ j = m + 1
      BY <1>1
    <3>2. CASE j \in 1..m
      BY <1>2, <1>4, <3>2
    <3>3. CASE j = m + 1
      BY <1>1, <1>3, <1>4, <3>3
    <3>4. QED
      BY <3>1, <3>2, <3>3
  <2>2. DOMAIN t = 1..(m + 1) /\ t = [k \in 1..(m + 1) |-> t[k]]
    BY <1>1
  <2>3. QED
    BY <2>1, <2>2
<1>6. SumOf(t) = SumOf(f) + t[m + 1]
  BY <1>1, <1>2, <1>4, <1>5, SumAppend
<1>7. QED
  BY <1>1, <1>3, <1>4, <1>5, <1>6

-----------------------------------------------------------------------------
(* The ledger and the money                                                *)

MoneyTypes ==
  /\ CaptureTypes
  /\ refunded \in Seq(Int) /\ Len(refunded) = Len(capture)
  /\ loose \in Nat

LedgerTypes ==
  /\ ledger \in [ReturnId -> [Item -> Nat] \union {NoReturn}]
  /\ IsFiniteSet(Done)

LedgerAddsUp == \A i \in Item : returned[i] = SumOf([id \in Done |-> ledger[id][i]])

\* What the ledger owes has been given back, and maybe more by hand.
OwedIsGivenBack == status = "sold" => SumOf(refundMinor) <= SumOf(refunded)

MInv == MoneyTypes /\ LedgerTypes /\ LedgerAddsUp /\ OwedIsGivenBack

LEMMA RefundedType ==
  ASSUME MoneyTypes
  PROVE  /\ SumOf(refunded) \in Int
         /\ refunded \in [DOMAIN capture -> Int]
         /\ DOMAIN refunded = DOMAIN capture /\ DOMAIN capture = 1..Len(capture)
         /\ Len(capture) \in Nat /\ IsFiniteSet(DOMAIN capture)
<1> DEFINE n == Len(capture)
<1>1. n \in Nat /\ DOMAIN capture = 1..n /\ refunded \in [1..n -> Int]
  BY DEF MoneyTypes, CaptureTypes
<1>2. IsFiniteSet(1..n)
  BY <1>1, FS_Interval
<1>3. QED
  BY <1>1, <1>2, SumInt

LEMMA OwedType == ASSUME ItemTypes PROVE SumOf(refundMinor) \in Nat
BY ReturnAssumption, SumNat DEF ItemTypes

LEMMA InitMInv == Init => MInv
<1> SUFFICES ASSUME Init PROVE MInv
  OBVIOUS
<1>1. MoneyTypes
  BY ReturnAssumption DEF Init, MoneyTypes, CaptureTypes
<1>2. Done = {}
  BY DEF Init, Done
<1>3. LedgerTypes
  BY <1>2, FS_EmptySet DEF Init, LedgerTypes
<1>4. LedgerAddsUp
  <2>1. ASSUME NEW i \in Item PROVE SumOf([id \in Done |-> ledger[id][i]]) = 0
    BY <1>2, SumEmpty
  <2>2. QED
    BY <2>1 DEF LedgerAddsUp, Init
<1>5. SumOf(refundMinor) = 0
  BY ReturnAssumption, SumZero DEF Init
<1>6. SumOf(refunded) = 0
  <2>1. IsFiniteSet(DOMAIN refunded) /\ \A k \in DOMAIN refunded : refunded[k] = 0
    BY <1>1, RefundedType DEF Init
  <2>2. QED
    BY <2>1, SumZero
<1>7. QED
  BY <1>1, <1>3, <1>4, <1>5, <1>6 DEF MInv, OwedIsGivenBack

\* What a return leaves behind.
LEMMA ReturnLedger ==
  ASSUME RInv, MInv, NEW id \in ReturnId, NEW q \in Asked, ReturnPartial(id, q)
  PROVE  LedgerTypes' /\ LedgerAddsUp'
<1>1. q \in [Item -> Nat] /\ id \notin Done /\ ledger' = [ledger EXCEPT ![id] = q]
  BY ReturnAssumption DEF Asked, ReturnPartial, Unused, Done, AppendPartialReturnTx
<1>2. q # NoReturn
  BY <1>1, ReturnAssumption
<1>3. Done' = Done \union {id}
  BY <1>1, <1>2 DEF MInv, LedgerTypes, Done
<1>4. LedgerTypes'
  BY <1>1, <1>3, FS_AddElement DEF MInv, LedgerTypes
<1>5. ASSUME NEW i \in Item
      PROVE  returned'[i] = SumOf([d \in Done' |-> ledger'[d][i]])
  <2> DEFINE g == [d \in Done |-> ledger[d][i]]
             h == [d \in Done' |-> ledger'[d][i]]
  <2>1. ASSUME NEW d \in Done PROVE ledger[d] \in [Item -> Nat] /\ ledger'[d] = ledger[d]
    BY <1>1, <2>1 DEF MInv, LedgerTypes, Done
  <2>2. h \in [Done' -> Int] /\ DOMAIN g = Done' \ {id} /\ h[id] = q[i] /\ id \in Done'
        /\ \A d \in Done' \ {id} : g[d] = h[d]
    <3>1. ledger'[id] = q
      BY <1>1 DEF MInv, LedgerTypes
    <3>2. \A d \in Done' : ledger'[d][i] \in Int
      BY <1>1, <1>3, <2>1, <3>1
    <3>3. QED
      BY <1>1, <1>3, <2>1, <3>1, <3>2
  <2>3. IsFiniteSet(Done')
    BY <1>4 DEF LedgerTypes
  <2>4. returned[i] = SumOf(g)
    BY DEF MInv, LedgerAddsUp
  <2> HIDE DEF g, h
  <2>5. SumOf(h) = q[i] + SumOf(g)
    BY <2>2, <2>3, SumTakeOut
  <2>6. returned'[i] = returned[i] + q[i]
    BY DEF ReturnPartial, AppendPartialReturnTx, CumulativeQty
  <2>7. q[i] \in Int /\ returned[i] \in Int
    BY <1>1 DEF RInv, ItemTypes
  <2>8. returned'[i] = SumOf(h)
    BY <2>4, <2>5, <2>6, <2>7
  <2>9. QED
    BY <2>8 DEF h
<1>6. LedgerAddsUp'
  BY <1>5 DEF LedgerAddsUp
<1>7. QED
  BY <1>4, <1>6

LEMMA ReturnMoney ==
  ASSUME RInv, MInv, NEW id \in ReturnId, NEW q \in Asked, ReturnPartial(id, q)
  PROVE  /\ MoneyTypes'
         /\ UNCHANGED <<capture, loose>>
         /\ SumOf(refundMinor') \in 0..Captured
         /\ refunded' = Targets(SumOf(refundMinor'))
         /\ Allocatable(SumOf(refundMinor'))
         /\ SumOf(refunded') = IF SumOf(refundMinor') = 0 THEN SumOf(refunded)
                                ELSE SumOf(refundMinor')
<1> DEFINE c == SumOf(refundMinor')
<1>1. ItemTypes'
  BY ReturnPartialRInv DEF RInv
<1>2. c \in Nat
  BY <1>1, ReturnAssumption, SumNat DEF ItemTypes
<1>3. /\ refundMinor' = PlannedRefund(q) /\ UNCHANGED <<capture, loose>>
      /\ refunded' = Targets(c) /\ Allocatable(c)
  BY DEF ReturnPartial, AppendPartialReturnTx
<1> HIDE DEF c
<1>4. MoneyTypes /\ CaptureTypes /\ Captured \in Nat
  BY CapturedType DEF MInv, MoneyTypes
<1>5. c \in 0..Captured
  BY <1>2, <1>3, <1>4 DEF Allocatable
<1>6. /\ refunded' \in [DOMAIN capture -> Int]
      /\ SumOf(refunded') = IF c = 0 THEN SumOf(refunded) ELSE c
  <2>1. CASE c = 0
    <3>1. refunded' = [k \in DOMAIN capture |-> refunded[k]]
      BY <1>3, <2>1 DEF Targets
    <3>2. refunded' = refunded
      BY <1>4, <3>1, RefundedType
    <3>3. QED
      BY <1>4, <2>1, <3>2, RefundedType
  <2>2. CASE c # 0
    <3>1. refunded' = [k \in DOMAIN capture |-> Target(k, c)]
      BY <1>3, <2>2 DEF Targets
    <3>2. capture # <<>>
      <4>1. SUFFICES ASSUME capture = <<>> PROVE FALSE
        OBVIOUS
      <4>2. Captured = 0
        BY <4>1, SumEmpty DEF Captured
      <4>3. QED
        BY <1>5, <2>2, <4>2
    <3>3. QED
      BY <1>4, <1>5, <2>2, <3>1, <3>2, TargetsAddUp
  <2>3. QED
    BY <2>1, <2>2
<1>7. MoneyTypes'
  <2>1. refunded' \in Seq(Int) /\ Len(refunded') = Len(capture)
    BY <1>4, <1>6, RefundedType
  <2>2. QED
    BY <1>3, <1>4, <2>1 DEF MoneyTypes, CaptureTypes
<1>8. QED
  BY <1>3, <1>5, <1>6, <1>7 DEF c

LEMMA ReturnPartialMInv ==
  ASSUME RInv, MInv, NEW id \in ReturnId, NEW q \in Asked, ReturnPartial(id, q)
  PROVE  MInv'
<1>1. LedgerTypes' /\ LedgerAddsUp'
  BY ReturnLedger
<1>2. MoneyTypes'
  BY ReturnMoney
<1>3. SumOf(refundMinor') <= SumOf(refunded')
  <2>1. /\ SumOf(refundMinor') \in 0..Captured
        /\ SumOf(refunded') = IF SumOf(refundMinor') = 0 THEN SumOf(refunded)
                               ELSE SumOf(refundMinor')
    BY ReturnMoney
  <2>2. Captured \in Nat /\ SumOf(refunded) \in Int
    BY CapturedType, RefundedType DEF MInv, MoneyTypes
  <2>3. 0 <= SumOf(refunded)
    <3>1. status = "sold"
      BY DEF ReturnPartial, ApplyPartialReturnStateTx
    <3>2. SumOf(refundMinor) \in Nat /\ SumOf(refundMinor) <= SumOf(refunded)
      BY <3>1, OwedType DEF RInv, MInv, OwedIsGivenBack
    <3>3. QED
      BY <2>2, <3>2
  <2> DEFINE owed == SumOf(refundMinor')
             paid == SumOf(refunded')
             was == SumOf(refunded)
  <2> HIDE DEF owed, paid, was
  <2>4. owed <= paid
    BY <2>1, <2>2, <2>3 DEF owed, paid, was
  <2>5. QED
    BY <2>4 DEF owed, paid
<1>4. QED
  BY <1>1, <1>2, <1>3 DEF MInv, OwedIsGivenBack

LEMMA RefundFullMInv ==
  ASSUME MInv, RefundFull
  PROVE  MInv'
<1>1. /\ ledger' = ledger /\ returned' = returned /\ loose' = loose
      /\ capture' = capture /\ refunded' = capture /\ status' = "returned"
  BY DEF RefundFull, lines
<1>2. MoneyTypes'
  <2>1. capture \in Seq(Int)
    BY DEF MInv, MoneyTypes, CaptureTypes
  <2>2. QED
    BY <1>1, <2>1 DEF MInv, MoneyTypes, CaptureTypes
<1>3. LedgerTypes' /\ LedgerAddsUp'
  <2>1. Done' = Done
    BY <1>1 DEF Done
  <2>2. QED
    BY <1>1, <2>1 DEF MInv, LedgerTypes, LedgerAddsUp
<1>4. QED
  BY <1>1, <1>2, <1>3 DEF MInv, OwedIsGivenBack

\* Money moved by hand, or nothing at all: what was given back does not shrink.
LEMMA LedgerUnchangedMInv ==
  ASSUME RInv, MInv, UNCHANGED <<status, lines, restored>>,
         MoneyTypes', SumOf(refunded') \in Int, SumOf(refunded) <= SumOf(refunded')
  PROVE  MInv'
<1>1. /\ ledger' = ledger /\ returned' = returned
      /\ refundMinor' = refundMinor /\ status' = status
  BY DEF lines
<1>2. LedgerTypes' /\ LedgerAddsUp'
  <2>1. Done' = Done
    BY <1>1 DEF Done
  <2>2. QED
    BY <1>1, <2>1 DEF MInv, LedgerTypes, LedgerAddsUp
<1>3. SumOf(refundMinor) \in Int /\ SumOf(refunded) \in Int
  BY OwedType, RefundedType DEF RInv, MInv
<1>4. OwedIsGivenBack'
  <2>1. SUFFICES ASSUME status = "sold" PROVE SumOf(refundMinor) <= SumOf(refunded')
    BY <1>1 DEF OwedIsGivenBack
  <2>2. SumOf(refundMinor) <= SumOf(refunded)
    BY <2>1 DEF MInv, OwedIsGivenBack
  <2>3. QED
    BY <1>3, <2>2
<1>5. QED
  BY <1>2, <1>4 DEF MInv

LEMMA CaptureMInv ==
  ASSUME RInv, MInv, NEW n \in LateCapture, Capture(n)
  PROVE  MInv'
<1> DEFINE m == Len(capture)
<1>1. /\ UNCHANGED <<status, lines, restored>> /\ loose' = loose
      /\ capture' = Append(capture, n) /\ refunded' = Append(refunded, 0)
  BY DEF Capture
<1>2. MoneyTypes /\ n \in Nat \ {0}
  BY ReturnAssumption DEF MInv
<1>3. MoneyTypes'
  BY <1>1, <1>2 DEF MoneyTypes, CaptureTypes
<1>4. /\ m \in Nat /\ refunded \in [1..m -> Int]
      /\ refunded' \in [1..(m + 1) -> Int] /\ refunded'[m + 1] = 0
      /\ \A k \in 1..m : refunded'[k] = refunded[k]
  <2>1. m \in Nat /\ Len(refunded) = m /\ refunded \in Seq(Int)
    BY <1>2 DEF MoneyTypes, CaptureTypes
  <2> HIDE DEF m
  <2>2. refunded \in [1..m -> Int]
    BY <2>1
  <2>3. /\ Len(refunded') = m + 1 /\ refunded' \in Seq(Int)
        /\ refunded'[m + 1] = 0 /\ \A k \in 1..m : refunded'[k] = refunded[k]
    BY <1>1, <2>1
  <2>4. refunded' \in [1..(m + 1) -> Int]
    BY <2>3
  <2>5. QED
    BY <2>1, <2>2, <2>3, <2>4
<1> HIDE DEF m
<1>5. SumOf(refunded') = SumOf(refunded) + 0
  BY <1>4, SumAppend
<1>6. SumOf(refunded) \in Int
  BY <1>2, RefundedType
<1>7. SumOf(refunded') \in Int /\ SumOf(refunded) <= SumOf(refunded')
  BY <1>5, <1>6
<1>8. QED
  BY <1>1, <1>3, <1>7, LedgerUnchangedMInv

LEMMA PayOutMInv ==
  ASSUME RInv, MInv, NEW n \in HandOut, NEW k \in {0} \union DOMAIN capture, PayOut(k, n)
  PROVE  MInv'
<1>1. UNCHANGED <<status, lines, restored>> /\ capture' = capture
  BY DEF PayOut
<1>2. MoneyTypes /\ n \in Nat \ {0} /\ SumOf(refunded) \in Int
  BY ReturnAssumption, RefundedType DEF MInv
<1>3. /\ MoneyTypes' /\ SumOf(refunded') \in Int
      /\ SumOf(refunded) <= SumOf(refunded')
  <2>1. CASE k = 0
    <3>1. loose' = loose + n /\ refunded' = refunded
      BY <2>1 DEF PayOut
    <3>2. QED
      BY <1>1, <1>2, <3>1 DEF MoneyTypes, CaptureTypes
  <2>2. CASE k # 0
    <3> DEFINE D == DOMAIN capture
               v == refunded[k] + n
    <3>1. loose' = loose /\ refunded' = [refunded EXCEPT ![k] = v]
      BY <2>2 DEF PayOut
    <3>2. k \in D /\ IsFiniteSet(D) /\ refunded \in [D -> Int] /\ v \in Int
          /\ D = 1..Len(capture) /\ Len(capture) \in Nat
      BY <1>2, <2>2, RefundedType
    <3> HIDE DEF D, v
    <3>3. SumOf(refunded') = SumOf(refunded) - refunded[k] + v
      BY <3>1, <3>2, SumUpdate
    <3>4. refunded[k] \in Int /\ v = refunded[k] + n
      BY <3>2 DEF v
    <3>5. SumOf(refunded') \in Int /\ SumOf(refunded) <= SumOf(refunded')
      BY <1>2, <3>3, <3>4
    <3>6. refunded' \in [1..Len(capture) -> Int]
      BY <3>1, <3>2
    <3>7. MoneyTypes'
      BY <1>1, <1>2, <3>1, <3>2, <3>6 DEF MoneyTypes, CaptureTypes
    <3>8. QED
      BY <3>5, <3>7
  <2>3. QED
    BY <2>1, <2>2
<1>4. QED
  BY <1>1, <1>3, LedgerUnchangedMInv

LEMMA NextMInv == RInv /\ MInv /\ [Next]_vars => MInv'
<1>1. SUFFICES ASSUME RInv, MInv, [Next]_vars PROVE MInv'
  OBVIOUS
<1>2. ASSUME NEW id \in ReturnId, NEW q \in Asked, ReturnPartial(id, q) PROVE MInv'
  BY <1>1, <1>2, ReturnPartialMInv
<1>3. CASE RefundFull
  BY <1>1, <1>3, RefundFullMInv
<1>4. ASSUME NEW n \in LateCapture, Capture(n) PROVE MInv'
  BY <1>1, <1>4, CaptureMInv
<1>5. ASSUME NEW n \in HandOut, NEW k \in {0} \union DOMAIN capture, PayOut(k, n) PROVE MInv'
  BY <1>1, <1>5, PayOutMInv
<1>6. CASE UNCHANGED vars
  <2>1. UNCHANGED <<status, lines, restored>> /\ UNCHANGED <<capture, refunded, loose>>
    BY <1>6 DEF vars, money
  <2>2. MoneyTypes' /\ SumOf(refunded') = SumOf(refunded)
    BY <1>1, <2>1 DEF MInv, MoneyTypes, CaptureTypes
  <2>3. SumOf(refunded) \in Int
    BY <1>1, RefundedType DEF MInv
  <2>4. QED
    BY <1>1, <2>1, <2>2, <2>3, LedgerUnchangedMInv
<1>7. QED
  BY <1>1, <1>2, <1>3, <1>4, <1>5, <1>6 DEF Next

\* The ledger is what was returned, and what it owes has been given back.
THEOREM MoneyInvariant == Spec => [](RInv /\ MInv)
<1>1. RInv /\ MInv /\ [Next]_vars => RInv' /\ MInv'
  BY NextRInv, NextMInv
<1>2. QED
  BY <1>1, InitRInv, InitMInv, PTL DEF Spec

\* The ledger, the movements and the payments have their types, and nothing
\* comes back for more than was sold.
THEOREM ReturnTypes == Spec => []TypeOK
<1>1. RInv /\ MInv => TypeOK
  BY DEF RInv, MInv, ItemTypes, MoneyTypes, CaptureTypes, LedgerTypes, TypeOK
<1>2. QED
  BY <1>1, MoneyInvariant, PTL

\* However often a return is sent again, it is counted once.
THEOREM ReturnsCountOnce == Spec => []EachReturnCountsOnce
<1>1. RInv /\ MInv => EachReturnCountsOnce
  BY DEF RInv, MInv, LedgerAddsUp, ShelfFollowsLedger, EachReturnCountsOnce, ItemTypes
<1>2. QED
  BY <1>1, MoneyInvariant, PTL

\* Only a return changes the ledger.
LEMMA LedgerStep ==
  ASSUME [Next]_vars, ledger' # ledger
  PROVE  \E id \in ReturnId, q \in Asked : ReturnPartial(id, q)
<1>1. UNCHANGED lines => ledger' = ledger
  BY DEF lines
<1>2. RefundFull => ledger' = ledger
  BY <1>1 DEF RefundFull
<1>3. ASSUME NEW n, Capture(n) PROVE ledger' = ledger
  BY <1>1, <1>3 DEF Capture
<1>4. ASSUME NEW n, NEW k, PayOut(k, n) PROVE ledger' = ledger
  BY <1>1, <1>4 DEF PayOut
<1>5. UNCHANGED vars => ledger' = ledger
  BY <1>1 DEF vars
<1>6. QED
  BY <1>2, <1>3, <1>4, <1>5 DEF Next

\* Whatever was captured or paid out by hand in the meantime, after a return the
\* captures have given back what the ledger owes, to the minor unit.
THEOREM RefundsFollow == Spec => RefundsFollowLedger
<1>1. ASSUME RInv, MInv, [Next]_vars, ledger' # ledger
      PROVE  LET owed == SumOf(refundMinor')
             IN  SumOf(refunded') = IF owed = 0 THEN SumOf(refunded) ELSE owed
  <2>1. PICK id \in ReturnId, q \in Asked : ReturnPartial(id, q)
    BY <1>1, LedgerStep
  <2>2. QED
    BY <1>1, <2>1, ReturnMoney
<1>2. QED
  BY <1>1, MoneyInvariant, PTL DEF Spec, RefundsFollowLedger

\* No return pays out money that is not held any more.
THEOREM ReturnsCovered == Spec => ReturnsAreCovered
<1>1. ASSUME RInv, MInv, [Next]_vars, ledger' # ledger
      PROVE  NetPaid' >= 0 \/ NetPaid' = NetPaid
  <2>1. PICK id \in ReturnId, q \in Asked : ReturnPartial(id, q)
    BY <1>1, LedgerStep
  <2> DEFINE owed == SumOf(refundMinor')
             paid == SumOf(refunded')
             was == SumOf(refunded)
  <2>2. /\ refunded' = Targets(owed) /\ Allocatable(owed)
        /\ capture' = capture /\ loose' = loose
        /\ owed \in 0..Captured /\ paid = IF owed = 0 THEN was ELSE owed
    BY <1>1, <2>1, ReturnMoney
  <2>3. Captured \in Nat /\ was \in Int /\ loose \in Nat
    BY <1>1, CapturedType, RefundedType DEF MInv, MoneyTypes
  <2>4. NetPaid = Captured - was - loose
    BY DEF NetPaid
  <2>5. NetPaid' = Captured - paid - loose
    BY <2>2 DEF NetPaid, Captured
  <2>6. paid - was = 0 \/ paid - was <= NetPaid
    BY <2>2 DEF Allocatable, Covered
  <2> HIDE DEF owed, paid, was
  <2>7. paid \in Int
    BY <2>2, <2>3
  <2>8. QED
    BY <2>3, <2>4, <2>5, <2>6, <2>7
<1>2. QED
  BY <1>1, MoneyInvariant, PTL DEF Spec, ReturnsAreCovered

-----------------------------------------------------------------------------
(* A returned sale's stock                                                 *)

\* Every piece that comes back refunds something.  Without it a piece may come
\* back for nothing, the sale looks untouched to a full refund, and the refund
\* restores no more of the line than the return did.
EachPieceCosts == \A i \in Tracked : LineTotal[i] >= Quantity[i]

LEMMA PieceRefunds ==
  ASSUME EachPieceCosts, NEW i \in Tracked, NEW n \in 1..Quantity[i]
  PROVE  LineTarget(i, n) >= 1
<1>1. LineTotal[i] \in Nat /\ Quantity[i] \in Nat \ {0} /\ LineTotal[i] >= Quantity[i]
  BY ReturnAssumption DEF EachPieceCosts
<1>2. CASE n = Quantity[i]
  BY <1>1, <1>2 DEF LineTarget
<1>3. CASE n # Quantity[i]
  <2> DEFINE t == LineTotal[i]
             d == Quantity[i]
  <2>1. LineTarget(i, n) = (t * n) \div d
    BY <1>1, <1>3 DEF LineTarget, ProportionalFloor
  <2> HIDE DEF t, d
  <2>2. t \in Nat /\ d \in Nat \ {0} /\ t >= d /\ n \in Nat /\ n >= 1
    BY <1>1 DEF t, d
  <2>3. t * n \in Nat /\ t * n >= t * 1
    BY <2>2
  <2>4. (t * n) \div d \in Nat /\ t * n < d * ((t * n) \div d) + d
    BY <2>2, <2>3, DivBounds
  <2>5. (t * n) \div d # 0
    BY <2>2, <2>3, <2>4
  <2>6. QED
    BY <2>1, <2>4, <2>5
<1>4. QED
  BY <1>2, <1>3

StockInv == RInv /\ MInv /\ ReturnedStockIsBack

LEMMA RefundFullStock ==
  ASSUME EachPieceCosts, StockInv, RefundFull
  PROVE  ReturnedStockIsBack'
<1>1. status = "sold" /\ SumOf(refunded) = 0
  BY DEF RefundFull, NoReversal
<1>2. /\ SumOf(refundMinor) \in Nat
      /\ \A i \in Item : refundMinor[i] \in Nat /\ refundMinor[i] <= SumOf(refundMinor)
  BY ReturnAssumption, SumNat DEF StockInv, RInv, ItemTypes
<1>3. SumOf(refundMinor) = 0
  BY <1>1, <1>2 DEF StockInv, MInv, OwedIsGivenBack
<1>4. ASSUME NEW i \in Tracked PROVE restored'[i] = Quantity[i]
  <2>1. /\ i \in Item /\ returned[i] \in Nat /\ returned[i] <= Quantity[i]
        /\ Quantity[i] \in Nat /\ restored[i] = returned[i]
        /\ LineTarget(i, returned[i]) = refundMinor[i]
    BY <1>1, ReturnAssumption
       DEF StockInv, RInv, ItemTypes, WithinSale, RefundFollowsQuantity, ShelfFollowsLedger
  <2>2. refundMinor[i] = 0
    BY <1>2, <1>3, <2>1
  <2>3. returned[i] = 0
    <3>1. SUFFICES ASSUME returned[i] # 0 PROVE FALSE
      OBVIOUS
    <3>2. returned[i] \in 1..Quantity[i]
      BY <2>1, <3>1
    <3>3. QED
      BY <2>1, <2>2, <3>2, PieceRefunds
  <2>4. QED
    BY <2>1, <2>3 DEF RefundFull, ApplySaleReturnTx
<1>5. QED
  BY <1>4 DEF ReturnedStockIsBack

LEMMA ReturnPartialStock ==
  ASSUME StockInv, NEW id \in ReturnId, NEW q \in Asked, ReturnPartial(id, q)
  PROVE  ReturnedStockIsBack'
<1>1. SUFFICES ASSUME status' = "returned", NEW i \in Tracked
               PROVE  restored'[i] = Quantity[i]
  BY DEF ReturnedStockIsBack
<1>2. i \in Item /\ status = "sold" /\ CumulativeQty(q, i) = Quantity[i]
  BY <1>1, ReturnAssumption DEF ReturnPartial, ApplyPartialReturnStateTx, FullRemaining
<1>3. restored'[i] = restored[i] + q[i] /\ restored[i] = returned[i]
  BY <1>2 DEF ReturnPartial, ApplyPartialSaleReturnTx, StockInv, RInv, ShelfFollowsLedger
<1>4. QED
  BY <1>2, <1>3 DEF CumulativeQty

\* Once a sale is returned, by its last partial return or by a full refund, all
\* its tracked goods are back in stock, if every piece of them refunds something.
THEOREM ReturnedStock ==
  ASSUME EachPieceCosts
  PROVE  Spec => []ReturnedStockIsBack
<1>1. Init => StockInv
  BY InitRInv, InitMInv DEF StockInv, Init, ReturnedStockIsBack
<1>2. ASSUME StockInv, [Next]_vars PROVE ReturnedStockIsBack'
  <2>1. ASSUME NEW id \in ReturnId, NEW q \in Asked, ReturnPartial(id, q)
        PROVE  ReturnedStockIsBack'
    BY <1>2, <2>1, ReturnPartialStock
  <2>2. CASE RefundFull
    BY <1>2, <2>2, RefundFullStock
  <2>3. ASSUME UNCHANGED <<status, restored>> PROVE ReturnedStockIsBack'
    BY <1>2, <2>3 DEF StockInv, ReturnedStockIsBack
  <2>4. QED
    BY <1>2, <2>1, <2>2, <2>3 DEF Next, Capture, PayOut, vars
<1>3. StockInv /\ [Next]_vars => StockInv'
  BY <1>2, NextRInv, NextMInv DEF StockInv
<1>4. StockInv => ReturnedStockIsBack
  BY DEF StockInv
<1>5. QED
  BY <1>1, <1>3, <1>4, PTL DEF Spec

-----------------------------------------------------------------------------
(* Two tenders                                                             *)

\* The rest that is left to the second of two tenders grows with the refund, too.
LEMMA RestMonotone ==
  ASSUME NEW a1 \in Nat \ {0}, NEW a2 \in Nat \ {0}, NEW d \in 0..(a1 + a2), NEW c \in 0..d
  PROVE  c - ProportionalFloor(a1, c, a1 + a2) <= d - ProportionalFloor(a1, d, a1 + a2)
<1> DEFINE T == a1 + a2
           fc == ProportionalFloor(a1, c, T)
           fd == ProportionalFloor(a1, d, T)
<1>1. T \in Nat \ {0} /\ fc \in 0..a1 /\ fd \in 0..a1
  <2>1. T \in Nat \ {0} /\ c \in 0..T /\ d \in 0..T
    OBVIOUS
  <2> HIDE DEF T
  <2>2. QED
    BY <2>1, FloorBounded
<1>2. CASE c = 0
  <2>1. fc = 0
    BY <1>2 DEF ProportionalFloor
  <2>2. d - fd \in 0..a2
    BY TwoTendersSuffice
  <2>3. QED
    BY <1>2, <2>1, <2>2
<1>3. CASE c > 0
  <2>1. fc = (a1 * c) \div T /\ fd = (a1 * d) \div T
    BY <1>3 DEF ProportionalFloor
  <2>2. a1 * c \in Nat /\ a1 * d \in Nat
    OBVIOUS
  <2>3. a1 * d = a1 * c + a1 * (d - c) /\ a1 * (d - c) <= T * (d - c)
    OBVIOUS
  <2>4. a1 * c < T * fc + T /\ T * fd <= a1 * d
    BY <1>1, <2>1, <2>2, DivBounds
  <2>5. T * (fc + (d - c)) = T * fc + T * (d - c)
    BY <1>1
  <2>6. T * fd < T * (fc + (d - c)) + T
    <3> DEFINE x == a1 * (d - c)
               y == T * (d - c)
               u == T * fc
               v == T * fd
               w == T * (fc + (d - c))
    <3>1. x \in Int /\ y \in Int /\ u \in Int /\ v \in Int
      BY <1>1
    <3> HIDE DEF x, y, u, v, w
    <3>2. a1 * c < u + T /\ v <= a1 * d /\ a1 * d = a1 * c + x /\ x <= y /\ w = u + y
      BY <2>3, <2>4, <2>5 DEF x, y, u, v, w
    <3>3. v < w + T
      BY <1>1, <2>2, <3>1, <3>2
    <3>4. QED
      BY <3>3 DEF v, w
  <2>7. fd <= fc + (d - c)
    BY <1>1, <2>6, LessByFactor
  <2>8. QED
    BY <1>1, <2>7
<1>4. QED
  BY <1>2, <1>3

\* What two captures bring in, and what they have to give back of c.
LEMMA OneOrTwo ==
  ASSUME CaptureTypes, Len(capture) <= 2, capture # <<>>, NEW c \in 0..Captured
  PROVE  \/ /\ DOMAIN capture = {1} /\ Captured = capture[1]
            /\ Target(1, c) = c
         \/ /\ DOMAIN capture = {1, 2} /\ Captured = capture[1] + capture[2]
            /\ Target(1, c) = ProportionalFloor(capture[1], c, capture[1] + capture[2])
            /\ Target(2, c) = c - ProportionalFloor(capture[1], c, capture[1] + capture[2])
<1>1. /\ Len(capture) \in Nat /\ DOMAIN capture = 1..Len(capture)
      /\ Captured \in Nat /\ c \in Nat
  BY CapturedType DEF CaptureTypes
<1>2. CASE Len(capture) = 1
  <2> DEFINE f == [j \in 1..(Len(capture) - 1) |-> Share(j, c)]
  <2>1. capture \in [{1} -> Int]
    BY <1>2 DEF CaptureTypes
  <2>2. Captured = capture[1]
    BY <2>1, SumOne DEF Captured
  <2>3. SumOf(f) = 0
    BY <1>2, SumEmpty
  <2>4. Target(1, c) = c - SumOf(f)
    BY <1>2 DEF Target
  <2> HIDE DEF f
  <2>5. QED
    BY <1>1, <1>2, <2>2, <2>3, <2>4
<1>3. CASE Len(capture) = 2
  <2> DEFINE f == [j \in 1..(Len(capture) - 1) |-> Share(j, c)]
  <2>1. capture \in [{1, 2} -> Int]
    <3>1. capture \in Seq(Int)
      BY DEF CaptureTypes
    <3>2. QED
      BY <1>3, <3>1
  <2>2. Captured = capture[1] + capture[2]
    BY <2>1, SumTwo DEF Captured
  <2>3. Share(1, c) = ProportionalFloor(capture[1], c, capture[1] + capture[2])
    BY <2>2 DEF Share
  <2>4. Target(1, c) = Share(1, c) /\ Target(2, c) = c - SumOf(f)
    BY <1>3 DEF Target
  <2>5. Share(1, c) \in Int
    <3>1. 1 \in DOMAIN capture
      BY <1>1, <1>3
    <3>2. capture[1] \in Nat /\ Share(1, c) \in 0..capture[1]
      BY <3>1, CapturedType, ShareType
    <3>3. QED
      BY <3>2
  <2>6. f \in [{1} -> Int] /\ f[1] = Share(1, c)
    <3>1. 1..(Len(capture) - 1) = {1}
      BY <1>3
    <3>2. f = [j \in {1} |-> Share(j, c)]
      BY <3>1
    <3>3. QED
      BY <2>5, <3>2
  <2> HIDE DEF f
  <2>7. SumOf(f) = Share(1, c)
    BY <2>6, SumOne
  <2>8. DOMAIN capture = {1, 2}
    BY <1>1, <1>3
  <2>9. QED
    BY <2>2, <2>3, <2>4, <2>7, <2>8
<1>4. Len(capture) = 1 \/ Len(capture) = 2
  <2>1. Len(capture) # 0
    BY DEF CaptureTypes
  <2>2. QED
    BY <1>1, <2>1
<1>5. QED
  BY <1>2, <1>3, <1>4

\* Each of two captures can give back its part of any refund, and its part grows
\* with the refund.
LEMMA TwoTargets ==
  ASSUME CaptureTypes, Len(capture) <= 2, NEW k \in DOMAIN capture,
         NEW d \in 0..Captured, NEW c \in 0..d
  PROVE  /\ Target(k, d) \in 0..capture[k]
         /\ Target(k, c) \in 0..capture[k]
         /\ Target(k, c) <= Target(k, d)
<1>1. capture # <<>> /\ Captured \in Nat
  BY CapturedType DEF CaptureTypes
<1>2. c \in 0..Captured /\ c \in Nat /\ d \in Nat /\ c <= d
  BY <1>1
<1>3. CASE DOMAIN capture = {1} /\ Captured = capture[1]
  <2>1. Target(1, c) = c /\ Target(1, d) = d
    BY <1>1, <1>2, <1>3, OneOrTwo
  <2>2. QED
    BY <1>1, <1>2, <1>3, <2>1
<1>4. CASE DOMAIN capture = {1, 2} /\ Captured = capture[1] + capture[2]
  <2> DEFINE a1 == capture[1]
             a2 == capture[2]
             fc == ProportionalFloor(a1, c, a1 + a2)
             fd == ProportionalFloor(a1, d, a1 + a2)
  <2>1. DOMAIN capture # {1}
    BY <1>4
  <2>2. /\ Target(1, c) = fc /\ Target(2, c) = c - fc
        /\ Target(1, d) = fd /\ Target(2, d) = d - fd
    BY <1>1, <1>2, <2>1, OneOrTwo
  <2>3. a1 \in Nat \ {0} /\ a2 \in Nat \ {0}
    BY <1>4, CapturedType
  <2>4. c \in 0..(a1 + a2) /\ d \in 0..(a1 + a2)
    BY <1>2, <1>4
  <2>5. fc \in 0..a1 /\ c - fc \in 0..a2 /\ fd \in 0..a1 /\ d - fd \in 0..a2
    BY <2>3, <2>4, TwoTendersSuffice
  <2>6. fc <= fd
    BY <1>2, <2>3, FloorMonotone
  <2>7. c - fc <= d - fd
    BY <2>3, <2>4, RestMonotone
  <2> HIDE DEF fc, fd
  <2>8. QED
    BY <1>4, <2>2, <2>5, <2>6, <2>7
<1>5. QED
  BY <1>1, <1>2, <1>3, <1>4, OneOrTwo

TwoCaptures == Len(FirstCaptures) <= 2 /\ MaxCaptures <= 2

TwoInv == RInv /\ MInv /\ Len(capture) <= 2

LEMMA TwoInvariant == ASSUME TwoCaptures PROVE Spec => []TwoInv
<1>1. Init => TwoInv
  BY InitRInv, InitMInv DEF TwoInv, TwoCaptures, Init
<1>2. ASSUME TwoInv, [Next]_vars PROVE Len(capture') <= 2
  <2>1. ASSUME capture' = capture PROVE Len(capture') <= 2
    BY <1>2, <2>1 DEF TwoInv
  <2>2. ASSUME NEW n \in LateCapture, Capture(n) PROVE Len(capture') <= 2
    BY <1>2, <2>2, ReturnAssumption DEF TwoInv, MInv, MoneyTypes, CaptureTypes, TwoCaptures, Capture
  <2>3. QED
    BY <1>2, <2>1, <2>2 DEF Next, ReturnPartial, RefundFull, PayOut, vars, money
<1>3. TwoInv /\ [Next]_vars => TwoInv'
  BY <1>2, NextRInv, NextMInv DEF TwoInv
<1>4. QED
  BY <1>1, <1>3, PTL DEF Spec

\* A return of two tenders leaves each of them with what it brought in at most.
LEMMA ReturnWithin ==
  ASSUME TwoInv, NEW id \in ReturnId, NEW q \in Asked, ReturnPartial(id, q)
  PROVE  /\ capture' = capture
         /\ \A k \in DOMAIN capture : refunded'[k] <= capture[k]
<1> DEFINE owed == SumOf(refundMinor')
<1>1. /\ owed \in 0..Captured /\ refunded' = Targets(owed)
      /\ Allocatable(owed) /\ capture' = capture
  BY ReturnMoney DEF TwoInv
<1> HIDE DEF owed
<1>2. ASSUME NEW k \in DOMAIN capture PROVE refunded'[k] <= capture[k]
  <2>1. CASE owed = 0
    BY <1>1, <2>1 DEF Allocatable, Targets
  <2>2. CASE owed # 0
    <3>1. refunded'[k] = Target(k, owed)
      BY <1>1, <2>2 DEF Targets
    <3>2. Captured \in Nat /\ capture[k] \in Nat
      BY CapturedType DEF TwoInv, MInv, MoneyTypes
    <3>3. owed \in 0..owed
      BY <1>1, <3>2
    <3>4. Target(k, owed) \in 0..capture[k]
      BY <1>1, <3>3, TwoTargets DEF TwoInv, MInv, MoneyTypes
    <3>5. QED
      BY <3>1, <3>2, <3>4
  <2>3. QED
    BY <2>1, <2>2
<1>3. QED
  BY <1>1, <1>2

\* With at most two tenders, no return gives back more of one than it brought in.
THEOREM TendersNeverOver ==
  ASSUME TwoCaptures
  PROVE  Spec => TendersNeverOverRefunded
<1>1. ASSUME TwoInv, [Next]_vars, ledger' # ledger
      PROVE  \A k \in DOMAIN capture : refunded'[k] <= capture'[k]
  <2>1. PICK id \in ReturnId, q \in Asked : ReturnPartial(id, q)
    BY <1>1, LedgerStep
  <2>2. QED
    BY <1>1, <2>1, ReturnWithin
<1>2. QED
  BY <1>1, TwoInvariant, PTL DEF Spec, TendersNeverOverRefunded

LEMMA TwoStayPossible ==
  ASSUME TwoInv, status = "sold", SharesGivenBack, NEW c \in SumOf(refundMinor)..Captured
  PROVE  Allocatable(c)
<1> DEFINE owed == SumOf(refundMinor)
<1>1. CaptureTypes /\ Captured \in Nat /\ owed \in Nat
  BY CapturedType, OwedType DEF TwoInv, RInv, MInv, MoneyTypes
<1>2. owed \in 0..Captured /\ c \in 0..Captured /\ owed \in 0..c /\ c <= Captured
  BY <1>1
<1>3. refunded = [k \in DOMAIN capture |-> Target(k, owed)] /\ loose = 0
  BY DEF SharesGivenBack
<1> HIDE DEF owed
<1>4. ASSUME NEW k \in DOMAIN capture
      PROVE  refunded[k] <= capture[k] /\ refunded[k] <= Targets(c)[k]
  <2>1. capture[k] \in Nat /\ refunded[k] = Target(k, owed)
    BY <1>1, <1>3, CapturedType
  <2>2. Target(k, owed) \in 0..capture[k] /\ Target(k, owed) <= Target(k, c)
    BY <1>1, <1>2, TwoTargets DEF TwoInv
  <2>3. Targets(c)[k] = IF c = 0 THEN refunded[k] ELSE Target(k, c)
    BY DEF Targets
  <2>4. QED
    BY <2>1, <2>2, <2>3
<1>5. Covered(Targets(c))
  <2>1. CASE capture = <<>> \/ c = 0
    <3>1. Targets(c) = refunded
      <4>1. CASE c = 0
        BY <1>3, <4>1 DEF Targets
      <4>2. CASE capture = <<>>
        BY <1>3, <4>2 DEF Targets
      <4>3. QED
        BY <2>1, <4>1, <4>2
    <3>2. SumOf(refunded) \in Int
      BY RefundedType DEF TwoInv, MInv
    <3>3. QED
      BY <3>1, <3>2 DEF Covered
  <2>2. CASE capture # <<>> /\ c # 0
    <3>1. SumOf(refunded) = owed
      BY <1>1, <1>2, <1>3, <2>2, TargetsAddUp
    <3>2. Targets(c) = [k \in DOMAIN capture |-> Target(k, c)]
      BY <2>2 DEF Targets
    <3>3. SumOf(Targets(c)) = c
      BY <1>1, <1>2, <2>2, <3>2, TargetsAddUp
    <3>4. NetPaid = Captured - owed - 0
      BY <1>3, <3>1 DEF NetPaid
    <3>5. QED
      BY <1>1, <1>2, <3>1, <3>3, <3>4 DEF Covered
  <2>3. QED
    BY <2>1, <2>2
<1>6. QED
  BY <1>2, <1>4, <1>5 DEF Allocatable

\* Two tenders that are in their shares can give back every larger sum up to what
\* they brought in: no return is refused for the sake of rounding.
THEOREM TwoTendersStayPossible ==
  ASSUME TwoCaptures
  PROVE  Spec => []ReturnsStayPossible
<1>1. TwoInv => ReturnsStayPossible
  BY TwoStayPossible DEF ReturnsStayPossible
<1>2. QED
  BY <1>1, TwoInvariant, PTL

\* Of all that was captured, each of two tenders gives back what it brought in.
LEMMA WholeTargets ==
  ASSUME CaptureTypes, Len(capture) <= 2, NEW k \in DOMAIN capture
  PROVE  Target(k, Captured) = capture[k]
<1>1. capture # <<>> /\ Captured \in Nat /\ Captured \in 0..Captured
  BY CapturedType DEF CaptureTypes
<1>2. CASE DOMAIN capture = {1} /\ Captured = capture[1]
  BY <1>1, <1>2, OneOrTwo
<1>3. CASE DOMAIN capture = {1, 2} /\ Captured = capture[1] + capture[2]
  <2> DEFINE a1 == capture[1]
             a2 == capture[2]
             f == ProportionalFloor(a1, a1 + a2, a1 + a2)
  <2>1. DOMAIN capture # {1}
    BY <1>3
  <2>2. Target(1, Captured) = f /\ Target(2, Captured) = Captured - f
    BY <1>1, <1>3, <2>1, OneOrTwo
  <2>3. a1 \in Nat \ {0} /\ a2 \in Nat \ {0}
    BY <1>3, CapturedType
  <2>4. a1 + a2 \in 0..(a1 + a2)
    BY <2>3
  <2>5. f \in 0..a1 /\ (a1 + a2) - f \in 0..a2
    BY <2>3, <2>4, TwoTendersSuffice
  <2> HIDE DEF f
  <2>6. f = a1
    BY <2>3, <2>5
  <2>7. QED
    BY <1>3, <2>2, <2>3, <2>6
<1>4. QED
  BY <1>1, <1>2, <1>3, OneOrTwo

\* Unless more was paid out than the ledger owes, no tender has given back too much.
WithinTenders ==
  status = "sold" /\ SumOf(refunded) = SumOf(refundMinor) =>
    \A k \in DOMAIN capture : refunded[k] <= capture[k]

WithinInv == TwoInv /\ WithinTenders

LEMMA WithinCapture ==
  ASSUME WithinInv, NEW n \in LateCapture, Capture(n)
  PROVE  WithinTenders'
<1> DEFINE m == Len(capture)
<1>1. /\ MoneyTypes /\ MoneyTypes' /\ n \in Nat \ {0} /\ status = "sold" /\ refundMinor' = refundMinor
      /\ capture' = Append(capture, n) /\ refunded' = Append(refunded, 0)
  BY ReturnAssumption, CaptureMInv DEF WithinInv, TwoInv, MInv, Capture, lines
<1>2. /\ m \in Nat /\ Len(refunded) = m /\ refunded \in Seq(Int) /\ capture \in Seq(Int)
      /\ DOMAIN capture' = 1..(m + 1)
  BY <1>1 DEF MoneyTypes, CaptureTypes
<1> HIDE DEF m
<1>3. SumOf(refunded') = SumOf(refunded)
  <2>1. refunded \in [1..m -> Int]
    BY <1>2
  <2>2. /\ Len(refunded') = m + 1 /\ refunded' \in Seq(Int)
        /\ refunded'[m + 1] = 0 /\ \A k \in 1..m : refunded'[k] = refunded[k]
    BY <1>1, <1>2
  <2>3. refunded' \in [1..(m + 1) -> Int]
    BY <2>2
  <2>4. SumOf(refunded') = SumOf(refunded) + 0 /\ SumOf(refunded) \in Int
    BY <1>1, <1>2, <2>1, <2>2, <2>3, SumAppend, RefundedType
  <2>5. QED
    BY <2>4
<1>4. SUFFICES ASSUME SumOf(refunded) = SumOf(refundMinor), NEW k \in 1..(m + 1)
               PROVE  refunded'[k] <= capture'[k]
  BY <1>1, <1>2, <1>3 DEF WithinTenders
<1>5. CASE k \in 1..m
  <2>1. k \in DOMAIN capture
    BY <1>2, <1>5 DEF m
  <2>2. refunded[k] <= capture[k]
    BY <1>1, <1>4, <2>1 DEF WithinInv, WithinTenders
  <2>3. refunded'[k] = refunded[k] /\ capture'[k] = capture[k]
    <3>1. Len(capture) = m
      BY DEF m
    <3>2. QED
      BY <1>1, <1>2, <1>5, <3>1
  <2>4. QED
    BY <2>2, <2>3
<1>6. CASE k = m + 1
  <2>1. Len(capture) = m
    BY DEF m
  <2>2. refunded'[k] = 0
    BY <1>1, <1>2, <1>6
  <2>3. capture'[k] = n
    <3>1. Append(capture, n)[Len(capture) + 1] = n
      BY <1>2
    <3>2. QED
      BY <1>1, <1>6, <2>1, <3>1
  <2>4. 0 <= n
    BY ReturnAssumption
  <2>5. QED
    BY <2>2, <2>3, <2>4
<1>7. QED
  BY <1>2, <1>5, <1>6

LEMMA WithinPayOut ==
  ASSUME WithinInv, NEW n \in HandOut, NEW k \in {0} \union DOMAIN capture, PayOut(k, n)
  PROVE  WithinTenders'
<1>1. /\ MoneyTypes /\ ItemTypes /\ n \in Nat \ {0} /\ status = "sold" /\ capture' = capture
      /\ refundMinor' = refundMinor /\ SumOf(refundMinor) <= SumOf(refunded)
  BY ReturnAssumption DEF WithinInv, TwoInv, RInv, MInv, OwedIsGivenBack, PayOut, lines
<1>2. SumOf(refunded) \in Int /\ SumOf(refundMinor) \in Int
  BY <1>1, RefundedType, OwedType
<1>3. CASE k = 0
  <2>1. refunded' = refunded
    BY <1>3 DEF PayOut
  <2>2. QED
    BY <1>1, <2>1 DEF WithinInv, WithinTenders
<1>4. CASE k # 0
  <2> DEFINE D == DOMAIN capture
             v == refunded[k] + n
  <2>1. refunded' = [refunded EXCEPT ![k] = v]
    BY <1>4 DEF PayOut
  <2>2. k \in D /\ IsFiniteSet(D) /\ refunded \in [D -> Int] /\ v \in Int
    BY <1>1, <1>4, RefundedType
  <2> HIDE DEF D, v
  <2>3. SumOf(refunded') = SumOf(refunded) - refunded[k] + v
    BY <2>1, <2>2, SumUpdate
  <2>4. refunded[k] \in Int /\ v = refunded[k] + n
    BY <2>2 DEF v
  <2>5. SumOf(refunded') # SumOf(refundMinor)
    BY <1>1, <1>2, <2>3, <2>4
  <2>6. QED
    BY <1>1, <2>5 DEF WithinTenders
<1>5. QED
  BY <1>3, <1>4

LEMMA WithinStep == ASSUME WithinInv, [Next]_vars PROVE WithinTenders'
<1>1. ASSUME NEW id \in ReturnId, NEW q \in Asked, ReturnPartial(id, q) PROVE WithinTenders'
  BY <1>1, ReturnWithin DEF WithinInv, WithinTenders
<1>2. CASE RefundFull
  BY <1>2 DEF RefundFull, WithinTenders
<1>3. CASE UNCHANGED vars
  BY <1>3 DEF WithinInv, WithinTenders, vars, lines, money
<1>4. QED
  BY <1>1, <1>2, <1>3, WithinCapture, WithinPayOut DEF Next

\* With at most two tenders the remainder of a sale can always be returned: what
\* three tenders break (refunds/partial_plan.go's promise of the exact remainder)
\* holds below three.
THEOREM TwoTendersSettle ==
  ASSUME TwoCaptures
  PROVE  Spec => []RemainderReturnable
<1>1. Init => WithinTenders
  BY ReturnAssumption DEF Init, WithinTenders
<1>2. ASSUME WithinInv, status = "sold", PaidInFull PROVE Allocatable(Total)
  <2>1. /\ CaptureTypes /\ MoneyTypes /\ Len(capture) <= 2 /\ Captured \in Nat
        /\ Total = Captured /\ loose = 0
        /\ SumOf(refunded) \in Int
        /\ \A k \in DOMAIN capture : refunded[k] <= capture[k]
    BY <1>2, CapturedType, RefundedType
       DEF WithinInv, WithinTenders, TwoInv, MInv, MoneyTypes, PaidInFull
  <2>2. ASSUME NEW k \in DOMAIN capture PROVE refunded[k] <= Targets(Captured)[k]
    <3>1. Targets(Captured)[k] = IF Captured = 0 THEN refunded[k] ELSE capture[k]
      BY <2>1, WholeTargets DEF Targets
    <3>2. refunded[k] \in Int
      BY <2>1, RefundedType
    <3>3. QED
      BY <2>1, <3>1, <3>2
  <2>3. Covered(Targets(Captured))
    <3>1. CASE Captured = 0
      <4>1. Targets(Captured) = [k \in DOMAIN capture |-> refunded[k]]
        BY <3>1 DEF Targets
      <4>2. Targets(Captured) = refunded
        BY <2>1, <4>1, RefundedType
      <4>3. QED
        BY <2>1, <4>2 DEF Covered
    <3>2. CASE Captured # 0
      <4>1. Targets(Captured) = capture
        <5>1. Targets(Captured) = [k \in DOMAIN capture |-> Target(k, Captured)]
          BY <3>2 DEF Targets
        <5>2. capture = [k \in DOMAIN capture |-> capture[k]]
          BY <2>1 DEF CaptureTypes
        <5>3. QED
          BY <2>1, <5>1, <5>2, WholeTargets
      <4>2. SumOf(Targets(Captured)) = Captured
        BY <4>1 DEF Captured
      <4>3. NetPaid = Captured - SumOf(refunded) - 0
        BY <2>1 DEF NetPaid
      <4>4. QED
        BY <2>1, <4>2, <4>3 DEF Covered
    <3>3. QED
      BY <3>1, <3>2
  <2>4. QED
    BY <2>1, <2>2, <2>3 DEF Allocatable
<1>3. WithinInv => RemainderReturnable
  BY <1>2 DEF RemainderReturnable
<1>4. WithinTenders /\ TwoInv /\ [Next]_vars => WithinTenders'
  BY WithinStep DEF WithinInv
<1>5. QED
  BY <1>1, <1>3, <1>4, TwoInvariant, PTL DEF Spec, WithinInv

=============================================================================
