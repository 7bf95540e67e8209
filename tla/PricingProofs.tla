--------------------------- MODULE PricingProofs ---------------------------
(***************************************************************************)
(* What a price is made of, for amounts and rates of any size.             *)
(***************************************************************************)
EXTENDS Pricing, TLAPS

\* roundHalfUp gives the integer nearest to n/d, and the upper one of two that
\* are equally near.
THEOREM RoundsToNearest ==
  ASSUME NEW n \in Nat, NEW d \in Nat \ {0}
  PROVE  /\ RoundHalfUp(n, d) \in Nat
         /\ 2 * d * RoundHalfUp(n, d) - 2 * n <= d
         /\ 2 * n - 2 * d * RoundHalfUp(n, d) < d
<1> DEFINE h == d \div 2
           q == (n + h) \div d
<1>1. h \in Nat /\ 2 * h <= d /\ d <= 2 * h + 1
  OBVIOUS
<1>2. q \in Nat /\ d * q <= n + h /\ n + h < d * q + d
  BY <1>1
<1>3. CASE n = 0
  BY <1>3 DEF RoundHalfUp
<1>4. CASE n # 0
  <2>1. RoundHalfUp(n, d) = q
    BY <1>4 DEF RoundHalfUp
  <2> HIDE DEF q, h
  <2> QED
    BY <1>1, <1>2, <2>1
<1> QED
  BY <1>3, <1>4

\* A discount the limit allows leaves an amount of the line to be taxed.
THEOREM LimitBelowGross ==
  ASSUME NEW gross \in Nat, NEW percent \in 0..100
  PROVE  MaxDiscount(gross, percent) \in 0..gross
<1>1. gross * percent \in Nat /\ gross * percent <= gross * 100
  OBVIOUS
<1> DEFINE p == gross * percent
<1>2. p \in Nat /\ p <= gross * 100
  BY <1>1
<1>3. p \div 100 \in 0..gross
  <2> HIDE DEF p
  <2> QED
    BY <1>2
<1> QED
  BY <1>3 DEF MaxDiscount

\* The tax calculateTax returns is at most the amount it is levied on.
LEMMA TaxBelowTaxable ==
  ASSUME NEW policy, NEW taxable \in Nat, NEW rate \in Int, ValidTax(policy, rate)
  PROVE  LineTax(policy, taxable, rate) \in 0..taxable
<1>1. CASE ~Taxed(policy, rate)
  BY <1>1 DEF LineTax
<1>2. CASE Taxed(policy, rate)
  <2> DEFINE n == taxable * rate
             d == Denominator(policy, rate)
             x == RoundHalfUp(n, d)
  <2>1. rate \in 1..10000
    BY <1>2 DEF Taxed, ValidTax
  <2>2. d \in Nat /\ 10000 <= d
    <3>1. CASE policy.mode = "INCLUSIVE"
      BY <2>1, <3>1 DEF Denominator
    <3>2. CASE policy.mode # "INCLUSIVE"
      BY <2>1, <3>2 DEF Denominator
    <3> QED
      BY <3>1, <3>2
  <2>3. n \in Nat /\ n <= taxable * d
    <3>1. rate \in Nat /\ rate <= d
      BY <2>1, <2>2
    <3> HIDE DEF d
    <3>2. ASSUME NEW a \in Nat, NEW b \in Nat, NEW c \in Nat, b <= c
          PROVE  a * b \in Nat /\ a * b <= a * c
      BY <3>2
    <3> QED
      BY <2>2, <3>1, <3>2
  <2>4. x \in Nat /\ 2 * d * x - 2 * n <= d
    <3> HIDE DEF n, d
    <3> QED
      BY <2>2, <2>3, RoundsToNearest
  <2>5. x <= taxable
    <3> SUFFICES ASSUME taxable + 1 <= x PROVE FALSE
      BY <2>4
    <3> HIDE DEF n, d, x
    <3>1. d * (taxable + 1) <= d * x
      <4>1. ASSUME NEW a \in Nat, NEW b \in Nat, NEW c \in Nat, b <= c
            PROVE  a * b <= a * c
        BY <4>1
      <4> QED
        BY <2>2, <2>4, <4>1
    <3>2. d * (taxable + 1) = d * taxable + d
      BY <2>2
    <3>3. d * taxable = taxable * d
      BY <2>2
    <3>4. 2 * d * x = 2 * (d * x)
      BY <2>2, <2>4
    <3> DEFINE dt == d * taxable
               dx == d * x
    <3>5. dt \in Nat /\ dx \in Nat
      BY <2>2, <2>4
    <3> HIDE DEF dt, dx
    <3> QED
      BY <2>2, <2>3, <2>4, <3>1, <3>2, <3>3, <3>4, <3>5 DEF dt, dx
  <2> QED
    BY <1>2, <2>4, <2>5 DEF LineTax
<1> QED
  BY <1>1, <1>2

\* A line's total is what is taxed, with the tax on top of it or as a part.
THEOREM LineAddsUp ==
  ASSUME NEW policy, NEW taxable \in Nat, NEW rate \in Int, ValidTax(policy, rate)
  PROVE  /\ LineTax(policy, taxable, rate) \in 0..taxable
         /\ policy.mode = "EXCLUSIVE" =>
              LineTotal(policy, taxable, rate) = taxable + LineTax(policy, taxable, rate)
         /\ policy.mode = "INCLUSIVE" => LineTotal(policy, taxable, rate) = taxable
         /\ LineTotal(policy, taxable, rate) \in Nat
<1>1. LineTax(policy, taxable, rate) \in 0..taxable
  BY TaxBelowTaxable
<1> QED
  BY <1>1 DEF LineTotal

=============================================================================
