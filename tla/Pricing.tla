------------------------------ MODULE Pricing ------------------------------
(***************************************************************************)
(* What a line of an order costs (internal/orders: orders.go, tax.go).     *)
(* Amounts are in minor units, quantities in thousandths, tax rates in     *)
(* hundredths of a percent.  Go's division of amounts that are not         *)
(* negative is \div.  The maximal discount is computed there in floating   *)
(* point and cut to an integer; percentages are whole here, for which that *)
(* is \div too.                                                            *)
(***************************************************************************)
EXTENDS Integers

Gross(price, quantity) == (price * quantity) \div 1000

MaxDiscount(gross, percent) == (gross * percent) \div 100

RoundHalfUp(n, d) == IF n <= 0 THEN 0 ELSE (n + d \div 2) \div d

TaxModes == {"INCLUSIVE", "EXCLUSIVE"}

\* A policy calculateTax accepts; with tax off it does not look at the rate.
\* A product without a rate is one with rate 0.
ValidTax(policy, rate) ==
  /\ policy.mode \in TaxModes
  /\ policy.rounding = "HALF_UP"
  /\ policy.enabled => rate \in 0..10000

Taxed(policy, rate) == policy.enabled /\ rate # 0

\* An inclusive rate is a share of price and tax together.
Denominator(policy, rate) == IF policy.mode = "INCLUSIVE" THEN 10000 + rate ELSE 10000

LineTax(policy, taxable, rate) ==
  IF Taxed(policy, rate)
  THEN RoundHalfUp(taxable * rate, Denominator(policy, rate))
  ELSE 0

LineTotal(policy, taxable, rate) ==
  IF policy.mode = "EXCLUSIVE"
  THEN taxable + LineTax(policy, taxable, rate)
  ELSE taxable

=============================================================================
