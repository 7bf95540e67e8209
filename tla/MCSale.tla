------------------------------- MODULE MCSale -------------------------------
(***************************************************************************)
(* Instances of SaleLifecycle for TLC: a sale of total 2 with a tracked    *)
(* line, and payments that matter to it, in serial behaviours and in races.*)
(***************************************************************************)
EXTENDS SerialSale

CONSTANTS i1, t1, t2, r1, r2, r3

In(s, n)  == [direction |-> "in",  status |-> s, amount |-> n]
Out(s, n) == [direction |-> "out", status |-> s, amount |-> n]

\* Full payment, and one that moves no money.
MCFewPayments == {In("captured", 2), In("pending", 1)}

\* Part payment, full payment, one that moves no money, and two ways out.
MCAllPayments ==
  {In("captured", 1), In("captured", 2), In("pending", 1),
   Out("captured", 1), Out("refunded", 2)}

=============================================================================
