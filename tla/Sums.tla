-------------------------------- MODULE Sums --------------------------------
(***************************************************************************)
(* The sum of the values of a function, such as the amounts of payments or *)
(* the quantities of returns.  It stands for SQL's SUM and for the loops   *)
(* of the code that add up.                                                *)
(***************************************************************************)
EXTENDS Integers, FiniteSetsExt

SumOf(f) == MapThenSumSet(LAMBDA x : f[x], DOMAIN f)

=============================================================================
