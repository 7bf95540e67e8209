------------------------------ MODULE MCReturn ------------------------------
(***************************************************************************)
(* Instances of PartialReturn for TLC.                                     *)
(***************************************************************************)
EXTENDS PartialReturn, TLC

CONSTANTS a, b, d1, d2, d3, d4

\* Three of a for 4, one of b for 2: thirds that do not come out even.
MCQuantity  == (a :> 3) @@ (b :> 1)
MCLineTotal == (a :> 4) @@ (b :> 2)
MCOneTender == <<2>>

\* The cheapest goods, paid with three equal tenders.
MCUnits == (a :> 3)
MCThreeTenders == <<1, 1, 1>>

\* Two of a given away for nothing, one of b for 2.
MCGiftQuantity  == (a :> 2) @@ (b :> 1)
MCGiftLineTotal == (a :> 0) @@ (b :> 2)

=============================================================================
