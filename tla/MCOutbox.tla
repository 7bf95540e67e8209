------------------------------ MODULE MCOutbox ------------------------------
(***************************************************************************)
(* Instances of Outbox for TLC.                                            *)
(***************************************************************************)
EXTENDS Outbox, TLC

CONSTANTS k1, k2, g1, g2, r1, r2

\* Two grants for the same event: the second one is issued when the event is
\* poisoned again after the first recovery.
MCGrantFor == (g1 :> 1) @@ (g2 :> 1)
MCOneGrant == (g1 :> 1)
MCNoGrant  == <<>>

=============================================================================
