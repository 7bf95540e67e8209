----------------------------- MODULE SerialSale -----------------------------
(***************************************************************************)
(* SaleLifecycle, where a behaviour is either serial, with one request in  *)
(* progress at a time, or a race of all the requests; payments come in     *)
(* between in both.  The serial behaviours are those of a client that waits*)
(* for every answer; in them a sale keeps what SaleContract promises.      *)
(***************************************************************************)
EXTENDS SaleLifecycle

VARIABLE serial   \* requests are served one at a time

OneAtATime == \A r, q \in Request : op[r] # "none" /\ op[q] # "none" => r = q

SerialInit == Init /\ serial \in BOOLEAN

SerialNext ==
  /\ Next
  /\ serial => OneAtATime'
  /\ UNCHANGED serial

SerialSpec == SerialInit /\ [][SerialNext]_<<vars, serial>>

-----------------------------------------------------------------------------
(* Properties of serial behaviours                                         *)

\* RefundStaysPossible when no two requests for the sale overlap.
SerialRefundStaysPossible == serial => RefundStaysPossible

\* The sale goes through its life as SaleContract allows, whatever payments of
\* any kind come between requests that do not overlap.
SerialFollowsContract == [][serial => Contract!Next]_(Contract!vars)

=============================================================================
