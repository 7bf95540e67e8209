---------------------------- MODULE SaleContract ----------------------------
(***************************************************************************)
(* What one sale of the store promises, without versions, snapshots or     *)
(* concurrent requests: it is opened, then either sold or voided, a sold   *)
(* one may be returned, and nothing else happens to it.  Its goods leave   *)
(* the shelf exactly when it is sold and come back exactly when it is      *)
(* returned; money is neither held for a voided sale nor for a returned    *)
(* one.                                                                    *)
(*                                                                         *)
(* SaleLifecycle.tla implements this module as long as requests for one    *)
(* sale are served one at a time, or no payment comes between them.        *)
(***************************************************************************)
EXTENDS Integers

CONSTANT Tracked    \* the lines of the sale whose product is stock-tracked

VARIABLES
  phase,   \* "none", "open", "sold", "returned" or "voided"
  gone,    \* lines whose goods are off the shelf
  held     \* net money held for the sale

vars == <<phase, gone, held>>

Init ==
  /\ phase = "none"
  /\ gone = {}
  /\ held = 0

Open ==
  /\ phase = "none"
  /\ phase' = "open"
  /\ UNCHANGED <<gone, held>>

\* Money is taken, given back or promised; the sale is still alive.
Money ==
  /\ phase \in {"open", "sold"}
  /\ held' \in Int
  /\ UNCHANGED <<phase, gone>>

Sell ==
  /\ phase = "open"
  /\ phase' = "sold"
  /\ gone' = Tracked
  /\ UNCHANGED held

Void ==
  /\ phase = "open"
  /\ held = 0
  /\ phase' = "voided"
  /\ UNCHANGED <<gone, held>>

Return ==
  /\ phase = "sold"
  /\ phase' = "returned"
  /\ gone' = {}
  /\ held' = 0

Next == Open \/ Money \/ Sell \/ Void \/ Return

Spec == Init /\ [][Next]_vars

=============================================================================
