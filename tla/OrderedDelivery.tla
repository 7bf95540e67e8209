--------------------------- MODULE OrderedDelivery ---------------------------
(***************************************************************************)
(* What the transactional outbox of the POS service promises to the rest   *)
(* of the store, without queues, leases, retries or workers: facts are     *)
(* accepted in an order, Central learns the facts of one ordering key in   *)
(* that order, and a fact is settled (never sent again) only once Central  *)
(* has it or a manager has written it off.                                 *)
(*                                                                         *)
(* Outbox.tla is shown to implement this module.                           *)
(***************************************************************************)
EXTENDS Naturals

CONSTANTS
  Key,         \* ordering keys: one per sale, one per customer
  MaxEvents,   \* bound: facts accepted in one behaviour
  NoKey        \* the key of a fact not accepted yet

Event == 1..MaxEvents

VARIABLES
  accepted,    \* number of facts accepted; they are numbered in that order
  keyOf,       \* the ordering key of each accepted fact
  delivered,   \* facts Central has received at least once
  settled,     \* facts the store will not send any more
  writtenOff   \* facts a manager gave up on

vars == <<accepted, keyOf, delivered, settled, writtenOff>>

Init ==
  /\ accepted = 0
  /\ keyOf = [e \in Event |-> NoKey]
  /\ delivered = {}
  /\ settled = {}
  /\ writtenOff = {}

\* One committed transaction adds n facts about the same sale or customer.
Accept(k, n) ==
  /\ accepted + n <= MaxEvents
  /\ accepted' = accepted + n
  /\ keyOf' = [e \in Event |-> IF e \in accepted+1 .. accepted+n THEN k ELSE keyOf[e]]
  /\ UNCHANGED <<delivered, settled, writtenOff>>

\* Central learns e for the first time: everything earlier on its key is settled.
Deliver(e) ==
  /\ e <= accepted
  /\ e \notin delivered
  /\ \A d \in 1..e-1 : keyOf[d] = keyOf[e] => d \in settled
  /\ delivered' = delivered \union {e}
  /\ UNCHANGED <<accepted, keyOf, settled, writtenOff>>

Settle(e) ==
  /\ e \in delivered
  /\ e \notin settled
  /\ settled' = settled \union {e}
  /\ UNCHANGED <<accepted, keyOf, delivered, writtenOff>>

WriteOff(e) ==
  /\ e <= accepted
  /\ e \notin settled
  /\ settled' = settled \union {e}
  /\ writtenOff' = writtenOff \union {e}
  /\ UNCHANGED <<accepted, keyOf, delivered>>

Next ==
  \/ \E k \in Key, n \in 1..MaxEvents : Accept(k, n)
  \/ \E e \in Event : Deliver(e) \/ Settle(e) \/ WriteOff(e)

Spec == Init /\ [][Next]_vars

=============================================================================
