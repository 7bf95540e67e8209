------------------------------- MODULE MCFeed -------------------------------
(***************************************************************************)
(* Instances of ChangeFeed for TLC.  The parts of the store that a change  *)
(* may touch do not interact, so a behaviour has one focus: categories,    *)
(* what is sold, stock, or customers.  Central's log and the store's own   *)
(* actions keep to it.                                                     *)
(***************************************************************************)
EXTENDS ChangeFeed

CONSTANTS c1, c2, p1, q1, b1, b2, canon, local, n1

VARIABLE focus

Cat(c, v, par) == [type |-> "category", id |-> c, version |-> v, active |-> TRUE, parent |-> par]
Snap(v, S) == [type |-> "categories", version |-> v, listed |-> S]
Prod(v, act, s) ==
  [type |-> "product", id |-> p1, version |-> v, active |-> act, category |-> None, stock |-> s]
Remove(v) == [type |-> "remove", id |-> p1, version |-> v]
PriceAt(v) == [type |-> "price", id |-> q1, version |-> v, product |-> p1]
Code(b, m) == [type |-> "barcode", id |-> b, product |-> p1, primary |-> m]
Cust(n, M) == [type |-> "customer", id |-> canon, phone |-> n, mapped |-> M]
Invalid == [type |-> "invalid"]

InFocus ==
  [categories |-> {Cat(c1, 1, None), Cat(c2, 2, c1), Snap(1, {c1, c2}), Snap(2, {c1}), Invalid,
                   [Prod(1, TRUE, None) EXCEPT !.category = c2]},
   goods      |-> {Prod(1, TRUE, None), Prod(2, FALSE, None), Remove(1), Remove(2),
                   PriceAt(1), PriceAt(2), Code(b1, TRUE), Code(b2, TRUE)},
   stock      |-> {Prod(1, TRUE, 1), Prod(2, TRUE, 1), Prod(3, TRUE, None), Remove(2)},
   customers  |-> {Cust(n1, {}), Cust(None, {<<local, 1>>}), Cust(n1, {<<local, 2>>}),
                   Cust(None, {<<canon, 1>>, <<local, 1>>})}]

MCInput == UNION {InFocus[f] : f \in DOMAIN InFocus}

MCInit == Init /\ focus \in DOMAIN InFocus

MCNext ==
  /\ Next
  /\ \A i \in 1..Len(feed') : feed'[i] \in InFocus[focus]
  /\ focus # "stock" => sales' = 0
  /\ focus # "customers" => edits' = [c \in Customer |-> 0]
  /\ focus # "categories" => faults' = 0
  /\ focus \in {"goods", "customers"} => saved' = <<>>
  /\ UNCHANGED focus

MCSpec == MCInit /\ [][MCNext]_<<vars, focus>> /\ WF_vars(Pull)

=============================================================================
