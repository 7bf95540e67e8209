------------------------------ MODULE Checkout ------------------------------
(***************************************************************************)
(* How an order comes about (POST /api/v1/orders: internal/server,         *)
(* internal/orders).  A cashier's request is authenticated, an approval is *)
(* spent if there is a discount the cashier may not give, the client's     *)
(* order id is looked up, and every line is priced from the catalog and    *)
(* the configuration as they are when they are read: the product, its      *)
(* price and each setting by a statement of its own, while the feed        *)
(* changes the one and a refresh the other.  One transaction writes the    *)
(* order, two more statements note who made and who approved it.           *)
(*                                                                         *)
(* Composes ManagerApproval (who may) with EffectiveConfig (by which       *)
(* rules) and Pricing (for how much).                                      *)
(***************************************************************************)
EXTENDS ManagerApproval, EffectiveConfig, Pricing, Sequences

CONSTANTS
  Product,
  BasketInput,   \* the baskets cashiers send in: sequences of Entry
  ProductInput,  \* rows Central gives a product
  PriceInput     \* prices Central gives a product, None for no price

\* A line that is asked for; price is None unless the cashier gives one.
Entry == [product : Product, quantity : Nat \ {0}, price : Nat \union {None}, discount : Nat]

\* What the code reads of catalog_products; no rate is rate 0.
ProductRow == [manual : BOOLEAN, rate : Int]

\* The settings and their defaults.  A configuration may leave a setting out.
Setting == {"override", "allowed", "percent", "enabled", "mode", "rounding"}

Default == [override |-> FALSE, allowed |-> FALSE, percent |-> 20,
            enabled |-> TRUE, mode |-> "INCLUSIVE", rounding |-> "HALF_UP"]

\* The words of a configuration that mean something to the code, and another.
Word == TaxModes \union {"HALF_UP", "other"}

\* What a request has read of them.
Read == [override : BOOLEAN \union {None}, allowed : BOOLEAN \union {None},
         percent : Int \union {None}, enabled : BOOLEAN \union {None},
         mode : Word \union {None}, rounding : Word \union {None}]

NothingRead == [override |-> None, allowed |-> None, percent |-> None,
                enabled |-> None, mode |-> None, rounding |-> None]

Sums == [subtotal : Nat, discount : Nat, tax : Nat, total : Nat]

OrderRow == [creator : User, approver : User \union {None}, store : Store, sums : Sums]

\* A request at work on line no. line.  product and price: what it read for
\* that line; read: the settings it has read; sums: over the lines before it.
Cart ==
  [at : {"lookup", "product", "price", "policy", "commit", "creator", "approval", "over"},
   store : Store \union {None}, basket : BasketInput, line : Nat \ {0}, product : ProductRow \union {None},
   price : Nat \union {None}, read : Read, sums : Sums]

ASSUME CheckoutAssumption ==
  /\ BasketInput \subseteq Seq(Entry) \ {<<>>}
  /\ ProductInput \subseteq ProductRow
  /\ PriceInput \subseteq Nat \union {None}
  /\ \A c \in Config : DOMAIN c \subseteq Setting
  /\ \A c \in Config, k \in Setting : k \in DOMAIN c => [NothingRead EXCEPT ![k] = c[k]] \in Read
  /\ None \notin ProductRow \union OrderRow \union Cart \union Nat \union Word

VARIABLES
  products,  \* catalog_products
  prices,    \* the price GetProduct finds for a product
  orders,    \* sales_orders, by client_order_id
  cart       \* creates at work

saleVars == <<products, prices, orders, cart>>
vars == <<authVars, approvalVars, configVars, saleVars>>

Init ==
  /\ AuthInit /\ ApprovalInit /\ ConfigInit
  /\ products = [p \in Product |-> None]
  /\ prices = [p \in Product |-> None]
  /\ orders = [o \in Order |-> None]
  /\ cart = [r \in Request |-> None]

-----------------------------------------------------------------------------
(* The feed                                                                *)

\* inbox.upsertProduct, and the upsert of a price or its end.
ChangeProduct(p, row) ==
  /\ products' = [products EXCEPT ![p] = row]
  /\ UNCHANGED <<prices, orders, cart, authVars, approvalVars, configVars>>

ChangePrice(p, amount) ==
  /\ products[p] # None
  /\ prices' = [prices EXCEPT ![p] = amount]
  /\ UNCHANGED <<products, orders, cart, authVars, approvalVars, configVars>>

-----------------------------------------------------------------------------
(* handleOrderCreate                                                       *)

\* orderPayloadHasDiscount.
HasDiscount(basket) == \E i \in DOMAIN basket : basket[i].discount > 0

\* The request is authenticated; act[r].order is its client_order_id.
Submit(r, s, o, basket) ==
  /\ Begin(r, s, IF HasDiscount(basket) THEN "discount" ELSE "sale", o)
  /\ cart' = [cart EXCEPT ![r] =
                [at |-> "lookup", store |-> None, basket |-> basket, line |-> 1,
                 product |-> None, price |-> None, read |-> NothingRead,
                 sums |-> [subtotal |-> 0, discount |-> 0, tax |-> 0, total |-> 0]]]
  /\ UNCHANGED <<configVars, products, prices, orders>>

At(r, step) == cart[r] # None /\ cart[r].at = step /\ act[r].at # "over"

\* The device's store is read; GetByClientID: an order that is there is the
\* answer.
LookUp(r) ==
  /\ At(r, "lookup") /\ act[r].at = "ready"
  /\ store # None
  /\ IF orders[act[r].order] # None
     THEN /\ cart' = [cart EXCEPT ![r].at = "creator"]
          /\ act' = [act EXCEPT ![r].at = "over"]
     ELSE /\ cart' = [cart EXCEPT ![r].at = "product", ![r].store = store]
          /\ UNCHANGED act
  /\ UNCHANGED <<authVars, ask, approval, configVars, products, prices, orders>>

\* The line it is at.
Asks(r) == cart[r].basket[cart[r].line]

ReadProduct(r) ==
  /\ At(r, "product")
  /\ products[Asks(r).product] # None
  /\ cart' = [cart EXCEPT ![r].at = "price", ![r].product = products[Asks(r).product]]
  /\ UNCHANGED <<authVars, approvalVars, configVars, products, prices, orders>>

ReadPrice(r) ==
  /\ At(r, "price")
  /\ cart' = [cart EXCEPT ![r].at = "policy", ![r].price = prices[Asks(r).product]]
  /\ UNCHANGED <<authVars, approvalVars, configVars, products, prices, orders>>

\* The cashier's price is not the catalog's.
Overrides(r) == Asks(r).price # None /\ Asks(r).price # cart[r].price

UnitPrice(r) == IF Asks(r).price # None THEN Asks(r).price ELSE cart[r].price

\* The settings the line needs, in the order in which they are read.
Wanted(r) ==
  (IF Overrides(r) THEN <<"override">> ELSE <<>>) \o
  (IF Asks(r).discount > 0 THEN <<"allowed", "percent">> ELSE <<>>) \o
  <<"enabled", "mode", "rounding">>

\* The first of them that is still to be read.
NextSetting(r, k) ==
  \E i \in DOMAIN Wanted(r) :
    /\ Wanted(r)[i] = k /\ cart[r].read[k] = None
    /\ \A j \in 1..(i - 1) : cart[r].read[Wanted(r)[j]] # None

\* Store.Bool, Float64 and String.
Configured(k) ==
  IF snapshot = NoConfig \/ k \notin DOMAIN snapshot THEN Default[k] ELSE snapshot[k]

ReadSetting(r, k) ==
  /\ At(r, "policy") /\ UnitPrice(r) # None
  /\ NextSetting(r, k)
  /\ cart' = [cart EXCEPT ![r].read[k] = Configured(k)]
  /\ UNCHANGED <<authVars, approvalVars, configVars, products, prices, orders>>

TaxPolicy(r) ==
  [enabled |-> cart[r].read["enabled"], mode |-> cart[r].read["mode"],
   rounding |-> cart[r].read["rounding"]]

\* What the line costs before discount and tax.
LineGross(r) == Gross(UnitPrice(r), Asks(r).quantity)

\* Mutant of Sellable: no limit to the discount.
SellableUnlimited(r) ==
  /\ Overrides(r) => cart[r].product.manual /\ cart[r].read["override"]
  /\ ValidTax(TaxPolicy(r), cart[r].product.rate)

\* The line is one the store may sell.
Sellable(r) ==
  LET read == cart[r].read
      d == Asks(r).discount
  IN  /\ Overrides(r) => cart[r].product.manual /\ read["override"]
      /\ d > 0 =>
           /\ read["percent"] \in 0..100 /\ read["allowed"]
           /\ d <= MaxDiscount(LineGross(r), read["percent"])
      /\ d <= LineGross(r)
      /\ ValidTax(TaxPolicy(r), cart[r].product.rate)

\* Mutant of KeptSettings: the tax policy is resolved for every line.
KeptSettingsNone(r) == NothingRead

\* Discount and tax are resolved once for an order, the override for a line.
KeptSettings(r) == [cart[r].read EXCEPT !["override"] = None]

\* The line's share of the order.
Priced(r) ==
  LET taxable == LineGross(r) - Asks(r).discount
  IN  [subtotal |-> LineGross(r), discount |-> Asks(r).discount,
       tax |-> LineTax(TaxPolicy(r), taxable, cart[r].product.rate),
       total |-> LineTotal(TaxPolicy(r), taxable, cart[r].product.rate)]

Added(sums, x) ==
  [subtotal |-> sums.subtotal + x.subtotal, discount |-> sums.discount + x.discount,
   tax |-> sums.tax + x.tax, total |-> sums.total + x.total]

BuildLine(r) ==
  /\ At(r, "policy") /\ UnitPrice(r) # None
  /\ \A k \in Setting : ~NextSetting(r, k)
  /\ Sellable(r)
  /\ cart' = [cart EXCEPT
       ![r].at = IF cart[r].line = Len(cart[r].basket) THEN "commit" ELSE "product",
       ![r].line = @ + 1, ![r].read = KeptSettings(r), ![r].sums = Added(@, Priced(r))]
  /\ UNCHANGED <<authVars, approvalVars, configVars, products, prices, orders>>

\* Mutant of Fresh: the index on client_order_id is lost.
FreshUnindexed(o) == TRUE

\* The unique index on client_order_id.
Fresh(o) == orders[o] = None

\* The transaction of Create.
Commit(r) ==
  /\ At(r, "commit")
  /\ Fresh(act[r].order)
  /\ orders' = [orders EXCEPT ![act[r].order] =
       [creator |-> act[r].user, approver |-> None, store |-> cart[r].store,
        sums |-> cart[r].sums]]
  /\ Perform(r)
  /\ cart' = [cart EXCEPT ![r].at = "creator"]
  /\ UNCHANGED <<authVars, configVars, products, prices>>

\* The create fails: a product, a price or the customer is unknown, the line
\* may not be sold, another create has taken the client's order id, or a
\* statement fails.
FailCreate(r) ==
  /\ cart[r] # None /\ cart[r].at \in {"lookup", "product", "price", "policy", "commit"}
  /\ FailAct(r)
  /\ UNCHANGED <<authVars, configVars, saleVars>>

\* Mutant of Creator: the last request is taken for the creator.
CreatorAnew(row, u) == u

\* COALESCE(created_by_user_id, ?).
Creator(row, u) == IF row.creator # None THEN row.creator ELSE u

RecordCreator(r) ==
  /\ cart[r] # None /\ cart[r].at = "creator"
  /\ LET o == act[r].order
     IN  orders' = [orders EXCEPT ![o].creator = Creator(orders[o], act[r].user)]
  /\ cart' = [cart EXCEPT ![r].at = "approval"]
  /\ UNCHANGED <<authVars, approvalVars, configVars, products, prices>>

\* recordOrderApproval: the approval of the request that was answered last, be
\* it the one that made the order or not.
RecordApproval(r) ==
  /\ cart[r] # None /\ cart[r].at = "approval"
  /\ orders' = IF act[r].token = None THEN orders
               ELSE [orders EXCEPT ![act[r].order].approver = approval[act[r].token].approver]
  /\ cart' = [cart EXCEPT ![r].at = "over"]
  /\ UNCHANGED <<authVars, approvalVars, configVars, products, prices>>

-----------------------------------------------------------------------------
Create(r) ==
  \/ LookUp(r) \/ ReadProduct(r) \/ ReadPrice(r)
  \/ \E k \in Setting : ReadSetting(r, k)
  \/ BuildLine(r) \/ Commit(r) \/ FailCreate(r)
  \/ RecordCreator(r) \/ RecordApproval(r)

Next ==
  \/ AuthNext /\ UNCHANGED <<approvalVars, configVars, saleVars>>
  \/ ApprovalNext /\ UNCHANGED <<configVars, saleVars>>
  \/ ConfigNext /\ UNCHANGED <<authVars, approvalVars, saleVars>>
  \/ \E p \in Product, row \in ProductInput : ChangeProduct(p, row)
  \/ \E p \in Product, amount \in PriceInput : ChangePrice(p, amount)
  \/ \E r \in Request, s \in Attempt, o \in Order, b \in BasketInput : Submit(r, s, o, b)
  \/ \E r \in Request : Create(r)

Spec == Init /\ [][Next]_vars

\* The loop's goroutine runs and its ticker ticks; a refresh that was started
\* gets its answer or its time-out.
Refreshing(r) == (Proceed(r) \/ (r = Loop /\ StartRefresh(r)))
                   /\ UNCHANGED <<authVars, approvalVars, saleVars>>

FairSpec == Spec /\ \A r \in Refresher : WF_vars(Refreshing(r))

-----------------------------------------------------------------------------
(* Properties                                                              *)

TypeOK ==
  /\ AuthTypeOK /\ ApprovalTypeOK /\ ConfigTypeOK
  /\ products \in [Product -> ProductRow \union {None}]
  /\ prices \in [Product -> Nat \union {None}]
  /\ orders \in [Order -> OrderRow \union {None}]
  /\ cart \in [Request -> Cart \union {None}]

\* However the configuration changes while an order is priced, either all of
\* its tax is part of its prices or all of it is on top of them.
OrdersAddUp ==
  \A o \in Order : orders[o] # None =>
    LET x == orders[o].sums
    IN  x.total \in {x.subtotal - x.discount, x.subtotal - x.discount + x.tax}

\* docs/order-identity-authority-matrix.md, "Idempotent client_order_id retry
\* preserves the original creator and cannot be used by a second cashier to
\* replace attribution": whatever is sent again, an order stays as it was made
\* but for the approver that is noted.
OrderIsKept ==
  [][\A o \in Order : orders[o] # None =>
       [orders'[o] EXCEPT !.approver = None] = [orders[o] EXCEPT !.approver = None]]_vars

\* An order was made by one create, the one of its creator, however often and
\* by whomever its client order id is sent; it has a discount only if that
\* create was admitted with one.
CreatedOnce ==
  \A o \in Order :
    LET Made == {r \in Request : /\ act[r] # None /\ act[r].at = "done" /\ act[r].order = o
                                 /\ act[r].kind \in {"sale", "discount"}}
    IN  /\ \A q, r \in Made : q = r
        /\ orders[o] # None =>
             \E r \in Made : /\ act[r].user = orders[o].creator
                            /\ orders[o].sums.discount > 0 => act[r].kind = "discount"

=============================================================================
