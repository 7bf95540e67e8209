--------------------------- MODULE CheckoutProofs ---------------------------
(***************************************************************************)
(* Proofs about orders, for any number of requests, baskets, products,     *)
(* configurations and refreshes: types, that the sums of every order add   *)
(* up, that an order is made once, by the create of its creator, and that  *)
(* it stays as it was made.                                                *)
(***************************************************************************)
EXTENDS CounterProofs, PricingProofs, SequenceTheorems

SaleTypeOK ==
  /\ products \in [Product -> ProductRow \union {None}]
  /\ prices \in [Product -> Nat \union {None}]
  /\ orders \in [Order -> OrderRow \union {None}]
  /\ cart \in [Request -> Cart \union {None}]

\* What a request that asks for this basket is.
KindOf(basket) == IF HasDiscount(basket) THEN "discount" ELSE "sale"

\* What has to be added to the discounted prices under what was read of the
\* tax mode.
OnTopOfPrices(sums, mode) == IF mode = "EXCLUSIVE" THEN sums.tax ELSE 0

Making == {"lookup", "product", "price", "policy", "commit"}

\* A create at work: it is at a line of its basket, its sums add up, there is
\* tax in them only if the tax mode has been read, and there is a discount in
\* them only if there is one in the basket.
CartOK(c) ==
  /\ c.at \in {"lookup", "product", "price", "policy"} => c.line \in DOMAIN c.basket
  /\ c.at \notin {"lookup"} /\ c.at \in Making => c.store # None
  /\ c.at \in {"price", "policy"} => c.product # None
  /\ c.sums.total = c.sums.subtotal - c.sums.discount + OnTopOfPrices(c.sums, c.read["mode"])
  /\ c.read["mode"] = None => c.sums.tax = 0
  /\ c.sums.discount > 0 => HasDiscount(c.basket)

\* A create is of the kind its basket makes it, and the order it records
\* something of is there.
CartsOK ==
  \A r \in Request : cart[r] # None =>
    /\ CartOK(cart[r])
    /\ act[r].kind = KindOf(cart[r].basket)
    /\ cart[r].at \in {"creator", "approval"} => orders[act[r].order] # None

\* The create r has made an order.
Made(r) == act[r] # None /\ act[r].at = "done" /\ act[r].kind \in {"sale", "discount"}

\* An order was made by a create, and a create that is done made one that is
\* there, and made it alone.
OrdersMade ==
  /\ \A r \in Request : Made(r) => orders[act[r].order] # None
  /\ \A q, r \in Request : Made(q) /\ Made(r) /\ act[q].order = act[r].order => q = r
  /\ \A o \in Order : orders[o] # None =>
       \E r \in Request : /\ Made(r) /\ act[r].order = o /\ act[r].user = orders[o].creator
                          /\ orders[o].sums.discount > 0 => act[r].kind = "discount"

SaleInv == SaleTypeOK /\ CartsOK /\ OrdersMade /\ OrdersAddUp

-----------------------------------------------------------------------------
(* The records of a create                                                 *)

LEMMA SaleNone ==
  /\ None \notin ProductRow /\ None \notin OrderRow /\ None \notin Cart /\ None \notin Nat
  /\ None \notin User /\ None \notin Store
BY CheckoutAssumption, AuthAssumption

LEMMA BasketIs ==
  ASSUME NEW b \in BasketInput
  PROVE  /\ b \in Seq(Entry) /\ Len(b) \in Nat \ {0} /\ DOMAIN b = 1..Len(b)
         /\ \A i \in DOMAIN b : b[i] \in Entry
<1>1. b \in Seq(Entry) /\ b # <<>>
  BY CheckoutAssumption
<1> QED
  BY <1>1, EmptySeq, LenProperties, ElementOfSeq

CartSteps == Making \union {"creator", "approval", "over"}

\* The fields of d are those of c, F apart.
SameBut(c, d, F) ==
  /\ "at" \notin F => d.at = c.at
  /\ "store" \notin F => d.store = c.store
  /\ d.basket = c.basket
  /\ "line" \notin F => d.line = c.line
  /\ "product" \notin F => d.product = c.product
  /\ "price" \notin F => d.price = c.price
  /\ "read" \notin F => d.read = c.read
  /\ "sums" \notin F => d.sums = c.sums

\* Changing one field of a create, whatever it is.
LEMMA CartFields ==
  ASSUME NEW c \in Cart
  PROVE  /\ \A x \in CartSteps : /\ [c EXCEPT !.at = x] \in Cart /\ [c EXCEPT !.at = x].at = x
                                  /\ SameBut(c, [c EXCEPT !.at = x], {"at"})
         /\ \A x \in Store \union {None} : /\ [c EXCEPT !.store = x] \in Cart /\ [c EXCEPT !.store = x].store = x
                                  /\ SameBut(c, [c EXCEPT !.store = x], {"store"})
         /\ \A x \in Nat \ {0} : /\ [c EXCEPT !.line = x] \in Cart /\ [c EXCEPT !.line = x].line = x
                                  /\ SameBut(c, [c EXCEPT !.line = x], {"line"})
         /\ \A x \in ProductRow \union {None} : /\ [c EXCEPT !.product = x] \in Cart /\ [c EXCEPT !.product = x].product = x
                                  /\ SameBut(c, [c EXCEPT !.product = x], {"product"})
         /\ \A x \in Nat \union {None} : /\ [c EXCEPT !.price = x] \in Cart /\ [c EXCEPT !.price = x].price = x
                                  /\ SameBut(c, [c EXCEPT !.price = x], {"price"})
         /\ \A x \in Read : /\ [c EXCEPT !.read = x] \in Cart /\ [c EXCEPT !.read = x].read = x
                                  /\ SameBut(c, [c EXCEPT !.read = x], {"read"})
         /\ \A x \in Sums : /\ [c EXCEPT !.sums = x] \in Cart /\ [c EXCEPT !.sums = x].sums = x
                                  /\ SameBut(c, [c EXCEPT !.sums = x], {"sums"})
<1>1. ASSUME NEW x \in CartSteps
      PROVE  /\ [c EXCEPT !.at = x] \in Cart /\ [c EXCEPT !.at = x].at = x
             /\ SameBut(c, [c EXCEPT !.at = x], {"at"})
  BY DEF Cart, SameBut, CartSteps, Making
<1>2. ASSUME NEW x \in Store \union {None}
      PROVE  /\ [c EXCEPT !.store = x] \in Cart /\ [c EXCEPT !.store = x].store = x
             /\ SameBut(c, [c EXCEPT !.store = x], {"store"})
  BY DEF Cart, SameBut, CartSteps, Making
<1>3. ASSUME NEW x \in Nat \ {0}
      PROVE  /\ [c EXCEPT !.line = x] \in Cart /\ [c EXCEPT !.line = x].line = x
             /\ SameBut(c, [c EXCEPT !.line = x], {"line"})
  BY DEF Cart, SameBut, CartSteps, Making
<1>4. ASSUME NEW x \in ProductRow \union {None}
      PROVE  /\ [c EXCEPT !.product = x] \in Cart /\ [c EXCEPT !.product = x].product = x
             /\ SameBut(c, [c EXCEPT !.product = x], {"product"})
  BY DEF Cart, SameBut, CartSteps, Making
<1>5. ASSUME NEW x \in Nat \union {None}
      PROVE  /\ [c EXCEPT !.price = x] \in Cart /\ [c EXCEPT !.price = x].price = x
             /\ SameBut(c, [c EXCEPT !.price = x], {"price"})
  BY DEF Cart, SameBut, CartSteps, Making
<1>6. ASSUME NEW x \in Read
      PROVE  /\ [c EXCEPT !.read = x] \in Cart /\ [c EXCEPT !.read = x].read = x
             /\ SameBut(c, [c EXCEPT !.read = x], {"read"})
  BY DEF Cart, SameBut, CartSteps, Making
<1>7. ASSUME NEW x \in Sums
      PROVE  /\ [c EXCEPT !.sums = x] \in Cart /\ [c EXCEPT !.sums = x].sums = x
             /\ SameBut(c, [c EXCEPT !.sums = x], {"sums"})
  BY DEF Cart, SameBut, CartSteps, Making
<1> QED
  BY <1>1, <1>2, <1>3, <1>4, <1>5, <1>6, <1>7

LEMMA CartIs ==
  ASSUME NEW c \in Cart
  PROVE  /\ c.at \in CartSteps /\ c.store \in Store \union {None} /\ c.basket \in BasketInput
         /\ c.line \in Nat \ {0} /\ c.product \in ProductRow \union {None}
         /\ c.price \in Nat \union {None} /\ c.read \in Read /\ c.sums \in Sums
BY DEF Cart, CartSteps, Making

\* Reading a setting sets it and no other.
LEMMA ReadChanged ==
  ASSUME NEW read \in Read, NEW k \in Setting, NEW v,
         NEW other \in Read, [other EXCEPT ![k] = v] \in Read
  PROVE  /\ [read EXCEPT ![k] = v] \in Read
         /\ [read EXCEPT ![k] = v][k] = v
         /\ \A j \in Setting : j # k => [read EXCEPT ![k] = v][j] = read[j]
<1>0. DOMAIN read = Setting /\ DOMAIN other = Setting
  BY DEF Read, Setting
<1>1. CASE k = "override"
  <2>1. v \in BOOLEAN \union {None}
    BY <1>1 DEF Read
  <2>2. [read EXCEPT !["override"] = v] \in Read
    BY <2>1 DEF Read
  <2> QED
    BY <1>0, <1>1, <2>2
<1>2. CASE k = "allowed"
  <2>1. v \in BOOLEAN \union {None}
    BY <1>2 DEF Read
  <2>2. [read EXCEPT !["allowed"] = v] \in Read
    BY <2>1 DEF Read
  <2> QED
    BY <1>0, <1>2, <2>2
<1>3. CASE k = "percent"
  <2>1. v \in Int \union {None}
    BY <1>3 DEF Read
  <2>2. [read EXCEPT !["percent"] = v] \in Read
    BY <2>1 DEF Read
  <2> QED
    BY <1>0, <1>3, <2>2
<1>4. CASE k = "enabled"
  <2>1. v \in BOOLEAN \union {None}
    BY <1>4 DEF Read
  <2>2. [read EXCEPT !["enabled"] = v] \in Read
    BY <2>1 DEF Read
  <2> QED
    BY <1>0, <1>4, <2>2
<1>5. CASE k = "mode"
  <2>1. v \in Word \union {None}
    BY <1>5 DEF Read
  <2>2. [read EXCEPT !["mode"] = v] \in Read
    BY <2>1 DEF Read
  <2> QED
    BY <1>0, <1>5, <2>2
<1>6. CASE k = "rounding"
  <2>1. v \in Word \union {None}
    BY <1>6 DEF Read
  <2>2. [read EXCEPT !["rounding"] = v] \in Read
    BY <2>1 DEF Read
  <2> QED
    BY <1>0, <1>6, <2>2
<1> QED
  BY <1>1, <1>2, <1>3, <1>4, <1>5, <1>6 DEF Setting

-----------------------------------------------------------------------------
(* Steps of a create that touch nothing but itself                         *)

LEMMA CartOf ==
  ASSUME SaleTypeOK, NEW r \in Request, cart[r] # None
  PROVE  cart[r] \in Cart
BY DEF SaleTypeOK

\* A create goes on, for the same basket.
LEMMA WorkKeeps ==
  ASSUME SaleInv, NEW r \in Request, cart[r] # None, NEW new \in Cart, CartOK(new),
         new.basket = cart[r].basket,
         new.at \in {"creator", "approval"} => orders[act[r].order] # None,
         cart' = [cart EXCEPT ![r] = new], UNCHANGED <<act, products, prices, orders>>
  PROVE  SaleInv'
<1>1. SaleTypeOK'
  BY DEF SaleInv, SaleTypeOK
<1>2. CartsOK'
  BY DEF SaleInv, SaleTypeOK, CartsOK, KindOf
<1>3. OrdersMade' /\ OrdersAddUp'
  BY DEF SaleInv, OrdersMade, Made, OrdersAddUp
<1> QED
  BY <1>1, <1>2, <1>3 DEF SaleInv

LEMMA ReadProductKeeps ==
  ASSUME SaleInv, NEW r \in Request, ReadProduct(r)
  PROVE  SaleInv'
<1> DEFINE c == cart[r]
           row == products[Asks(r).product]
           moved == [c EXCEPT !.at = "price"]
           new == [c EXCEPT !.at = "price", !.product = row]
<1>1. c # None /\ c.at = "product" /\ c \in Cart /\ CartOK(c)
  BY CartOf DEF ReadProduct, At, SaleInv, CartsOK
<1>2. Asks(r) \in Entry
  BY <1>1, CartIs, BasketIs DEF Asks, CartOK
<1>3. row \in ProductRow /\ row # None
  BY <1>2 DEF ReadProduct, SaleInv, SaleTypeOK, Entry
<1>4. cart' = [cart EXCEPT ![r] = new]
  BY <1>1 DEF ReadProduct, SaleInv, SaleTypeOK
<1>5. new = [moved EXCEPT !.product = row]
  BY ZenonT(20)
<1>6. moved \in Cart /\ moved.at = "price" /\ SameBut(c, moved, {"at"})
  BY <1>1, CartFields DEF CartSteps, Making
<1> HIDE DEF c, row, moved
<1>7. /\ new \in Cart /\ new.product = row /\ SameBut(moved, new, {"product"})
  BY <1>3, <1>5, <1>6, CartFields
<1> HIDE DEF new
<1>8. CartOK(new)
  BY <1>1, <1>3, <1>6, <1>7 DEF CartOK, SameBut, OnTopOfPrices, Making
<1>9. new.basket = c.basket /\ new.at = "price"
  BY <1>6, <1>7 DEF SameBut
<1> QED
  BY <1>1, <1>4, <1>7, <1>8, <1>9, WorkKeeps DEF ReadProduct, approvalVars, c

LEMMA ReadPriceKeeps ==
  ASSUME SaleInv, NEW r \in Request, ReadPrice(r)
  PROVE  SaleInv'
<1> DEFINE c == cart[r]
           price == prices[Asks(r).product]
           moved == [c EXCEPT !.at = "policy"]
           new == [c EXCEPT !.at = "policy", !.price = price]
<1>1. c # None /\ c.at = "price" /\ c \in Cart /\ CartOK(c)
  BY CartOf DEF ReadPrice, At, SaleInv, CartsOK
<1>2. Asks(r) \in Entry
  BY <1>1, CartIs, BasketIs DEF Asks, CartOK
<1>3. price \in Nat \union {None}
  BY <1>2 DEF SaleInv, SaleTypeOK, Entry
<1>4. cart' = [cart EXCEPT ![r] = new]
  BY <1>1 DEF ReadPrice, SaleInv, SaleTypeOK
<1>5. new = [moved EXCEPT !.price = price]
  BY ZenonT(20)
<1>6. moved \in Cart /\ moved.at = "policy" /\ SameBut(c, moved, {"at"})
  BY <1>1, CartFields DEF CartSteps, Making
<1> HIDE DEF c, price, moved
<1>7. new \in Cart /\ SameBut(moved, new, {"price"})
  BY <1>3, <1>5, <1>6, CartFields
<1> HIDE DEF new
<1>8. CartOK(new)
  BY <1>1, <1>6, <1>7 DEF CartOK, SameBut, OnTopOfPrices, Making
<1>9. new.basket = c.basket /\ new.at = "policy"
  BY <1>6, <1>7 DEF SameBut
<1> QED
  BY <1>1, <1>4, <1>7, <1>8, <1>9, WorkKeeps DEF ReadPrice, approvalVars, c

\* What a setting is configured to be, it may be.
LEMMA ConfiguredIs ==
  ASSUME ConfigTypeOK, NEW k \in Setting
  PROVE  \E other \in Read : [other EXCEPT ![k] = Configured(k)] \in Read
<1>1. NothingRead \in Read
  BY DEF NothingRead, Read
<1>2. CASE snapshot = NoConfig \/ k \notin DOMAIN snapshot
  <2>1. Configured(k) = Default[k]
    BY <1>2 DEF Configured
  <2>2. Default \in Read
    <3> DEFINE flag == BOOLEAN \union {None}
    <3>1. FALSE \in flag /\ TRUE \in flag
      BY Zenon
    <3>2. "INCLUSIVE" \in Word \union {None} /\ "HALF_UP" \in Word \union {None}
      BY DEF Word, TaxModes
    <3>3. 20 \in Int \union {None}
      OBVIOUS
    <3>4. Read = [override : flag, allowed : flag, percent : Int \union {None}, enabled : flag,
                  mode : Word \union {None}, rounding : Word \union {None}]
      BY DEF Read
    <3> HIDE DEF flag
    <3> QED
      BY <3>1, <3>2, <3>3, <3>4 DEF Default
  <2>3. \A read \in Read : [read EXCEPT ![k] = read[k]] = read
    BY DEF Read
  <2> QED
    BY <2>1, <2>2, <2>3
<1>3. CASE ~(snapshot = NoConfig \/ k \notin DOMAIN snapshot)
  <2>1. snapshot \in Config /\ Configured(k) = snapshot[k]
    BY <1>3 DEF Configured, ConfigTypeOK, Stored
  <2>2. [NothingRead EXCEPT ![k] = snapshot[k]] \in Read
    BY <1>3, <2>1, CheckoutAssumption
  <2> QED
    BY <1>1, <2>1, <2>2
<1> QED
  BY <1>2, <1>3

LEMMA ReadSettingKeeps ==
  ASSUME SaleInv, ConfigTypeOK, NEW r \in Request, NEW k \in Setting, ReadSetting(r, k)
  PROVE  SaleInv'
<1> DEFINE c == cart[r]
           v == Configured(k)
           read == [c.read EXCEPT ![k] = v]
           new == [c EXCEPT !.read = read]
<1>1. c # None /\ c.at = "policy" /\ c \in Cart /\ CartOK(c) /\ c.read \in Read
  BY CartOf, CartIs DEF ReadSetting, At, SaleInv, CartsOK
<1>2. c.read[k] = None
  BY DEF ReadSetting, NextSetting
<1>3. PICK other \in Read : [other EXCEPT ![k] = v] \in Read
  BY ConfiguredIs
<1>4. cart' = [cart EXCEPT ![r] = new]
  BY <1>1 DEF ReadSetting, SaleInv, SaleTypeOK
<1> HIDE DEF c, v
<1>5. read \in Read /\ \A j \in Setting : j # k => read[j] = c.read[j]
  BY <1>1, <1>3, ReadChanged
<1> HIDE DEF read
<1>6. new \in Cart /\ new.read = read /\ SameBut(c, new, {"read"})
  BY <1>1, <1>5, CartFields
<1> HIDE DEF new
<1>7. k = "mode" \/ read["mode"] = c.read["mode"]
  BY <1>5 DEF Setting
<1>8. c.sums.tax \in Nat
  BY <1>1, CartIs DEF Sums
<1>9. CartOK(new)
  BY <1>1, <1>2, <1>6, <1>7, <1>8, SaleNone DEF CartOK, SameBut, OnTopOfPrices, Making
<1>10. new.basket = c.basket /\ new.at = "policy"
  BY <1>1, <1>6 DEF SameBut
<1> QED
  BY <1>1, <1>4, <1>6, <1>9, <1>10, WorkKeeps DEF ReadSetting, approvalVars, c

\* The sums of a line that may be sold.
LEMMA PricedIs ==
  ASSUME NEW r \in Request, cart[r] \in Cart, CartOK(cart[r]), cart[r].at = "policy",
         UnitPrice(r) # None, Sellable(r)
  PROVE  /\ Priced(r) \in Sums /\ Priced(r).discount = Asks(r).discount
         /\ cart[r].read["mode"] \in TaxModes
         /\ Priced(r).total = Priced(r).subtotal - Priced(r).discount
                                + OnTopOfPrices(Priced(r), cart[r].read["mode"])
<1> DEFINE gross == LineGross(r)
           d == Asks(r).discount
           policy == TaxPolicy(r)
           rate == cart[r].product.rate
           taxable == gross - d
<1>1. Asks(r) \in Entry
  BY CartIs, BasketIs DEF Asks, CartOK
<1>2. UnitPrice(r) \in Nat /\ Asks(r).quantity \in Nat /\ d \in Nat
  BY <1>1, CartIs DEF UnitPrice, Entry
<1>3. gross \in Nat
  <2>1. ASSUME NEW a \in Nat, NEW b \in Nat PROVE (a * b) \div 1000 \in Nat
    <3>1. a * b \in Nat
      BY <2>1
    <3> DEFINE ab == a * b
    <3>2. ab \in Nat
      BY <3>1
    <3> HIDE DEF ab
    <3>3. ab \div 1000 \in Nat
      BY <3>2
    <3> QED
      BY <3>3 DEF ab
  <2> QED
    BY <1>2, <2>1 DEF LineGross, Gross
<1>4. d <= gross /\ ValidTax(policy, rate)
  BY DEF Sellable
<1>5. rate \in Int
  <2>1. cart[r].product \in ProductRow
    BY CartIs DEF CartOK
  <2> QED
    BY <2>1 DEF ProductRow
<1>6. policy.mode = cart[r].read["mode"] /\ policy.mode \in TaxModes
  <2>1. policy.mode = cart[r].read["mode"]
    BY DEF TaxPolicy
  <2>2. ValidTax(policy, rate) => policy.mode \in TaxModes
    <3>1. ASSUME NEW p, NEW q, ValidTax(p, q) PROVE p.mode \in TaxModes
      BY <3>1 DEF ValidTax
    <3> QED
      BY <3>1
  <2> QED
    BY <1>4, <2>1, <2>2
<1>7. Priced(r) = [subtotal |-> gross, discount |-> d, tax |-> LineTax(policy, taxable, rate),
                   total |-> LineTotal(policy, taxable, rate)]
  BY DEF Priced
<1> HIDE DEF gross, d, policy, rate
<1>8. taxable \in Nat
  BY <1>2, <1>3, <1>4
<1> HIDE DEF taxable
<1>9. /\ LineTax(policy, taxable, rate) \in Nat /\ LineTotal(policy, taxable, rate) \in Nat
      /\ policy.mode = "EXCLUSIVE" =>
           LineTotal(policy, taxable, rate) = taxable + LineTax(policy, taxable, rate)
      /\ policy.mode = "INCLUSIVE" => LineTotal(policy, taxable, rate) = taxable
  BY <1>4, <1>5, <1>8, LineAddsUp
<1>10. Priced(r) \in Sums /\ Priced(r).discount = d
  BY <1>2, <1>3, <1>7, <1>9 DEF Sums
<1>11. Priced(r).total = Priced(r).subtotal - Priced(r).discount
                           + OnTopOfPrices(Priced(r), policy.mode)
  <2>1. CASE policy.mode = "EXCLUSIVE"
    BY <1>2, <1>3, <1>7, <1>9, <2>1 DEF OnTopOfPrices, taxable
  <2>2. CASE policy.mode = "INCLUSIVE"
    BY <1>2, <1>3, <1>7, <1>9, <2>2 DEF OnTopOfPrices, taxable
  <2> QED
    BY <1>6, <2>1, <2>2 DEF TaxModes
<1> QED
  BY <1>6, <1>10, <1>11 DEF d

\* Sums that add up under one tax mode add up when they are added.
LEMMA SumsAdd ==
  ASSUME NEW x \in Sums, NEW y \in Sums, NEW old, NEW mode,
         x.total = x.subtotal - x.discount + OnTopOfPrices(x, old),
         y.total = y.subtotal - y.discount + OnTopOfPrices(y, mode),
         old = mode \/ x.tax = 0
  PROVE  /\ Added(x, y) \in Sums
         /\ Added(x, y).total =
              Added(x, y).subtotal - Added(x, y).discount + OnTopOfPrices(Added(x, y), mode)
         /\ Added(x, y).discount = x.discount + y.discount
<1>1. /\ x.subtotal \in Nat /\ x.discount \in Nat /\ x.tax \in Nat /\ x.total \in Nat
      /\ y.subtotal \in Nat /\ y.discount \in Nat /\ y.tax \in Nat /\ y.total \in Nat
  BY DEF Sums
<1>2. Added(x, y) \in Sums
  BY <1>1 DEF Added, Sums
<1>3. OnTopOfPrices(x, old) = OnTopOfPrices(x, mode)
  BY DEF OnTopOfPrices
<1>4. CASE mode = "EXCLUSIVE"
  BY <1>1, <1>2, <1>3, <1>4 DEF Added, OnTopOfPrices
<1>5. CASE mode # "EXCLUSIVE"
  BY <1>1, <1>2, <1>3, <1>5 DEF Added, OnTopOfPrices
<1> QED
  BY <1>4, <1>5

LEMMA BuildLineKeeps ==
  ASSUME SaleInv, NEW r \in Request, BuildLine(r)
  PROVE  SaleInv'
<1> DEFINE c == cart[r]
           step == IF c.line = Len(c.basket) THEN "commit" ELSE "product"
           line == c.line + 1
           read == [c.read EXCEPT !["override"] = None]
           sums == Added(c.sums, Priced(r))
           c1 == [c EXCEPT !.at = step]
           c2 == [c1 EXCEPT !.line = line]
           c3 == [c2 EXCEPT !.read = read]
           c4 == [c3 EXCEPT !.sums = sums]
           new == [c EXCEPT !.at = step, !.line = line, !.read = read, !.sums = sums]
<1>1. /\ c # None /\ c.at = "policy" /\ c \in Cart /\ CartOK(c)
      /\ UnitPrice(r) # None /\ Sellable(r)
  BY CartOf DEF BuildLine, At, SaleInv, CartsOK
<1>2. c.line \in Nat /\ c.line \in 1..Len(c.basket) /\ Len(c.basket) \in Nat /\ c.sums \in Sums
      /\ c.read \in Read /\ DOMAIN c.basket = 1..Len(c.basket)
  BY <1>1, CartIs, BasketIs DEF CartOK
<1>3. /\ Priced(r) \in Sums /\ Priced(r).discount = Asks(r).discount
      /\ c.read["mode"] \in TaxModes /\ c.read["mode"] # None
      /\ Priced(r).total = Priced(r).subtotal - Priced(r).discount
                             + OnTopOfPrices(Priced(r), c.read["mode"])
  <2>1. None \notin TaxModes
    BY CheckoutAssumption DEF Word
  <2> QED
    BY <1>1, <2>1, PricedIs
<1>4. /\ sums \in Sums /\ sums.discount = c.sums.discount + Priced(r).discount
      /\ sums.total = sums.subtotal - sums.discount + OnTopOfPrices(sums, c.read["mode"])
  BY <1>1, <1>2, <1>3, SumsAdd DEF CartOK
<1>5. sums.discount > 0 => HasDiscount(c.basket)
  <2>1. Priced(r).discount > 0 => HasDiscount(c.basket)
    BY <1>2, <1>3 DEF HasDiscount, Asks
  <2>2. c.sums.discount \in Nat /\ Priced(r).discount \in Nat
    BY <1>2, <1>3 DEF Sums
  <2> QED
    BY <1>1, <1>4, <2>1, <2>2 DEF CartOK
<1>6. read \in Read /\ read["mode"] = c.read["mode"]
  BY <1>2 DEF Read
<1>7. cart' = [cart EXCEPT ![r] = new]
  BY <1>1 DEF BuildLine, KeptSettings, SaleInv, SaleTypeOK
<1>8. new = c4
  BY ZenonT(20)
<1>9. /\ step \in {"commit", "product"} /\ step \in CartSteps /\ line \in Nat \ {0}
      /\ step = "product" => line \in DOMAIN c.basket
  BY <1>2 DEF CartSteps, Making
<1> HIDE DEF c, step, line, read, sums, c1, c2, c3, c4
<1>10. c1 \in Cart /\ c1.at = step /\ SameBut(c, c1, {"at"})
  BY <1>1, <1>9, CartFields DEF c1
<1>11. c2 \in Cart /\ c2.line = line /\ SameBut(c1, c2, {"line"})
  BY <1>9, <1>10, CartFields DEF c2
<1>12. c3 \in Cart /\ c3.read = read /\ SameBut(c2, c3, {"read"})
  BY <1>6, <1>11, CartFields DEF c3
<1>13. c4 \in Cart /\ c4.sums = sums /\ SameBut(c3, c4, {"sums"})
  BY <1>4, <1>12, CartFields DEF c4
<1>14. /\ c4.at = step /\ c4.line = line /\ c4.read = read /\ c4.sums = sums
       /\ c4.store = c.store /\ c4.basket = c.basket
  BY <1>10, <1>11, <1>12, <1>13 DEF SameBut
<1>15. CartOK(c4)
  BY <1>1, <1>3, <1>4, <1>5, <1>6, <1>9, <1>14 DEF CartOK, Making
<1> HIDE DEF new
<1> QED
  BY <1>1, <1>7, <1>8, <1>9, <1>13, <1>14, <1>15, WorkKeeps DEF BuildLine, approvalVars, c

-----------------------------------------------------------------------------
(* Steps that concern requests and orders                                  *)

\* Requests stay what they are, and none makes an order.
ActsSame ==
  \A q \in Request :
    /\ act[q] # None => /\ act'[q].kind = act[q].kind /\ act'[q].order = act[q].order
                        /\ act'[q].user = act[q].user
    /\ Made(q)' <=> Made(q)

\* Orders keep their creator and their sums.
OrdersSame ==
  \A o \in Order :
    /\ orders'[o] # None <=> orders[o] # None
    /\ orders[o] # None => /\ orders'[o].creator = orders[o].creator
                           /\ orders'[o].sums = orders[o].sums

LEMMA OrdersKept ==
  ASSUME ApprovalTypeOK, OrdersMade, OrdersAddUp, ActsSame, OrdersSame
  PROVE  OrdersMade' /\ OrdersAddUp'
<1>1. ASSUME NEW q \in Request, Made(q)'
      PROVE  /\ Made(q) /\ act'[q].order = act[q].order /\ act'[q].user = act[q].user
             /\ act'[q].kind = act[q].kind /\ act[q].order \in Order
  BY <1>1, ActFields DEF ActsSame, Made
<1>2. ASSUME NEW q \in Request, Made(q)'
      PROVE  orders'[act'[q].order] # None
  BY <1>1, <1>2 DEF OrdersMade, OrdersSame
<1>3. ASSUME NEW q \in Request, NEW r \in Request, Made(q)', Made(r)',
             act'[q].order = act'[r].order
      PROVE  q = r
  BY <1>1, <1>3 DEF OrdersMade
<1>4. ASSUME NEW o \in Order, orders'[o] # None
      PROVE  \E r \in Request :
               /\ Made(r)' /\ act'[r].order = o /\ act'[r].user = orders'[o].creator
               /\ orders'[o].sums.discount > 0 => act'[r].kind = "discount"
  <2>1. PICK r \in Request :
          /\ Made(r) /\ act[r].order = o /\ act[r].user = orders[o].creator
          /\ orders[o].sums.discount > 0 => act[r].kind = "discount"
    BY <1>4 DEF OrdersMade, OrdersSame
  <2>2. /\ Made(r)' /\ act'[r].order = o /\ act'[r].user = act[r].user
        /\ act'[r].kind = act[r].kind
    BY <2>1 DEF ActsSame, Made
  <2> QED
    BY <1>4, <2>1, <2>2 DEF OrdersSame
<1>5. OrdersAddUp'
  BY DEF OrdersAddUp, OrdersSame
<1> QED
  BY <1>2, <1>3, <1>4, <1>5 DEF OrdersMade

LEMMA CartsKept ==
  ASSUME ApprovalTypeOK, Carted, CartsOK, ActsSame, UNCHANGED cart,
         \A o \in Order : orders[o] # None => orders'[o] # None
  PROVE  CartsOK'
<1> SUFFICES ASSUME NEW r \in Request, cart[r] # None
             PROVE  /\ CartOK(cart[r]) /\ act'[r].kind = KindOf(cart[r].basket)
                    /\ cart[r].at \in {"creator", "approval"} => orders'[act'[r].order] # None
  BY DEF CartsOK, CartOK, KindOf
<1>1. act[r] # None /\ act[r].order \in Order
  BY ActFields DEF Carted
<1> QED
  BY <1>1 DEF CartsOK, ActsSame

\* Steps of users, approvals, the feed and refreshes.
LEMMA ElsewhereKeeps ==
  ASSUME SaleInv, ApprovalInv, Carted, ActsSame, UNCHANGED <<orders, cart>>,
         products' \in [Product -> ProductRow \union {None}],
         prices' \in [Product -> Nat \union {None}]
  PROVE  SaleInv'
<1>1. OrdersMade' /\ OrdersAddUp'
  BY OrdersKept DEF SaleInv, ApprovalInv, OrdersSame
<1>2. CartsOK'
  BY CartsKept DEF SaleInv, ApprovalInv
<1>3. SaleTypeOK'
  BY DEF SaleInv, SaleTypeOK
<1> QED
  BY <1>1, <1>2, <1>3 DEF SaleInv

LEMMA ActsUnchanged ==
  ASSUME UNCHANGED act
  PROVE  ActsSame
BY DEF ActsSame, Made

\* What becomes of a request that acts or fails.
LEMMA ActEnds ==
  ASSUME ApprovalInv, NEW r \in Request, act[r] # None, NEW step \in {"done", "over"},
         act' = [act EXCEPT ![r].at = step]
  PROVE  /\ act'[r] # None /\ act'[r].at = step
         /\ act'[r].kind = act[r].kind /\ act'[r].order = act[r].order
         /\ act'[r].user = act[r].user
         /\ \A q \in Request : q # r => act'[q] = act[q]
<1>1. act[r] \in Act /\ act \in [Request -> Act \union {None}]
  BY DEF ApprovalInv, ApprovalTypeOK
<1> DEFINE new == [act[r] EXCEPT !.at = step]
<1>2. new \in Act /\ new.at = step /\ new.kind = act[r].kind /\ new.order = act[r].order
      /\ new.user = act[r].user
  BY <1>1 DEF Act
<1>3. act' = [act EXCEPT ![r] = new]
  BY <1>1
<1>4. new # None
  BY <1>2, ApprovalNone
<1> HIDE DEF new
<1> QED
  BY <1>1, <1>2, <1>3, <1>4

\* A request that fails, or one that is no create and acts, makes no order.
LEMMA NoOrder ==
  ASSUME ApprovalInv, NEW r \in Request, act[r] # None, act[r].at = "ready",
         NEW step \in {"done", "over"}, act' = [act EXCEPT ![r].at = step],
         step = "over" \/ act[r].kind \notin {"sale", "discount"}
  PROVE  ActsSame
<1>1. /\ act'[r] # None /\ act'[r].at = step
      /\ act'[r].kind = act[r].kind /\ act'[r].order = act[r].order
      /\ act'[r].user = act[r].user
      /\ \A q \in Request : q # r => act'[q] = act[q]
  BY ActEnds
<1>2. ~Made(r)
  BY DEF Made
<1>3. ~Made(r)'
  BY <1>1 DEF Made
<1>4. ASSUME NEW q \in Request, q # r PROVE Made(q)' <=> Made(q)
  BY <1>1, <1>4 DEF Made
<1> QED
  BY <1>1, <1>2, <1>3, <1>4 DEF ActsSame

\* A request that comes in makes no order either.
LEMMA NoOrderYet ==
  ASSUME AuthInv, ApprovalInv, NEW r \in Request, NEW s \in Attempt, NEW k \in Kind,
         NEW o \in Order, Begin(r, s, k, o)
  PROVE  ActsSame /\ act'[r] # None /\ act'[r].kind = k /\ act'[r].order = o
<1>1. PICK new \in Act :
        /\ act' = [act EXCEPT ![r] = new] /\ act'[r] = new /\ new # None
        /\ new.kind = k /\ new.order = o /\ new.at \in {"spend", "ready"}
  BY BeginsAct
<1>2. act[r] = None /\ act \in [Request -> Act \union {None}]
  BY DEF Begin, ApprovalInv, ApprovalTypeOK
<1>3. ~Made(r) /\ ~Made(r)'
  BY <1>1, <1>2 DEF Made
<1>4. ASSUME NEW q \in Request, q # r PROVE act'[q] = act[q]
  BY <1>1, <1>2, <1>4
<1>5. ASSUME NEW q \in Request, q # r PROVE Made(q)' <=> Made(q)
  BY <1>4, <1>5 DEF Made
<1> QED
  BY <1>1, <1>2, <1>3, <1>4, <1>5 DEF ActsSame

LEMMA ApprovalsMakeNoOrder ==
  ASSUME AuthInv, ApprovalInv, ApprovalInv', ApprovalNext
  PROVE  ActsSame
<1>1. CASE UNCHANGED act
  BY <1>1, ActsUnchanged
<1>2. ASSUME NEW r \in Request, NEW s \in Attempt, NEW k \in Refunds \union {"void"},
             NEW o \in Order, Begin(r, s, k, o)
      PROVE  ActsSame
  BY <1>2, NoOrderYet DEF Kind
<1>3. ASSUME NEW r \in Request, NEW t \in Approval, Spend(r, t)
      PROVE  ActsSame
  <2>1. ApprovalStep
    BY <1>3 DEF ApprovalStep
  <2>2. ASSUME NEW q \in Request, act[q] # None
        PROVE  /\ act'[q].kind = act[q].kind /\ act'[q].order = act[q].order
               /\ act'[q].user = act[q].user
    BY <2>1, <2>2, ActsStay
  <2>3. act[r] # None /\ act[r].at = "spend" /\ act[r] \in Act
    BY <1>3 DEF Spend, ApprovalInv, ApprovalTypeOK
  <2>4. ASSUME NEW q \in Request, q # r PROVE act'[q] = act[q]
    BY <1>3, <2>4 DEF Spend, ApprovalInv, ApprovalTypeOK
  <2>5. ~Made(r) /\ ~Made(r)'
    <3> DEFINE ready == [act[r] EXCEPT !.at = "ready"]
    <3>1. ready \in Act /\ ready.at = "ready"
      BY <2>3 DEF Act
    <3>2. act'[r] = [ready EXCEPT !.token = t]
      BY <1>3 DEF Spend, ApprovalInv, ApprovalTypeOK
    <3> HIDE DEF ready
    <3>3. act'[r].at = "ready"
      BY <3>1, <3>2 DEF Act
    <3> QED
      BY <2>3, <3>3 DEF Made
  <2>6. ASSUME NEW q \in Request, q # r PROVE Made(q)' <=> Made(q)
    BY <2>4, <2>6 DEF Made
  <2> QED
    BY <2>2, <2>5, <2>6 DEF ActsSame
<1>4. ASSUME NEW r \in Request, Reversal(r), Perform(r) \/ FailAct(r)
      PROVE  ActsSame
  <2>1. act[r] # None /\ act[r].at = "ready" /\ act[r].kind \notin {"sale", "discount"}
    BY <1>4 DEF Reversal, Perform, FailAct, Refunds
  <2>2. PICK step \in {"done", "over"} : act' = [act EXCEPT ![r].at = step]
    BY <1>4 DEF Perform, FailAct
  <2> QED
    BY <2>1, <2>2, NoOrder
<1> QED
  BY <1>1, <1>2, <1>3, <1>4
     DEF ApprovalNext, EndHeld, AskApproval, CloseVerification, Issue, approvalVars

\* A create and its request go on, and no order is made.
LEMMA WorkMoves ==
  ASSUME SaleInv, ApprovalInv, Carted, ActsSame, OrdersSame, NEW r \in Request,
         NEW new \in Cart, CartOK(new), cart' = [cart EXCEPT ![r] = new],
         act'[r].kind = KindOf(new.basket),
         new.at \in {"creator", "approval"} => orders[act'[r].order] # None /\ act'[r].order \in Order,
         orders' \in [Order -> OrderRow \union {None}], UNCHANGED <<products, prices>>
  PROVE  SaleInv'
<1>1. OrdersMade' /\ OrdersAddUp'
  BY OrdersKept DEF SaleInv, ApprovalInv
<1>2. SaleTypeOK'
  BY DEF SaleInv, SaleTypeOK
<1>3. CartsOK'
  <2>1. ASSUME NEW q \in Request, cart'[q] # None
        PROVE  /\ CartOK(cart'[q]) /\ act'[q].kind = KindOf(cart'[q].basket)
               /\ cart'[q].at \in {"creator", "approval"} => orders'[act'[q].order] # None
    <3>1. CASE q = r
      BY <3>1 DEF SaleInv, SaleTypeOK, OrdersSame
    <3>2. CASE q # r
      <4>1. cart'[q] = cart[q]
        BY <3>2 DEF SaleInv, SaleTypeOK
      <4>2. act[q] # None /\ act[q].order \in Order
        BY <2>1, <4>1, ActFields DEF Carted, ApprovalInv
      <4> QED
        BY <2>1, <4>1, <4>2 DEF SaleInv, CartsOK, ActsSame, OrdersSame
    <3> QED
      BY <3>1, <3>2
  <2> QED
    BY <2>1 DEF CartsOK, CartOK, KindOf, HasDiscount, OnTopOfPrices
<1> QED
  BY <1>1, <1>2, <1>3 DEF SaleInv

LEMMA SubmitKeeps ==
  ASSUME SaleInv, AuthInv, ApprovalInv, Carted, NEW r \in Request, NEW s \in Attempt,
         NEW o \in Order, NEW basket \in BasketInput, Submit(r, s, o, basket)
  PROVE  SaleInv'
<1> DEFINE sums == [subtotal |-> 0, discount |-> 0, tax |-> 0, total |-> 0]
           new == [at |-> "lookup", store |-> None, basket |-> basket, line |-> 1,
                   product |-> None, price |-> None, read |-> NothingRead, sums |-> sums]
<1>1. KindOf(basket) \in {"sale", "discount"} /\ Begin(r, s, KindOf(basket), o)
  BY DEF Submit, KindOf
<1>2. ActsSame /\ act'[r].kind = KindOf(basket)
  BY <1>1, NoOrderYet DEF Kind
<1>3. sums \in Sums /\ NothingRead \in Read /\ NothingRead["mode"] = None
  BY DEF Sums, NothingRead, Read
<1>4. new \in Cart /\ new.basket = basket /\ new.at = "lookup"
  BY <1>3 DEF Cart
<1>5. CartOK(new)
  BY <1>3, BasketIs DEF CartOK, OnTopOfPrices, Making
<1>6. /\ cart' = [cart EXCEPT ![r] = new]
      /\ UNCHANGED <<products, prices, orders>>
  BY DEF Submit
<1> HIDE DEF new
<1> QED
  BY <1>2, <1>4, <1>5, <1>6, WorkMoves DEF OrdersSame, SaleInv, SaleTypeOK

LEMMA LookUpKeeps ==
  ASSUME SaleInv, AuthInv, ApprovalInv, Carted, NEW r \in Request, LookUp(r)
  PROVE  SaleInv'
<1> DEFINE c == cart[r]
<1>1. /\ c # None /\ c.at = "lookup" /\ c \in Cart /\ CartOK(c)
      /\ act[r].kind = KindOf(c.basket) /\ act[r].at = "ready"
  BY CartOf DEF LookUp, At, SaleInv, CartsOK
<1>2. act[r] # None /\ act[r].order \in Order
  BY <1>1, ActFields DEF Carted, ApprovalInv
<1>3. UNCHANGED <<products, prices, orders>>
  BY DEF LookUp
<1>4. OrdersSame
  BY <1>3 DEF OrdersSame
<1>5. CASE orders[act[r].order] # None
  <2> DEFINE new == [c EXCEPT !.at = "creator"]
  <2>1. act' = [act EXCEPT ![r].at = "over"]
    BY <1>5 DEF LookUp
  <2>2. cart' = [cart EXCEPT ![r] = new]
    BY <1>1, <1>5 DEF LookUp, SaleInv, SaleTypeOK
  <2>3. ActsSame /\ act'[r].kind = act[r].kind /\ act'[r].order = act[r].order
    BY <1>1, <1>2, <2>1, NoOrder, ActEnds
  <2> HIDE DEF c
  <2>4. new \in Cart /\ new.at = "creator" /\ SameBut(c, new, {"at"})
    BY <1>1, CartFields DEF CartSteps
  <2> HIDE DEF new
  <2>5. CartOK(new) /\ new.basket = c.basket
    BY <1>1, <2>4 DEF CartOK, SameBut, OnTopOfPrices, Making
  <2> QED
    BY <1>1, <1>2, <1>3, <1>4, <1>5, <2>2, <2>3, <2>4, <2>5, WorkMoves DEF SaleInv, SaleTypeOK
<1>6. CASE orders[act[r].order] = None
  <2> DEFINE moved == [c EXCEPT !.at = "product"]
             new == [c EXCEPT !.at = "product", !.store = store]
  <2>1. act' = act /\ store # None /\ store \in Store \union {None}
    BY <1>6 DEF LookUp, AuthInv, AuthTypeOK
  <2>2. cart' = [cart EXCEPT ![r] = new]
    BY <1>1, <1>6 DEF LookUp, SaleInv, SaleTypeOK
  <2>3. new = [moved EXCEPT !.store = store]
    BY ZenonT(20)
  <2> HIDE DEF c
  <2>4. moved \in Cart /\ moved.at = "product" /\ SameBut(c, moved, {"at"})
    BY <1>1, CartFields DEF CartSteps, Making
  <2> HIDE DEF moved
  <2>5. new \in Cart /\ new.store = store /\ SameBut(moved, new, {"store"})
    BY <2>1, <2>3, <2>4, CartFields
  <2> HIDE DEF new
  <2>6. CartOK(new) /\ new.basket = c.basket /\ new.at = "product"
    BY <1>1, <2>1, <2>4, <2>5 DEF CartOK, SameBut, OnTopOfPrices, Making
  <2> QED
    BY <1>1, <1>3, <2>1, <2>2, <2>5, <2>6, WorkKeeps DEF c
<1> QED
  BY <1>5, <1>6

LEMMA FailCreateKeeps ==
  ASSUME SaleInv, ApprovalInv, Carted, NEW r \in Request, FailCreate(r)
  PROVE  SaleInv'
<1>1. ActsSame
  BY NoOrder DEF FailCreate, FailAct
<1> QED
  BY <1>1, ElsewhereKeeps DEF FailCreate, saleVars, SaleInv, SaleTypeOK

\* Recording a creator changes no order: it has one.
LEMMA RecordCreatorIs ==
  ASSUME SaleInv, ApprovalInv, Carted, NEW r \in Request, RecordCreator(r)
  PROVE  UNCHANGED orders /\ act[r].order \in Order /\ orders[act[r].order] # None
<1>1. act[r] # None /\ act[r].order \in Order /\ orders[act[r].order] # None
  BY ActFields DEF RecordCreator, Carted, ApprovalInv, SaleInv, CartsOK
<1> DEFINE o == act[r].order
<1>2. orders[o] \in OrderRow /\ orders[o].creator # None
  BY <1>1, SaleNone DEF SaleInv, SaleTypeOK, OrderRow
<1>3. orders' = [orders EXCEPT ![o].creator = orders[o].creator]
  BY <1>2 DEF RecordCreator, Creator
<1>4. [orders[o] EXCEPT !.creator = orders[o].creator] = orders[o]
  BY <1>2 DEF OrderRow
<1> QED
  BY <1>1, <1>3, <1>4 DEF SaleInv, SaleTypeOK

LEMMA RecordCreatorKeeps ==
  ASSUME SaleInv, ApprovalInv, Carted, NEW r \in Request, RecordCreator(r)
  PROVE  SaleInv'
<1> DEFINE c == cart[r]
           new == [c EXCEPT !.at = "approval"]
<1>1. c # None /\ c.at = "creator" /\ c \in Cart /\ CartOK(c)
  BY CartOf DEF RecordCreator, SaleInv, CartsOK
<1>2. cart' = [cart EXCEPT ![r] = new] /\ UNCHANGED <<act, products, prices>>
  BY <1>1 DEF RecordCreator, SaleInv, SaleTypeOK, approvalVars
<1> HIDE DEF c
<1>3. new \in Cart /\ new.at = "approval" /\ SameBut(c, new, {"at"})
  BY <1>1, CartFields DEF CartSteps
<1> HIDE DEF new
<1>4. CartOK(new) /\ new.basket = c.basket
  BY <1>1, <1>3 DEF CartOK, SameBut, OnTopOfPrices, Making
<1> QED
  BY <1>1, <1>2, <1>3, <1>4, RecordCreatorIs, WorkKeeps DEF c

\* Recording an approval changes an order's approver.
LEMMA RecordApprovalIs ==
  ASSUME SaleInv, ApprovalInv, Carted, NEW r \in Request, RecordApproval(r)
  PROVE  /\ orders' \in [Order -> OrderRow \union {None}]
         /\ OrdersSame
         /\ \A o \in Order : orders[o] # None =>
              [orders'[o] EXCEPT !.approver = None] = [orders[o] EXCEPT !.approver = None]
<1> DEFINE o == act[r].order
           who == approval[act[r].token].approver
           new == [orders[o] EXCEPT !.approver = who]
<1>1. CASE act[r].token = None
  BY <1>1 DEF RecordApproval, OrdersSame, SaleInv, SaleTypeOK
<1>2. CASE act[r].token # None
  <2>1. act[r] # None /\ o \in Order /\ orders[o] # None
    BY ActFields DEF RecordApproval, Carted, ApprovalInv, SaleInv, CartsOK
  <2>2. orders[o] \in OrderRow /\ orders \in [Order -> OrderRow \union {None}]
    BY <2>1 DEF SaleInv, SaleTypeOK
  <2>3. act[r].token \in Approval /\ approval[act[r].token] # None
    BY <1>2, <2>1, ActFields DEF ApprovalInv, Allowed
  <2>4. approval[act[r].token] \in ApprovalRow
    BY <2>3 DEF ApprovalInv, ApprovalTypeOK
  <2>5. who \in User
    <3> DEFINE flag == BOOLEAN
    <3>1. ApprovalRow = [cashier : User, approver : User, permission : Approvable,
                         order : Order \union {None}, scope : Refunds \union {None}, ends : Nat,
                         spent : flag]
      BY DEF ApprovalRow
    <3> HIDE DEF flag
    <3> QED
      BY <2>4, <3>1
  <2>6. orders' = [orders EXCEPT ![o] = new]
    BY <1>2, <2>1, <2>2 DEF RecordApproval
  <2> HIDE DEF who, o
  <2>7. /\ new \in OrderRow /\ new.creator = orders[o].creator /\ new.sums = orders[o].sums
        /\ [new EXCEPT !.approver = None] = [orders[o] EXCEPT !.approver = None]
    <3>1. /\ new \in OrderRow /\ new.creator = orders[o].creator /\ new.sums = orders[o].sums
          /\ new.store = orders[o].store
      BY <2>2, <2>5 DEF OrderRow
    <3>2. \A x \in OrderRow :
            [x EXCEPT !.approver = None]
              = [creator |-> x.creator, approver |-> None, store |-> x.store, sums |-> x.sums]
      BY DEF OrderRow
    <3> HIDE DEF new
    <3> QED
      BY <2>2, <3>1, <3>2
  <2>8. new # None
    BY <2>7, SaleNone
  <2> HIDE DEF new
  <2> QED
    BY <2>1, <2>2, <2>6, <2>7, <2>8 DEF OrdersSame
<1> QED
  BY <1>1, <1>2

LEMMA RecordApprovalKeeps ==
  ASSUME SaleInv, ApprovalInv, Carted, NEW r \in Request, RecordApproval(r)
  PROVE  SaleInv'
<1> DEFINE c == cart[r]
           new == [c EXCEPT !.at = "over"]
<1>1. c # None /\ c.at = "approval" /\ c \in Cart /\ CartOK(c) /\ act[r].kind = KindOf(c.basket)
  BY CartOf DEF RecordApproval, SaleInv, CartsOK
<1>2. cart' = [cart EXCEPT ![r] = new] /\ UNCHANGED <<act, products, prices>>
  BY <1>1 DEF RecordApproval, SaleInv, SaleTypeOK, approvalVars
<1> HIDE DEF c
<1>3. new \in Cart /\ new.at = "over" /\ SameBut(c, new, {"at"})
  BY <1>1, CartFields DEF CartSteps
<1> HIDE DEF new
<1>4. CartOK(new) /\ new.basket = c.basket
  BY <1>1, <1>3 DEF CartOK, SameBut, OnTopOfPrices, Making
<1> QED
  BY <1>1, <1>2, <1>3, <1>4, RecordApprovalIs, ActsUnchanged, WorkMoves

\* The transaction of a create makes its order, which was not there.
LEMMA CommitKeeps ==
  ASSUME SaleInv, ApprovalInv, Carted, NEW r \in Request, Commit(r)
  PROVE  SaleInv'
<1> DEFINE c == cart[r]
           o == act[r].order
           new == [c EXCEPT !.at = "creator"]
           row == [creator |-> act[r].user, approver |-> None, store |-> c.store, sums |-> c.sums]
<1>1. /\ c # None /\ c.at = "commit" /\ c \in Cart /\ CartOK(c)
      /\ act[r].kind = KindOf(c.basket)
  BY CartOf DEF Commit, At, SaleInv, CartsOK
<1>2. /\ act[r] # None /\ act[r].at = "ready" /\ o \in Order /\ act[r].user \in User
      /\ orders[o] = None
  BY ActFields DEF Commit, Perform, Fresh, ApprovalInv
<1>3. c.store \in Store /\ c.sums \in Sums
  BY <1>1, CartIs DEF CartOK, Making
<1>4. row \in OrderRow /\ row.creator = act[r].user /\ row.sums = c.sums
  BY <1>2, <1>3 DEF OrderRow
<1>5. row # None
  BY <1>4, SaleNone
<1>6. /\ cart' = [cart EXCEPT ![r] = new]
      /\ orders' = [orders EXCEPT ![o] = row]
      /\ UNCHANGED <<products, prices>>
  BY <1>1 DEF Commit, SaleInv, SaleTypeOK
<1>7. act' = [act EXCEPT ![r].at = "done"]
  BY DEF Commit, Perform
<1>8. /\ act'[r] # None /\ act'[r].at = "done"
      /\ act'[r].kind = act[r].kind /\ act'[r].order = o /\ act'[r].user = act[r].user
      /\ \A q \in Request : q # r => act'[q] = act[q]
  BY <1>2, <1>7, ActEnds
<1>9. Made(r)' /\ ~Made(r)
  BY <1>1, <1>2, <1>8 DEF Made, KindOf
<1>10. ASSUME NEW q \in Request, q # r
       PROVE  (Made(q)' <=> Made(q)) /\ act'[q] = act[q]
  BY <1>8, <1>10 DEF Made
<1>11. CartOK(c) /\ c.sums.total \in {c.sums.subtotal - c.sums.discount,
                                      c.sums.subtotal - c.sums.discount + c.sums.tax}
  BY <1>1, <1>3 DEF CartOK, OnTopOfPrices, Sums
<1>12. c.sums.discount > 0 => act[r].kind = "discount"
  BY <1>1 DEF CartOK, KindOf
<1> HIDE DEF c, row, o
<1>13. orders \in [Order -> OrderRow \union {None}] /\ cart \in [Request -> Cart \union {None}]
  BY DEF SaleInv, SaleTypeOK
<1>14. orders'[o] = row /\ \A p \in Order : p # o => orders'[p] = orders[p]
  BY <1>2, <1>6, <1>13
<1>15. new \in Cart /\ new.at = "creator" /\ SameBut(c, new, {"at"})
  BY <1>1, CartFields DEF CartSteps
<1> HIDE DEF new
<1>16. CartOK(new) /\ new.basket = c.basket
  BY <1>1, <1>15 DEF CartOK, SameBut, OnTopOfPrices, Making
<1>17. SaleTypeOK'
  BY <1>2, <1>4, <1>6, <1>13, <1>15 DEF SaleInv, SaleTypeOK
<1>18. CartsOK'
  <2>1. ASSUME NEW q \in Request, cart'[q] # None
        PROVE  /\ CartOK(cart'[q]) /\ act'[q].kind = KindOf(cart'[q].basket)
               /\ cart'[q].at \in {"creator", "approval"} => orders'[act'[q].order] # None
    <3>1. CASE q = r
      BY <1>1, <1>5, <1>6, <1>8, <1>13, <1>14, <1>16, <3>1
    <3>2. CASE q # r
      <4>1. cart'[q] = cart[q] /\ act'[q] = act[q]
        BY <1>6, <1>10, <1>13, <3>2
      <4>2. act[q].order \in Order
        BY <2>1, <4>1, ActFields DEF Carted, ApprovalInv
      <4> QED
        BY <1>5, <1>14, <2>1, <4>1, <4>2 DEF SaleInv, CartsOK
    <3> QED
      BY <3>1, <3>2
  <2> QED
    BY <2>1 DEF CartsOK, CartOK, KindOf, HasDiscount, OnTopOfPrices
<1>19. ASSUME NEW q \in Request, Made(q)
       PROVE  /\ act[q].order \in Order /\ act[q].order # o /\ q # r
              /\ orders[act[q].order] # None
  BY <1>2, <1>9, <1>19, ActFields DEF SaleInv, OrdersMade, Made, ApprovalInv
<1>20. OrdersMade'
  <2>1. ASSUME NEW q \in Request, Made(q)' PROVE orders'[act'[q].order] # None
    <3>1. CASE q = r
      BY <1>5, <1>8, <1>14, <3>1
    <3>2. CASE q # r
      BY <1>10, <1>14, <1>19, <2>1, <3>2
    <3> QED
      BY <3>1, <3>2
  <2>2. ASSUME NEW p \in Request, NEW q \in Request, Made(p)', Made(q)',
               act'[p].order = act'[q].order
        PROVE  p = q
    <3>1. CASE p = r /\ q # r
      BY <1>8, <1>10, <1>19, <2>2, <3>1
    <3>2. CASE p # r /\ q = r
      BY <1>8, <1>10, <1>19, <2>2, <3>2
    <3>3. CASE p # r /\ q # r
      BY <1>10, <2>2, <3>3 DEF SaleInv, OrdersMade
    <3> QED
      BY <3>1, <3>2, <3>3
  <2>3. ASSUME NEW p \in Order, orders'[p] # None
        PROVE  \E q \in Request :
                 /\ Made(q)' /\ act'[q].order = p /\ act'[q].user = orders'[p].creator
                 /\ orders'[p].sums.discount > 0 => act'[q].kind = "discount"
    <3>1. CASE p = o
      BY <1>4, <1>8, <1>9, <1>12, <1>14, <3>1
    <3>2. CASE p # o
      <4>1. PICK q \in Request :
              /\ Made(q) /\ act[q].order = p /\ act[q].user = orders[p].creator
              /\ orders[p].sums.discount > 0 => act[q].kind = "discount"
        BY <1>14, <2>3, <3>2 DEF SaleInv, OrdersMade
      <4> QED
        BY <1>10, <1>14, <1>19, <3>2, <4>1
    <3> QED
      BY <3>1, <3>2
  <2> QED
    BY <2>1, <2>2, <2>3 DEF OrdersMade
<1>21. OrdersAddUp'
  BY <1>4, <1>11, <1>14 DEF SaleInv, OrdersAddUp
<1> QED
  BY <1>17, <1>18, <1>20, <1>21 DEF SaleInv

LEMMA SaleKept ==
  ASSUME SaleInv, CounterInv, CounterInv', ConfigTypeOK, Next
  PROVE  SaleInv'
<1> USE DEF CounterInv
<1>1. CASE AuthNext /\ UNCHANGED <<approvalVars, configVars, saleVars>>
  BY <1>1, ActsUnchanged, ElsewhereKeeps DEF approvalVars, saleVars, SaleInv, SaleTypeOK
<1>2. CASE ApprovalNext /\ UNCHANGED <<configVars, saleVars>>
  BY <1>2, ApprovalsMakeNoOrder, ElsewhereKeeps DEF saleVars, SaleInv, SaleTypeOK
<1>3. CASE ConfigNext /\ UNCHANGED <<authVars, approvalVars, saleVars>>
  BY <1>3, ActsUnchanged, ElsewhereKeeps DEF approvalVars, saleVars, SaleInv, SaleTypeOK
<1>4. ASSUME NEW p \in Product, NEW row \in ProductInput, ChangeProduct(p, row)
      PROVE  SaleInv'
  <2>1. row \in ProductRow
    BY CheckoutAssumption
  <2>2. products' \in [Product -> ProductRow \union {None}]
    BY <1>4, <2>1 DEF ChangeProduct, SaleInv, SaleTypeOK
  <2> QED
    BY <1>4, <2>2, ActsUnchanged, ElsewhereKeeps
       DEF ChangeProduct, approvalVars, SaleInv, SaleTypeOK
<1>5. ASSUME NEW p \in Product, NEW amount \in PriceInput, ChangePrice(p, amount)
      PROVE  SaleInv'
  <2>1. amount \in Nat \union {None}
    BY CheckoutAssumption
  <2>2. prices' \in [Product -> Nat \union {None}]
    BY <1>5, <2>1 DEF ChangePrice, SaleInv, SaleTypeOK
  <2> QED
    BY <1>5, <2>2, ActsUnchanged, ElsewhereKeeps
       DEF ChangePrice, approvalVars, SaleInv, SaleTypeOK
<1>6. ASSUME NEW r \in Request, Create(r)
      PROVE  SaleInv'
  BY <1>6, LookUpKeeps, ReadProductKeeps, ReadPriceKeeps, ReadSettingKeeps, BuildLineKeeps,
     CommitKeeps, FailCreateKeeps, RecordCreatorKeeps, RecordApprovalKeeps DEF Create
<1> QED
  BY <1>1, <1>2, <1>3, <1>4, <1>5, <1>6, SubmitKeeps DEF Next

-----------------------------------------------------------------------------
(* The configuration                                                       *)

LEMMA ConfigInitially ==
  ASSUME ConfigInit
  PROVE  ConfigTypeOK
BY ConfigAssumption DEF ConfigInit, ConfigTypeOK, Resting, Refresh, Stored

LEMMA ConfigKept ==
  ASSUME ConfigTypeOK, ConfigNext \/ UNCHANGED configVars
  PROVE  ConfigTypeOK'
<1> USE DEF Stored
<1>1. MaxPublish \in Nat /\ MaxConfigFaults \in Nat
  BY ConfigAssumption
<1>2. ASSUME NEW c \in Config, Publish(c) PROVE ConfigTypeOK'
  BY <1>1, <1>2 DEF Publish, ConfigTypeOK
<1>3. ASSUME NEW r \in Refresher PROVE refresh[r] \in Refresh
  BY <1>3 DEF ConfigTypeOK
<1>4. ASSUME NEW r \in Refresher, StartRefresh(r) PROVE ConfigTypeOK'
  <2> DEFINE begun == [Resting EXCEPT !.at = "asked"]
             new == [Resting EXCEPT !.at = "asked", !.etag = CurrentETag]
  <2>1. begun \in Refresh
    BY DEF Resting, Refresh
  <2>2. CurrentETag \in Stored
    BY DEF CurrentETag, ConfigTypeOK
  <2>3. new = [begun EXCEPT !.etag = CurrentETag]
    BY ZenonT(20)
  <2>4. /\ refresh' = [refresh EXCEPT ![r] = new]
        /\ UNCHANGED <<central, snapshot, lastEtag, publishes, configFaults>>
    BY <1>4 DEF StartRefresh
  <2> HIDE DEF begun
  <2>5. new \in Refresh
    BY <2>1, <2>2, <2>3 DEF Refresh
  <2> HIDE DEF new
  <2> QED
    BY <2>4, <2>5 DEF ConfigTypeOK
<1>5. ASSUME NEW r \in Refresher, Answer(r) PROVE ConfigTypeOK'
  BY <1>5, <1>3 DEF Answer, ConfigTypeOK, Refresh
<1>6. ASSUME NEW r \in Refresher, Save(r) PROVE ConfigTypeOK'
  BY <1>6, <1>3 DEF Save, ConfigTypeOK, Refresh
<1>7. ASSUME NEW r \in Refresher, RecordSuccess(r) PROVE ConfigTypeOK'
  BY <1>7, <1>3 DEF RecordSuccess, ConfigTypeOK, Refresh, Resting
<1>8. ASSUME NEW r \in Refresher, FailRefresh(r) PROVE ConfigTypeOK'
  BY <1>8, <1>3, <1>1 DEF FailRefresh, ConfigTypeOK, Refresh, Resting
<1>9. CASE UNCHANGED configVars
  BY <1>9 DEF configVars, ConfigTypeOK
<1> QED
  BY <1>2, <1>4, <1>5, <1>6, <1>7, <1>8, <1>9 DEF ConfigNext, Proceed

-----------------------------------------------------------------------------
(* The theorems                                                            *)

CheckoutInv == CounterInv /\ ConfigTypeOK /\ SaleInv

LEMMA StepsOfConfig ==
  ASSUME Next
  PROVE  ConfigNext \/ UNCHANGED configVars
BY DEF Next, ChangeProduct, ChangePrice, Submit, Create, LookUp, ReadProduct, ReadPrice, ReadSetting,
   BuildLine, Commit, FailCreate, RecordCreator, RecordApproval

LEMMA CheckoutKept ==
  ASSUME CheckoutInv, [Next]_vars
  PROVE  CheckoutInv'
<1>1. CounterInv'
  BY CounterKept DEF CheckoutInv
<1>2. CASE Next
  BY <1>1, <1>2, SaleKept, ConfigKept, StepsOfConfig DEF CheckoutInv
<1>3. CASE UNCHANGED vars
  <2>1. UNCHANGED <<approvalVars, configVars, saleVars>>
    BY <1>3 DEF vars
  <2>2. SaleInv'
    BY <2>1, ActsUnchanged, ElsewhereKeeps
       DEF CheckoutInv, CounterInv, approvalVars, saleVars, SaleInv, SaleTypeOK
  <2> QED
    BY <1>1, <2>1, <2>2, ConfigKept DEF CheckoutInv
<1> QED
  BY <1>2, <1>3

THEOREM CheckoutInvariant == Spec => []CheckoutInv
<1>1. ASSUME Init PROVE CheckoutInv
  <2>1. CounterInv
    BY <1>1, AuthInitially, ApprovalInitially DEF Init, CounterInv, Carted
  <2>2. SaleTypeOK
    BY <1>1 DEF Init, SaleTypeOK
  <2>3. CartsOK /\ OrdersMade /\ OrdersAddUp
    BY <1>1 DEF Init, ApprovalInit, CartsOK, OrdersMade, OrdersAddUp, Made
  <2> QED
    BY <1>1, <2>1, <2>2, <2>3, ConfigInitially DEF Init, CheckoutInv, SaleInv
<1> QED
  BY <1>1, CheckoutKept, PTL DEF Spec

\* Every variable keeps to its type: what a create reads of a product, of a
\* price and of any configuration makes sums that are amounts.
THEOREM TypesKept == Spec => []TypeOK
<1>1. CheckoutInv => TypeOK
  BY DEF CheckoutInv, CounterInv, AuthInv, ApprovalInv, SaleInv, SaleTypeOK, TypeOK
<1> QED
  BY <1>1, CheckoutInvariant, PTL

\* The sums of every order add up, whatever the configuration becomes while
\* the order is priced.
THEOREM OrdersAlwaysAddUp == Spec => []OrdersAddUp
<1>1. CheckoutInv => OrdersAddUp
  BY DEF CheckoutInv, SaleInv
<1> QED
  BY <1>1, CheckoutInvariant, PTL

\* An order is made by one create, its creator's, however many requests carry
\* its id.
THEOREM OrdersMadeOnce == Spec => []CreatedOnce
<1>1. ASSUME CheckoutInv PROVE CreatedOnce
  <2> USE DEF CheckoutInv, SaleInv
  <2>1. ASSUME NEW o \in Order, NEW q \in Request, NEW r \in Request, Made(q), Made(r),
               act[q].order = o, act[r].order = o
        PROVE  q = r
    BY <1>1, <2>1 DEF OrdersMade
  <2>2. ASSUME NEW o \in Order, orders[o] # None
        PROVE  \E r \in Request :
                 /\ Made(r) /\ act[r].order = o /\ act[r].user = orders[o].creator
                 /\ orders[o].sums.discount > 0 => act[r].kind = "discount"
    BY <1>1, <2>2 DEF OrdersMade
  <2> QED
    BY <2>1, <2>2 DEF CreatedOnce, Made
<1> QED
  BY <1>1, CheckoutInvariant, PTL

\* An order stays as it was made, but for the approver noted last.
THEOREM OrdersKeptAsMade == Spec => OrderIsKept
<1> DEFINE Kept == \A o \in Order : orders[o] # None =>
                     [orders'[o] EXCEPT !.approver = None] = [orders[o] EXCEPT !.approver = None]
<1>1. ASSUME CheckoutInv, [Next]_vars PROVE Kept
  <2> USE DEF CheckoutInv, CounterInv
  <2>1. CASE UNCHANGED orders
    BY <2>1
  <2>2. ASSUME NEW r \in Request, Commit(r) PROVE Kept
    <3>1. \A o \in Order : orders[o] # None => orders'[o] = orders[o]
      BY <1>1, <2>2 DEF Commit, Fresh, SaleInv, SaleTypeOK
    <3> QED
      BY <3>1
  <2>3. ASSUME NEW r \in Request, RecordCreator(r) PROVE UNCHANGED orders
    BY <1>1, <2>3, RecordCreatorIs
  <2>4. ASSUME NEW r \in Request, RecordApproval(r) PROVE Kept
    BY <1>1, <2>4, RecordApprovalIs
  <2>5. CASE UNCHANGED vars
    BY <2>1, <2>5 DEF vars, saleVars
  <2> QED
    BY <1>1, <2>1, <2>2, <2>3, <2>4, <2>5
       DEF Next, saleVars, ChangeProduct, ChangePrice, Submit, Create, LookUp, ReadProduct, ReadPrice,
           ReadSetting, BuildLine, FailCreate
<1> QED
  BY <1>1, CheckoutInvariant, PTL DEF Spec, OrderIsKept

=============================================================================
