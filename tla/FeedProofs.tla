----------------------------- MODULE FeedProofs -----------------------------
(***************************************************************************)
(* Proofs about ChangeFeed, for every log of Central, every size of page,  *)
(* and any number of faults and restores: the types and references of the  *)
(* tables, that the cursor stays behind what is applied, that the feed     *)
(* implements FeedContract, that every local edit is sent, that the newest *)
(* fact about a product wins, and which changes can replace a local edit.  *)
(***************************************************************************)
EXTENDS ChangeFeed, FiniteSetTheorems, TLAPS

-----------------------------------------------------------------------------
(* The effect of one change on the catalog                                 *)

LEMMA CategoryEffect ==
  ASSUME NEW cat \in Catalogs, NEW x \in CatalogChange, x.type = "category"
  PROVE  /\ UpsertCategory(cat, x) \in Catalogs
         /\ Referential(cat) /\ ReferencesHold(cat, x) => Referential(UpsertCategory(cat, x))
<1> DEFINE row == [version |-> x.version, active |-> x.active, parent |-> x.parent]
           new == [cat EXCEPT !.category[x.id] = row]
<1>1. row \in CategoryRow /\ x.id \in Category
  BY DEF CatalogChange, CategoryRow
<1>2. /\ new \in Catalogs
      /\ new.category = [cat.category EXCEPT ![x.id] = row]
      /\ new.product = cat.product /\ new.price = cat.price /\ new.barcode = cat.barcode
  BY <1>1 DEF Catalogs, Table
<1>3. row # None
  BY <1>1, ProjectionAssumption
<1>4. ASSUME Referential(cat), ReferencesHold(cat, x), NotOlder(cat.category[x.id], x.version)
      PROVE  Referential(new)
  <2>1. x.parent # None => x.parent = x.id \/ cat.category[x.parent] # None
    BY <1>4 DEF ReferencesHold
  <2>2. \A c \in Category : cat.category[c] # None => new.category[c] # None
    BY <1>1, <1>2, <1>3 DEF Catalogs, Table
  <2>3. new.category[x.id] = row /\ \A c \in Category \ {x.id} : new.category[c] = cat.category[c]
    BY <1>1, <1>2 DEF Catalogs, Table
  <2> HIDE DEF new
  <2>4. ASSUME NEW c \in Category, new.category[c] # None, new.category[c].parent # None
        PROVE  new.category[new.category[c].parent] # None
    <3>1. CASE c = x.id
      <4>1. x.parent \in Category
        BY <2>3, <2>4, <3>1 DEF CatalogChange
      <4>2. QED
        BY <1>3, <2>1, <2>2, <2>3, <2>4, <3>1, <4>1
    <3>2. CASE c # x.id
      <4>1. cat.category[c].parent \in Category
        BY <2>3, <2>4, <3>2 DEF Catalogs, Table, CategoryRow
      <4>2. QED
        BY <1>4, <2>2, <2>3, <2>4, <3>2, <4>1 DEF Referential
    <3>3. QED
      BY <3>1, <3>2
  <2>5. ASSUME NEW p \in Product, new.product[p] # None, new.product[p].category # None
        PROVE  new.category[new.product[p].category] # None
    <3>1. cat.product[p].category \in Category
      BY <1>2, <2>5 DEF Catalogs, Table, ProductRow
    <3>2. QED
      BY <1>2, <1>4, <2>2, <2>5, <3>1 DEF Referential
  <2>6. QED
    BY <1>2, <1>4, <2>4, <2>5 DEF Referential
<1>5. QED
  BY <1>2, <1>4 DEF UpsertCategory

LEMMA SnapshotEffect ==
  ASSUME NEW cat \in Catalogs, NEW x \in CatalogChange, x.type = "categories"
  PROVE  /\ ApplyCategorySnapshot(cat, x) \in Catalogs
         /\ Referential(cat) => Referential(ApplyCategorySnapshot(cat, x))
<1> DEFINE new == ApplyCategorySnapshot(cat, x)
<1>1. x.version \in Nat
  BY DEF CatalogChange
<1>2. /\ new.product = cat.product /\ new.price = cat.price /\ new.barcode = cat.barcode
      /\ DOMAIN new = DOMAIN cat
      /\ DOMAIN new.category = Category
  BY DEF ApplyCategorySnapshot, Catalogs
<1>3. ASSUME NEW c \in Category
      PROVE  /\ new.category[c] \in CategoryRow \union {None}
             /\ cat.category[c] # None => new.category[c] # None
                                          /\ new.category[c].parent = cat.category[c].parent
             /\ cat.category[c] = None /\ new.category[c] # None => new.category[c].parent = None
  <2> DEFINE row == cat.category[c]
             Par == IF row = None THEN None ELSE row.parent
             listed == [version |-> x.version, active |-> TRUE, parent |-> Par]
             other  == [version |-> x.version, active |-> FALSE, parent |-> row.parent]
  <2>1. row \in CategoryRow \union {None}
    BY DEF Catalogs, Table
  <2>2. new.category[c] = IF ~NotOlder(row, x.version) THEN row
                          ELSE IF c \in x.listed THEN listed
                          ELSE IF row = None THEN None ELSE other
    BY DEF ApplyCategorySnapshot, Catalogs
  <2>3. Par \in Category \union {None}
    BY <2>1 DEF CategoryRow
  <2>4. None \notin CategoryRow
    BY ProjectionAssumption
  <2>5. listed \in CategoryRow
    BY <1>1, <2>3 DEF CategoryRow
  <2>6. ASSUME row # None PROVE other \in CategoryRow
    BY <1>1, <2>1, <2>6 DEF CategoryRow
  <2>7. listed \in CategoryRow /\ listed # None
    BY <2>4, <2>5
  <2>8. row # None => other \in CategoryRow /\ other # None
    BY <2>4, <2>6
  <2> HIDE DEF new
  <2>9. QED
    BY <2>1, <2>2, <2>7, <2>8 DEF NotOlder
<1>4. new \in Catalogs
  <2>1. new.category \in Table(Category, CategoryRow)
    <3>1. new.category = [c \in Category |-> new.category[c]]
      BY DEF ApplyCategorySnapshot, Catalogs
    <3> HIDE DEF new
    <3>2. QED
      BY <1>3, <3>1 DEF Table
  <2>2. new = [cat EXCEPT !.category = new.category]
    BY DEF ApplyCategorySnapshot, Catalogs
  <2> HIDE DEF new
  <2>3. QED
    BY <2>1, <2>2 DEF Catalogs
<1> HIDE DEF new
<1>5. ASSUME Referential(cat) PROVE Referential(new)
  <2>1. ASSUME NEW c \in Category, new.category[c] # None, new.category[c].parent # None
        PROVE  new.category[new.category[c].parent] # None
    <3>1. cat.category[c] # None /\ new.category[c].parent = cat.category[c].parent
      BY <1>3, <2>1
    <3>2. cat.category[c].parent \in Category
      BY <2>1, <3>1 DEF Catalogs, Table, CategoryRow
    <3>3. QED
      BY <1>3, <1>5, <2>1, <3>1, <3>2 DEF Referential
  <2>2. ASSUME NEW p \in Product, new.product[p] # None, new.product[p].category # None
        PROVE  new.category[new.product[p].category] # None
    <3>1. cat.product[p].category \in Category
      BY <1>2, <2>2 DEF Catalogs, Table, ProductRow
    <3>2. QED
      BY <1>2, <1>3, <1>5, <2>2, <3>1 DEF Referential
  <2>3. QED
    BY <1>2, <1>5, <2>1, <2>2 DEF Referential
<1>6. QED
  BY <1>4, <1>5 DEF new

LEMMA ProductEffect ==
  ASSUME NEW cat \in Catalogs, NEW x \in CatalogChange, x.type = "product"
  PROVE  /\ UpsertProduct(cat, x) \in Catalogs
         /\ Referential(cat) /\ ReferencesHold(cat, x) => Referential(UpsertProduct(cat, x))
<1> DEFINE row == [version |-> x.version, active |-> x.active, category |-> x.category]
           new == [cat EXCEPT !.product[x.id] = row]
<1>1. row \in ProductRow /\ x.id \in Product
  BY DEF CatalogChange, ProductRow
<1>2. /\ new \in Catalogs
      /\ new.product = [cat.product EXCEPT ![x.id] = row]
      /\ new.category = cat.category /\ new.price = cat.price /\ new.barcode = cat.barcode
  BY <1>1 DEF Catalogs, Table
<1>3. row # None
  BY <1>1, ProjectionAssumption
<1>4. ASSUME Referential(cat), ReferencesHold(cat, x), NotOlder(cat.product[x.id], x.version)
      PROVE  Referential(new)
  <2>1. x.category # None => cat.category[x.category] # None
    BY <1>4 DEF ReferencesHold
  <2>2. new.product[x.id] = row /\ \A p \in Product \ {x.id} : new.product[p] = cat.product[p]
    BY <1>1, <1>2 DEF Catalogs, Table
  <2>3. \A p \in Product : cat.product[p] # None => new.product[p] # None
    BY <1>3, <2>2
  <2> HIDE DEF new
  <2>4. ASSUME NEW p \in Product, new.product[p] # None, new.product[p].category # None
        PROVE  new.category[new.product[p].category] # None
    BY <1>2, <1>4, <2>1, <2>2, <2>4 DEF Referential
  <2>5. ASSUME NEW q \in Price, new.price[q] # None
        PROVE  new.product[new.price[q].product] # None
    <3>1. cat.price[q].product \in Product
      BY <1>2, <2>5 DEF Catalogs, Table, PriceRow
    <3>2. QED
      BY <1>2, <1>4, <2>3, <2>5, <3>1 DEF Referential
  <2>6. ASSUME NEW b \in Barcode, new.barcode[b] # None
        PROVE  new.product[new.barcode[b].product] # None
    <3>1. cat.barcode[b].product \in Product
      BY <1>2, <2>6 DEF Catalogs, Table, BarcodeRow
    <3>2. QED
      BY <1>2, <1>4, <2>3, <2>6, <3>1 DEF Referential
  <2>7. QED
    BY <1>2, <1>4, <2>4, <2>5, <2>6 DEF Referential
<1>5. QED
  BY <1>2, <1>4 DEF UpsertProduct

LEMMA RemoveEffect ==
  ASSUME NEW cat \in Catalogs, NEW x \in CatalogChange, x.type = "remove"
  PROVE  /\ RemoveProduct(cat, x) \in Catalogs
         /\ Referential(cat) => Referential(RemoveProduct(cat, x))
<1> DEFINE old == cat.product[x.id]
           row == [version |-> x.version, active |-> FALSE, category |-> old.category]
           Kept(r) == IF r # None /\ r.product = x.id THEN None ELSE r
           new == [cat EXCEPT !.product[x.id] = row,
                              !.price = [q \in Price |-> Kept(cat.price[q])],
                              !.barcode = [b \in Barcode |-> Kept(cat.barcode[b])]]
<1>1. x.id \in Product /\ x.version \in Nat
  BY DEF CatalogChange
<1>2. old \in ProductRow \union {None}
  BY <1>1 DEF Catalogs, Table
<1>3. ASSUME old # None PROVE row \in ProductRow
  BY <1>1, <1>2, <1>3 DEF ProductRow
<1>4. /\ new.product = [cat.product EXCEPT ![x.id] = row] /\ new.category = cat.category
      /\ new.price = [q \in Price |-> Kept(cat.price[q])]
      /\ new.barcode = [b \in Barcode |-> Kept(cat.barcode[b])]
  BY DEF Catalogs
<1>5. ASSUME old # None PROVE new \in Catalogs
  <2>1. new.product \in Table(Product, ProductRow)
    BY <1>1, <1>3, <1>4, <1>5 DEF Catalogs, Table
  <2>2. new.price \in Table(Price, PriceRow) /\ new.barcode \in Table(Barcode, BarcodeRow)
    BY <1>4 DEF Catalogs, Table
  <2>3. new = [cat EXCEPT !.product = new.product, !.price = new.price, !.barcode = new.barcode]
    BY DEF Catalogs
  <2> HIDE DEF new
  <2>4. QED
    BY <2>1, <2>2, <2>3 DEF Catalogs
<1>6. ASSUME Referential(cat), old # None PROVE Referential(new)
  <2>1. row # None
    BY <1>3, <1>6, ProjectionAssumption
  <2>2. new.product[x.id] = row /\ \A p \in Product \ {x.id} : new.product[p] = cat.product[p]
    BY <1>1, <1>4 DEF Catalogs, Table
  <2> HIDE DEF new
  <2>3. ASSUME NEW p \in Product, new.product[p] # None, new.product[p].category # None
        PROVE  new.category[new.product[p].category] # None
    BY <1>1, <1>4, <1>6, <2>2, <2>3 DEF Referential
  <2>4. ASSUME NEW q \in Price, new.price[q] # None
        PROVE  new.product[new.price[q].product] # None
    <3>1. new.price[q] = cat.price[q]
      BY <1>4, <2>4
    <3>2. cat.price[q].product \in Product
      BY <2>4, <3>1 DEF Catalogs, Table, PriceRow
    <3>3. QED
      BY <1>6, <2>1, <2>2, <2>4, <3>1, <3>2 DEF Referential
  <2>5. ASSUME NEW b \in Barcode, new.barcode[b] # None
        PROVE  new.product[new.barcode[b].product] # None
    <3>1. new.barcode[b] = cat.barcode[b]
      BY <1>4, <2>5
    <3>2. cat.barcode[b].product \in Product
      BY <2>5, <3>1 DEF Catalogs, Table, BarcodeRow
    <3>3. QED
      BY <1>6, <2>1, <2>2, <2>5, <3>1, <3>2 DEF Referential
  <2>6. QED
    BY <1>4, <1>6, <2>3, <2>4, <2>5 DEF Referential
<1>7. QED
  BY <1>5, <1>6 DEF RemoveProduct

LEMMA PriceEffect ==
  ASSUME NEW cat \in Catalogs, NEW x \in CatalogChange, x.type = "price"
  PROVE  /\ UpsertPrice(cat, x) \in Catalogs
         /\ Referential(cat) /\ ReferencesHold(cat, x) => Referential(UpsertPrice(cat, x))
<1> DEFINE row == [version |-> x.version, product |-> x.product]
           new == [cat EXCEPT !.price[x.id] = row]
<1>1. row \in PriceRow /\ x.id \in Price
  BY DEF CatalogChange, PriceRow
<1>2. /\ new \in Catalogs
      /\ new.price = [cat.price EXCEPT ![x.id] = row]
      /\ new.category = cat.category /\ new.product = cat.product /\ new.barcode = cat.barcode
  BY <1>1 DEF Catalogs, Table
<1>3. ASSUME Referential(cat), ReferencesHold(cat, x), NotOlder(cat.price[x.id], x.version)
      PROVE  Referential(new)
  <2>1. cat.product[x.product] # None
    BY <1>3 DEF ReferencesHold
  <2>2. new.price[x.id] = row /\ \A q \in Price \ {x.id} : new.price[q] = cat.price[q]
    BY <1>1, <1>2 DEF Catalogs, Table
  <2> HIDE DEF new
  <2>3. \A q \in Price : new.price[q] # None => new.product[new.price[q].product] # None
    BY <1>2, <1>3, <2>1, <2>2 DEF Referential
  <2>4. QED
    BY <1>2, <1>3, <2>3 DEF Referential
<1>4. QED
  BY <1>2, <1>3 DEF UpsertPrice

LEMMA BarcodeEffect ==
  ASSUME NEW cat \in Catalogs, NEW x \in CatalogChange, x.type = "barcode"
  PROVE  /\ UpsertBarcode(cat, x) \in Catalogs
         /\ Referential(cat) /\ ReferencesHold(cat, x) => Referential(UpsertBarcode(cat, x))
<1> DEFINE row == [product |-> x.product, primary |-> x.primary]
           new == UpsertBarcode(cat, x)
<1>1. row \in BarcodeRow
  BY DEF CatalogChange, BarcodeRow
<1>2. /\ new.category = cat.category /\ new.product = cat.product /\ new.price = cat.price
      /\ DOMAIN new.barcode = Barcode
      /\ new = [cat EXCEPT !.barcode = new.barcode]
      /\ new.barcode = [b \in Barcode |-> new.barcode[b]]
  BY DEF UpsertBarcode, Catalogs
<1>3. \A b \in Barcode : new.barcode[b] \in {row, None, cat.barcode[b]}
  BY DEF UpsertBarcode, Catalogs
<1> HIDE DEF new
<1>4. new \in Catalogs
  <2>1. new.barcode \in Table(Barcode, BarcodeRow)
    BY <1>1, <1>2, <1>3 DEF Catalogs, Table
  <2>2. QED
    BY <1>2, <2>1 DEF Catalogs
<1>5. ASSUME Referential(cat), ReferencesHold(cat, x) PROVE Referential(new)
  <2>1. cat.product[x.product] # None
    BY <1>5 DEF ReferencesHold
  <2>2. \A b \in Barcode : new.barcode[b] # None => new.product[new.barcode[b].product] # None
    BY <1>2, <1>3, <1>5, <2>1 DEF Referential
  <2>3. QED
    BY <1>2, <1>5, <2>2 DEF Referential
<1>6. QED
  BY <1>4, <1>5 DEF new

\* Whatever change comes in whatever order, the catalog keeps its types, and a
\* change the foreign keys let through leaves every row referring to rows that
\* are there.
LEMMA EffectKeeps ==
  ASSUME NEW cat \in Catalogs, NEW x \in CatalogChange
  PROVE  /\ Effect(cat, x) \in Catalogs
         /\ Referential(cat) /\ Accepts(cat, x) => Referential(Effect(cat, x))
<1>1. x.type \in {"category", "categories", "product", "remove", "price", "barcode", "invalid"}
  BY DEF CatalogChange
<1>2. QED
  BY <1>1, CategoryEffect, SnapshotEffect, ProductEffect, RemoveEffect, PriceEffect,
     BarcodeEffect DEF Effect, Accepts

-----------------------------------------------------------------------------
(* The customers                                                           *)

LEMMA CustomerEffect ==
  ASSUME customer \in Table(Customer, CustomerRow), NEW x \in CustomerChange
  PROVE  UpsertCustomer(x) \in Table(Customer, CustomerRow)
<1> DEFINE t == Target(x)
           row == [version |-> KeptVersion(customer[t]), state |-> "synced", phone |-> x.phone]
<1>1. x.id \in Customer /\ x.phone \in Phone \union {None}
      /\ x.mapped \subseteq Customer \X (Nat \ {0})
  BY DEF CustomerChange
<1>2. t \in Customer
  <2>1. CASE Known(x) = {}
    BY <1>1, <2>1 DEF Target
  <2>2. CASE Known(x) # {}
    <3>1. (CHOOSE m \in Known(x) : TRUE) \in Known(x)
      BY <2>2
    <3>2. QED
      BY <1>1, <2>2, <3>1 DEF Known, Target
  <2>3. QED
    BY <2>1, <2>2
<1> HIDE DEF t
<1>3. customer[t] \in CustomerRow \union {None}
  BY <1>2 DEF Table
<1>4. row \in CustomerRow
  BY <1>1, <1>3 DEF KeptVersion, CustomerRow
<1>5. ASSUME Conflicting(x)
      PROVE  [customer[t] EXCEPT !.state = "conflict"] \in CustomerRow
  <2>1. t = x.id
    BY <1>5 DEF Conflicting, Known, Target, t
  <2>2. QED
    BY <1>3, <1>5, <2>1 DEF Conflicting, CustomerRow
<1>6. [customer EXCEPT ![t] = row] \in Table(Customer, CustomerRow)
  BY <1>2, <1>4 DEF Table
<1>7. Conflicting(x) => [customer EXCEPT ![t].state = "conflict"] \in Table(Customer, CustomerRow)
  <2> DEFINE r == [customer[t] EXCEPT !.state = "conflict"]
  <2>1. Conflicting(x) => r \in CustomerRow
    BY <1>5
  <2>2. [customer EXCEPT ![t].state = "conflict"] = [customer EXCEPT ![t] = r]
    OBVIOUS
  <2> HIDE DEF r
  <2>3. QED
    BY <1>2, <2>1, <2>2 DEF Table
<1>8. QED
  BY <1>6, <1>7 DEF UpsertCustomer, t

-----------------------------------------------------------------------------
(* The inductive invariant                                                 *)

\* A database file whose inbox holds a prefix of a log of len changes, one that
\* reaches at least to the cursor.
FileOK(len, cu, ib, ca, st, cs, se, ed) ==
  /\ cu \in Nat
  /\ \E n \in Nat : ib = 1..n /\ cu <= n /\ n <= len
  /\ ca \in Catalogs /\ Referential(ca)
  /\ st \in Table(Product, StockRow)
  /\ cs \in Table(Customer, CustomerRow)
  /\ se \subseteq Customer \X Nat
  /\ ed \in [Customer -> Nat]

\* In a page the cursor is where it was when the page was asked for, and what
\* is behind the next change has been applied.
PageOK ==
  /\ at \in {"idle", "ask", "apply"}
  /\ from \in Nat /\ next \in Nat \ {0} /\ upto \in Nat /\ more \in BOOLEAN /\ pages \in Nat
  /\ at = "apply" =>
       from = cursor /\ next > from /\ upto <= Len(feed) /\ 1..(next - 1) \subseteq inbox

LogOK == feed \in Seq(Change) /\ heard \subseteq Customer \X Nat

StoreOK == FileOK(Len(feed), cursor, inbox, catalog, stock, customer, sent, edits)

SavedOK ==
  saved # <<>> =>
    LET f == saved[1] IN FileOK(Len(feed), f[1], f[2], f[3], f[4], f[5], f[6], f[7])

FeedInv == LogOK /\ StoreOK /\ SavedOK /\ PageOK

LEMMA LongerLog ==
  ASSUME NEW len \in Nat, NEW cu, NEW ib, NEW ca, NEW st, NEW cs, NEW se, NEW ed,
         FileOK(len, cu, ib, ca, st, cs, se, ed)
  PROVE  FileOK(len + 1, cu, ib, ca, st, cs, se, ed)
<1>1. PICK n \in Nat : ib = 1..n /\ cu <= n /\ n <= len
  BY DEF FileOK
<1>2. n <= len + 1
  BY <1>1
<1>3. QED
  BY <1>1, <1>2 DEF FileOK

LEMMA EmptyStart == Init => FeedInv
<1> SUFFICES ASSUME Init PROVE FeedInv
  OBVIOUS
<1>1. EmptyCatalog \in Catalogs /\ Referential(EmptyCatalog)
  BY DEF EmptyCatalog, Catalogs, Table, Referential
<1>2. Len(feed) = 0 /\ feed \in Seq(Change)
  BY DEF Init
<1>3. \E n \in Nat : inbox = 1..n /\ cursor <= n /\ n <= Len(feed)
  <2>1. inbox = 1..0 /\ cursor <= 0
    BY DEF Init
  <2>2. QED
    BY <1>2, <2>1
<1>4. /\ cursor \in Nat /\ sent \subseteq Customer \X Nat /\ edits \in [Customer -> Nat]
      /\ stock \in Table(Product, StockRow) /\ customer \in Table(Customer, CustomerRow)
      /\ catalog = EmptyCatalog /\ heard \subseteq Customer \X Nat /\ saved = <<>>
  BY DEF Init, Table
<1>5. PageOK
  <2>1. more \in BOOLEAN
    BY DEF Init
  <2>2. at = "idle" /\ from = 0 /\ next = 1 /\ upto = 0 /\ pages = 0
    BY DEF Init
  <2>3. QED
    BY <2>1, <2>2 DEF PageOK
<1>6. QED
  BY <1>1, <1>2, <1>3, <1>4, <1>5 DEF FeedInv, LogOK, StoreOK, SavedOK, FileOK

LEMMA PublishKeeps ==
  ASSUME FeedInv, FeedAssumption, NEW x \in ChangeInput, Publish(x)
  PROVE  FeedInv'
<1>1. feed' \in Seq(Change) /\ Len(feed') = Len(feed) + 1 /\ Len(feed) \in Nat
  BY DEF FeedInv, LogOK, FeedAssumption, Publish
<1>2. UNCHANGED <<heard, cursor, inbox, catalog, stock, customer, sent, edits, saved,
                  at, from, next, upto, more, pages>>
  BY DEF Publish, file, puller
<1>3. LogOK' /\ PageOK'
  BY <1>1, <1>2 DEF FeedInv, LogOK, PageOK
<1>4. StoreOK'
  BY <1>1, <1>2, LongerLog DEF FeedInv, StoreOK
<1>5. SavedOK'
  <2> DEFINE f == saved[1]
  <2>1. CASE saved = <<>>
    BY <1>2, <2>1 DEF SavedOK
  <2>2. CASE saved # <<>>
    <3>1. FileOK(Len(feed), f[1], f[2], f[3], f[4], f[5], f[6], f[7])
      BY <2>2 DEF FeedInv, SavedOK
    <3>2. FileOK(Len(feed) + 1, f[1], f[2], f[3], f[4], f[5], f[6], f[7])
      BY <1>1, <3>1, LongerLog
    <3>3. QED
      BY <1>1, <1>2, <3>2 DEF SavedOK
  <2>3. QED
    BY <2>1, <2>2
<1>6. QED
  BY <1>3, <1>4, <1>5 DEF FeedInv

\* A step that leaves the log and the backup alone keeps what is said of them.
LEMMA Elsewhere ==
  ASSUME FeedInv, UNCHANGED <<feed, heard, saved>>
  PROVE  LogOK' /\ SavedOK'
BY DEF FeedInv, LogOK, SavedOK

\* A step that leaves the file alone as well only has to keep its page.
LEMMA PullerOnly ==
  ASSUME FeedInv, UNCHANGED <<feed, heard, file, saved>>
  PROVE  LogOK' /\ SavedOK' /\ StoreOK'
BY DEF FeedInv, LogOK, SavedOK, StoreOK, file

LEMMA IdleKeeps == ASSUME Idle PROVE PageOK'
<1>1. more' \in BOOLEAN
  BY DEF Idle
<1>2. at' = "idle" /\ from' = 0 /\ next' = 1 /\ upto' = 0 /\ pages' = 0
  BY DEF Idle
<1>3. QED
  BY <1>1, <1>2 DEF PageOK

\* An edit leaves the inbox, the cursor and the page alone.
LEMMA EditKeeps ==
  ASSUME FeedInv, NEW c \in Customer, NEW v \in Nat, NEW s \in {"pending"},
         NEW n \in Phone \union {None}, Emit(c, v),
         customer' = [customer EXCEPT ![c] = [version |-> v, state |-> s, phone |-> n]]
  PROVE  FeedInv'
<1>1. [version |-> v, state |-> s, phone |-> n] \in CustomerRow
  BY DEF CustomerRow
<1>2. customer' \in Table(Customer, CustomerRow)
  BY <1>1 DEF FeedInv, StoreOK, FileOK, Table
<1>3. /\ sent' \subseteq Customer \X Nat /\ edits' \in [Customer -> Nat]
      /\ heard' \subseteq Customer \X Nat
  BY DEF Emit, FeedInv, LogOK, StoreOK, FileOK
<1>4. UNCHANGED <<feed, cursor, inbox, catalog, stock, saved, at, from, next, upto, more, pages>>
  BY DEF Emit, puller
<1>5. QED
  BY <1>2, <1>3, <1>4 DEF FeedInv, LogOK, StoreOK, SavedOK, FileOK, PageOK

LEMMA SellKeeps ==
  ASSUME FeedInv, NEW p \in Product, Sell(p)
  PROVE  FeedInv'
<1> DEFINE row == IF stock[p] = None THEN [onHand |-> 0, version |-> 1] ELSE stock[p]
<1>1. stock[p] \in StockRow \union {None}
  BY DEF FeedInv, StoreOK, FileOK, Table
<1>2. [onHand |-> row.onHand - 1, version |-> row.version + 1] \in StockRow
  BY <1>1 DEF StockRow
<1>3. stock' \in Table(Product, StockRow)
  BY <1>2 DEF Sell, FeedInv, StoreOK, FileOK, Table
<1>4. UNCHANGED <<feed, heard, cursor, inbox, catalog, customer, sent, edits, saved,
                  at, from, next, upto, more, pages>>
  BY DEF Sell, central, puller
<1>5. QED
  BY <1>3, <1>4 DEF FeedInv, LogOK, StoreOK, SavedOK, FileOK, PageOK


\* Applying a change: the inbox is left as it was, or grows by the next change.
LEMMA ApplyKeeps ==
  ASSUME FeedInv, Apply
  PROVE  FeedInv'
<1>1. /\ at = "apply" /\ next <= upto /\ next \in Nat \ {0} /\ upto <= Len(feed)
      /\ from = cursor /\ next > from /\ 1..(next - 1) \subseteq inbox
      /\ from \in Nat /\ upto \in Nat /\ pages \in Nat /\ cursor \in Nat
      /\ feed \in Seq(Change) /\ Len(feed) \in Nat
  BY DEF FeedInv, LogOK, PageOK, Apply
<1>2. PICK n \in Nat : inbox = 1..n /\ cursor <= n /\ n <= Len(feed)
  BY DEF FeedInv, StoreOK, FileOK
<1>3. UNCHANGED <<feed, heard, cursor, sent, edits, saved, at, from, upto, more, pages>>
      /\ next' = next + 1
  BY DEF Apply, central
<1>4. LogOK' /\ SavedOK'
  BY <1>3, Elsewhere
<1>5. PageOK' /\ StoreOK'
  <2>1. CASE AppliedBefore(next)
    <3>1. UNCHANGED <<inbox, catalog, stock, customer>> /\ next \in inbox
      BY <2>1 DEF Apply, AppliedBefore
    <3>2. 1..(next' - 1) \subseteq inbox'
      BY <1>1, <1>2, <1>3, <3>1
    <3>3. QED
      BY <1>1, <1>3, <3>1, <3>2 DEF FeedInv, PageOK, StoreOK, FileOK
  <2>2. CASE ~AppliedBefore(next)
    <3> DEFINE x == feed[next]
    <3>1. inbox' = inbox \union {next} /\ AcceptsChange(x) /\ ApplyTx(x) /\ next \notin inbox
      BY <2>2 DEF Apply, AppliedBefore
    <3>2. x \in Change
      BY <1>1
    <3>3. n = next - 1
      BY <1>1, <1>2, <3>1
    <3>4. inbox' = 1..(n + 1) /\ n + 1 <= Len(feed') /\ cursor' <= n + 1
      BY <1>1, <1>2, <1>3, <3>1, <3>3
    <3>5. catalog' \in Catalogs /\ Referential(catalog')
      <4>1. catalog \in Catalogs /\ Referential(catalog)
        BY DEF FeedInv, StoreOK, FileOK
      <4>2. CASE x \in CustomerChange
        <5>1. Effect(catalog, x) = catalog
          BY <4>2 DEF CustomerChange, Effect
        <5>2. QED
          BY <3>1, <4>1, <5>1 DEF ApplyTx
      <4>3. CASE x \in CatalogChange
        <5>1. x.type # "customer"
          BY <4>3 DEF CatalogChange
        <5>2. Accepts(catalog, x) /\ catalog' = Effect(catalog, x)
          BY <3>1, <5>1 DEF AcceptsChange, ApplyTx
        <5> HIDE DEF x
        <5>3. QED
          BY <4>1, <4>3, <5>2, EffectKeeps
      <4>4. QED
        BY <3>2, <4>2, <4>3 DEF Change
    <3>6. stock' \in Table(Product, StockRow)
      <4>1. stock \in Table(Product, StockRow)
        BY DEF FeedInv, StoreOK, FileOK
      <4>2. CASE x.type # "product"
        BY <3>1, <4>1, <4>2 DEF ApplyTx
      <4>3. CASE x.type = "product"
        <5>1. x.id \in Product /\ x.stock \in Nat \union {None} /\ x.version \in Nat
          BY <3>2, <4>3 DEF Change, CatalogChange, CustomerChange
        <5>2. stock' = UpsertStock(x)
          BY <3>1, <4>3 DEF ApplyTx
        <5> HIDE DEF x
        <5>3. x.stock # None => [onHand |-> x.stock, version |-> x.version] \in StockRow
          BY <5>1 DEF StockRow
        <5>4. QED
          BY <4>1, <5>1, <5>2, <5>3 DEF UpsertStock, Table
      <4>4. QED
        BY <4>2, <4>3
    <3>7. customer' \in Table(Customer, CustomerRow)
      <4>1. customer \in Table(Customer, CustomerRow)
        BY DEF FeedInv, StoreOK, FileOK
      <4>2. CASE x.type # "customer"
        BY <3>1, <4>1, <4>2 DEF ApplyTx
      <4>3. CASE x.type = "customer"
        <5>1. x \in CustomerChange
          BY <3>2, <4>3 DEF Change, CatalogChange
        <5>2. customer' = UpsertCustomer(x)
          BY <3>1, <4>3 DEF ApplyTx
        <5> HIDE DEF x
        <5>3. QED
          BY <4>1, <5>1, <5>2, CustomerEffect
      <4>4. QED
        BY <4>2, <4>3
    <3>8. StoreOK'
      <4>1. \E k \in Nat : inbox' = 1..k /\ cursor' <= k /\ k <= Len(feed')
        BY <1>2, <3>4
      <4>2. QED
        BY <1>3, <3>5, <3>6, <3>7, <4>1 DEF FeedInv, StoreOK, FileOK
    <3>9. PageOK'
      <4>1. 1..(next' - 1) \subseteq inbox'
        BY <1>1, <1>3, <3>3, <3>4
      <4>2. QED
        BY <1>1, <1>3, <4>1 DEF FeedInv, PageOK
    <3>10. QED
      BY <3>8, <3>9
  <2>3. QED
    BY <2>1, <2>2
<1>6. QED
  BY <1>4, <1>5 DEF FeedInv

LEMMA PullKeeps ==
  ASSUME FeedInv, FeedAssumption, Pull
  PROVE  FeedInv'
<1>1. CASE Tick
  <2>1. LogOK' /\ SavedOK' /\ StoreOK'
    BY <1>1, PullerOnly DEF Tick, central
  <2>2. PageOK'
    BY <1>1 DEF Tick, FeedInv, PageOK
  <2>3. QED
    BY <2>1, <2>2 DEF FeedInv
<1>2. CASE Ask
  <2>1. LogOK' /\ SavedOK' /\ StoreOK'
    BY <1>2, PullerOnly DEF Ask, central
  <2>2. PICK n \in Nat : inbox = 1..n /\ cursor <= n /\ n <= Len(feed)
    BY DEF FeedInv, StoreOK, FileOK
  <2>3. cursor \in Nat /\ Len(feed) \in Nat /\ Page \in Nat \ {0}
    BY DEF FeedInv, LogOK, StoreOK, FileOK, FeedAssumption
  <2>4. /\ at' = "apply" /\ from' = cursor /\ next' = cursor + 1 /\ UNCHANGED <<pages, feed, cursor, inbox>>
        /\ upto' \in {cursor + Page, Len(feed)} /\ upto' <= Len(feed)
    BY <1>2, <2>3 DEF Ask, central, file
  <2>5. more' \in BOOLEAN
    BY <1>2 DEF Ask
  <2>6. 1..(next' - 1) \subseteq inbox'
    BY <2>2, <2>3, <2>4
  <2>7. PageOK'
    BY <2>3, <2>4, <2>5, <2>6 DEF FeedInv, PageOK
  <2>8. QED
    BY <2>1, <2>7 DEF FeedInv
<1>3. CASE Apply
  BY <1>3, ApplyKeeps
<1>4. CASE Refuse
  <2>1. LogOK' /\ SavedOK' /\ StoreOK'
    BY <1>4, PullerOnly DEF Refuse, central
  <2>2. PageOK'
    BY <1>4, IdleKeeps DEF Refuse, AfterRefusal
  <2>3. QED
    BY <2>1, <2>2 DEF FeedInv
<1>5. CASE EndPage
  <2>1. UNCHANGED <<feed, heard, saved, inbox, catalog, stock, customer, sent, edits>>
    BY <1>5 DEF EndPage, central
  <2>2. LogOK' /\ SavedOK'
    BY <2>1, Elsewhere
  <2>3. PICK n \in Nat : inbox = 1..n /\ cursor <= n /\ n <= Len(feed)
    BY DEF FeedInv, StoreOK, FileOK
  <2>4. /\ next > upto /\ next \in Nat /\ upto \in Nat /\ 1..(next - 1) \subseteq inbox
        /\ cursor' \in {upto, cursor} /\ cursor \in Nat
    BY <1>5 DEF EndPage, NewCursor, FeedInv, PageOK, StoreOK, FileOK
  <2>5. upto <= n
    <3>1. upto = 0 \/ upto \in 1..(next - 1)
      BY <2>4
    <3>2. QED
      BY <2>3, <2>4, <3>1
  <2>6. cursor' <= n /\ cursor' \in Nat
    BY <2>3, <2>4, <2>5
  <2>7. StoreOK'
    BY <2>1, <2>3, <2>6 DEF FeedInv, StoreOK, FileOK
  <2>8. PageOK'
    <3>1. CASE at' = "ask" /\ pages' = pages + 1 /\ UNCHANGED <<from, next, upto, more>>
      BY <3>1 DEF FeedInv, PageOK
    <3>2. CASE Idle
      BY <3>2, IdleKeeps
    <3>3. QED
      BY <1>5, <3>1, <3>2 DEF EndPage
  <2>9. QED
    BY <2>2, <2>7, <2>8 DEF FeedInv
<1>6. QED
  BY <1>1, <1>2, <1>3, <1>4, <1>5 DEF Pull

LEMMA BackupKeeps ==
  ASSUME FeedInv, Backup
  PROVE  FeedInv'
<1>1. UNCHANGED <<feed, heard, cursor, inbox, catalog, stock, customer, sent, edits,
                  at, from, next, upto, more, pages>>
  BY DEF Backup, central, file, puller
<1>2. saved' = <<<<cursor, inbox, catalog, stock, customer, sent, edits>>>>
  BY DEF Backup, file
<1>3. SavedOK'
  BY <1>1, <1>2 DEF FeedInv, SavedOK, StoreOK
<1>4. QED
  BY <1>1, <1>3 DEF FeedInv, LogOK, StoreOK, PageOK

LEMMA RestoreKeeps ==
  ASSUME FeedInv, Restore
  PROVE  FeedInv'
<1>1. UNCHANGED <<feed, heard, saved>> /\ Idle /\ saved # <<>>
  BY DEF Restore, central
<1>2. LogOK' /\ SavedOK'
  BY <1>1, Elsewhere
<1>3. PageOK'
  BY <1>1, IdleKeeps
<1>4. StoreOK'
  BY <1>1 DEF Restore, FeedInv, SavedOK, StoreOK
<1>5. QED
  BY <1>2, <1>3, <1>4 DEF FeedInv

\* FeedInv is inductive.
LEMMA FeedInvInductive == FeedInv /\ FeedAssumption /\ [Next]_vars => FeedInv'
<1> SUFFICES ASSUME FeedInv, FeedAssumption, [Next]_vars PROVE FeedInv'
  OBVIOUS
<1>1. CASE \E x \in ChangeInput : Publish(x)
  BY <1>1, PublishKeeps
<1>2. CASE Pull
  BY <1>2, PullKeeps
<1>3. CASE Fault
  <2>1. LogOK' /\ SavedOK' /\ StoreOK'
    BY <1>3, PullerOnly DEF Fault, central
  <2>2. PageOK'
    BY <1>3, IdleKeeps DEF Fault
  <2>3. QED
    BY <2>1, <2>2 DEF FeedInv
<1>4. CASE \E c \in LocalCustomer, n \in Phone \union {None} : CreateCustomer(c, n)
  <2>1. PICK c \in LocalCustomer, n \in Phone \union {None} : CreateCustomer(c, n)
    BY <1>4
  <2>2. c \in Customer
    BY DEF FeedAssumption
  <2>3. QED
    BY <2>1, <2>2, EditKeeps DEF CreateCustomer
<1>5. CASE \E c \in Customer, n \in Phone \union {None} : UpdateCustomer(c, n)
  <2>1. PICK c \in Customer, n \in Phone \union {None} : UpdateCustomer(c, n)
    BY <1>5
  <2>2. customer[c] \in CustomerRow
    BY <2>1 DEF UpdateCustomer, FeedInv, StoreOK, FileOK, Table
  <2>3. customer[c].version + 1 \in Nat
    BY <2>2 DEF CustomerRow
  <2>4. QED
    BY <2>1, <2>3, EditKeeps DEF UpdateCustomer
<1>6. CASE \E p \in Product : Sell(p)
  BY <1>6, SellKeeps
<1>7. CASE Backup
  BY <1>7, BackupKeeps
<1>8. CASE Restore
  BY <1>8, RestoreKeeps
<1>9. CASE UNCHANGED vars
  <2>1. LogOK' /\ SavedOK' /\ StoreOK'
    BY <1>9, PullerOnly DEF vars, central
  <2>2. PageOK'
    BY <1>9 DEF vars, central, file, puller, FeedInv, PageOK
  <2>3. QED
    BY <2>1, <2>2 DEF FeedInv
<1>10. QED
  BY <1>1, <1>2, <1>3, <1>4, <1>5, <1>6, <1>7, <1>8, <1>9 DEF Next

LEMMA FeedInvariant == Spec => []FeedInv
<1>1. Init => FeedInv
  BY EmptyStart
<1>2. FeedInv /\ [Next]_vars => FeedInv'
  BY FeedInvInductive, FeedAssumption
<1>3. QED
  BY <1>1, <1>2, PTL DEF Spec

-----------------------------------------------------------------------------
(* What follows                                                            *)

\* The tables keep their types and every row refers to rows that are there,
\* however Central's changes are ordered, and whatever fails or is restored.
THEOREM FeedTypeOK == Spec => []TypeOK
<1>1. FeedInv => TypeOK
  BY DEF FeedInv, LogOK, StoreOK, FileOK, PageOK, TypeOK
<1>2. QED
  BY <1>1, FeedInvariant, PTL

\* The cursor never passes a change that was not applied.
THEOREM FeedCursorIsBehind == Spec => []CursorIsBehind
<1>1. FeedInv => CursorIsBehind
  BY DEF FeedInv, StoreOK, FileOK, CursorIsBehind
<1>2. QED
  BY <1>1, FeedInvariant, PTL


-----------------------------------------------------------------------------
(* The feed implements its contract                                        *)

LEMMA PlaceOfInterval == ASSUME NEW n \in Nat PROVE Cardinality(1..n) = n
<1>1. Cardinality(1..n) = IF 1 > n THEN 0 ELSE n - 1 + 1
  BY FS_Interval
<1>2. QED
  BY <1>1

\* The contract means the same effects.
LEMMA SameEffect == ASSUME NEW cat, NEW x PROVE Contract!Effect(cat, x) = Effect(cat, x)
<1>1. \A row, v : Contract!NotOlder(row, v) = NotOlder(row, v)
  BY Zenon DEF NotOlder, Contract!NotOlder
<1>2. Contract!UpsertCategory(cat, x) = UpsertCategory(cat, x)
  BY <1>1, Zenon DEF UpsertCategory, Contract!UpsertCategory
<1>3. Contract!ApplyCategorySnapshot(cat, x) = ApplyCategorySnapshot(cat, x)
  BY <1>1 DEF ApplyCategorySnapshot, Contract!ApplyCategorySnapshot
<1>4. Contract!UpsertProduct(cat, x) = UpsertProduct(cat, x)
  BY <1>1, Zenon DEF UpsertProduct, Contract!UpsertProduct
<1>5. Contract!RemoveProduct(cat, x) = RemoveProduct(cat, x)
  BY <1>1, Zenon DEF RemoveProduct, Contract!RemoveProduct
<1>6. Contract!UpsertPrice(cat, x) = UpsertPrice(cat, x)
  BY <1>1, Zenon DEF UpsertPrice, Contract!UpsertPrice
<1>7. Contract!UpsertBarcode(cat, x) = UpsertBarcode(cat, x)
  BY Zenon DEF UpsertBarcode, Contract!UpsertBarcode
<1>8. QED
  BY <1>2, <1>3, <1>4, <1>5, <1>6, <1>7, Zenon DEF Effect, Contract!Effect

\* A change that is applied is the next one of the log, and what it does to the
\* catalog is what the contract says.
LEMMA ApplyRefines ==
  ASSUME FeedInv, Apply
  PROVE  [Contract!Next]_(Contract!vars)
<1>1. PICK n \in Nat : inbox = 1..n /\ cursor <= n /\ n <= Len(feed)
  BY DEF FeedInv, StoreOK, FileOK
<1>2. /\ next <= upto /\ next \in Nat \ {0} /\ upto \in Nat /\ upto <= Len(feed)
      /\ 1..(next - 1) \subseteq inbox /\ Len(feed) \in Nat /\ feed \in Seq(Change)
  BY DEF FeedInv, LogOK, PageOK, Apply
<1>3. UNCHANGED <<feed, saved>>
  BY DEF Apply, central
<1>4. CASE AppliedBefore(next)
  BY <1>3, <1>4 DEF Apply, Contract!vars
<1>5. CASE ~AppliedBefore(next)
  <2>1. inbox' = inbox \union {next} /\ ApplyTx(feed[next]) /\ next \notin inbox
    BY <1>5 DEF Apply, AppliedBefore
  <2>2. next = n + 1
    BY <1>1, <1>2, <2>1
  <2>3. inbox' = 1..(n + 1)
    BY <1>1, <2>1, <2>2
  <2>4. Cardinality(inbox) = n /\ Cardinality(inbox') = n + 1
    BY <1>1, <2>3, PlaceOfInterval
  <2>5. catalog' = Effect(catalog, feed[n + 1])
    BY <2>1, <2>2 DEF ApplyTx
  <2>6. Contract!Apply
    BY <1>2, <1>3, <2>2, <2>4, <2>5, SameEffect DEF Contract!Apply
  <2>7. QED
    BY <2>6 DEF Contract!Next
<1>6. QED
  BY <1>4, <1>5

LEMMA StepRefines == FeedInv /\ [Next]_vars => [Contract!Next]_(Contract!vars)
<1> SUFFICES ASSUME FeedInv, [Next]_vars PROVE [Contract!Next]_(Contract!vars)
  OBVIOUS
<1>1. ASSUME NEW x \in ChangeInput, Publish(x) PROVE [Contract!Next]_(Contract!vars)
  <2>1. feed' = Append(feed, x) /\ feed \in Seq(Change)
    BY <1>1 DEF Publish, FeedInv, LogOK
  <2>2. Len(feed') = Len(feed) + 1 /\ feed' = Append(feed, feed'[Len(feed) + 1])
    BY <2>1
  <2>3. UNCHANGED <<inbox, catalog, saved>>
    BY <1>1 DEF Publish, file
  <2>4. QED
    BY <2>2, <2>3 DEF Contract!Publish, Contract!Next
<1>2. ASSUME UNCHANGED <<feed, inbox, catalog, saved>> PROVE [Contract!Next]_(Contract!vars)
  BY <1>2 DEF Contract!vars
<1>3. CASE Pull
  <2>1. CASE Tick
    BY <1>2, <2>1 DEF Tick, central, file
  <2>2. CASE Ask
    BY <1>2, <2>2 DEF Ask, central, file
  <2>3. CASE Apply
    BY <2>3, ApplyRefines
  <2>4. CASE Refuse
    BY <1>2, <2>4 DEF Refuse, central, file
  <2>5. CASE EndPage
    BY <1>2, <2>5 DEF EndPage, central
  <2>6. QED
    BY <1>3, <2>1, <2>2, <2>3, <2>4, <2>5 DEF Pull
<1>4. CASE Fault
  BY <1>2, <1>4 DEF Fault, central, file
<1>5. ASSUME NEW c, NEW v, Emit(c, v) PROVE [Contract!Next]_(Contract!vars)
  BY <1>2, <1>5 DEF Emit
<1>6. CASE \E c \in LocalCustomer, n \in Phone \union {None} : CreateCustomer(c, n)
  BY <1>5, <1>6 DEF CreateCustomer
<1>7. CASE \E c \in Customer, n \in Phone \union {None} : UpdateCustomer(c, n)
  BY <1>5, <1>7 DEF UpdateCustomer
<1>8. CASE \E p \in Product : Sell(p)
  BY <1>2, <1>8 DEF Sell, central
<1>9. CASE Backup
  <2>1. /\ saved' = <<<<cursor, inbox, catalog, stock, customer, sent, edits>>>>
        /\ UNCHANGED <<feed, inbox, catalog>>
    BY <1>9 DEF Backup, central, file
  <2>2. PlaceIn(saved') = <<Cardinality(inbox), catalog>>
    BY <2>1 DEF PlaceIn
  <2>3. QED
    BY <2>1, <2>2 DEF Contract!Save, Contract!Next
<1>10. CASE Restore
  <2>1. inbox' = saved[1][2] /\ catalog' = saved[1][3] /\ saved # <<>> /\ UNCHANGED <<feed, saved>>
    BY <1>10 DEF Restore, central
  <2>2. PlaceIn(saved) = <<Cardinality(inbox'), catalog'>>
    BY <2>1 DEF PlaceIn
  <2>3. QED
    BY <2>1, <2>2 DEF Contract!Restore, Contract!Next
<1>11. CASE UNCHANGED vars
  BY <1>2, <1>11 DEF vars, central, file
<1>12. QED
  BY <1>1, <1>3, <1>4, <1>6, <1>7, <1>8, <1>9, <1>10, <1>11 DEF Next

\* Pages, the cursor, the inbox, faults and restores keep the promise of the
\* contract: every change once, in Central's order, none left out.
THEOREM FeedImplementsContract == Spec => ImplementsFeedContract
<1>1. Init => Contract!Init
  <2>1. Cardinality({}) = 0
    BY FS_EmptySet
  <2>2. PlaceIn(<<>>) = <<0, EmptyCatalog>>
    BY DEF PlaceIn
  <2>3. QED
    BY <2>1, <2>2 DEF Init, Contract!Init, EmptyCatalog, Contract!EmptyCatalog
<1>2. FeedInv /\ [Next]_vars => [Contract!Next]_(Contract!vars)
  BY StepRefines
<1>3. QED
  BY <1>1, <1>2, FeedInvariant, PTL DEF Spec, ImplementsFeedContract, Contract!Spec

-----------------------------------------------------------------------------
(* Every edit is sent                                                      *)

\* In a database file: every edit of a customer has an event, none of which has
\* a version the customer's row has not reached.
EditsCounted(cs, se, ed) ==
  \A c \in Customer :
    /\ IsFiniteSet({e \in se : e[1] = c})
    /\ Cardinality({e \in se : e[1] = c}) = ed[c]
    /\ \A e \in se : e[1] = c => cs[c] # None /\ e[2] <= cs[c].version

EditsInv ==
  /\ EditsCounted(customer, sent, edits)
  /\ saved # <<>> => LET f == saved[1] IN EditsCounted(f[5], f[6], f[7])

\* Central's data keep the version of a row that is there.
LEMMA VersionKept ==
  ASSUME customer \in Table(Customer, CustomerRow), FeedAssumption, NEW x \in CustomerChange,
         NEW c \in Customer, customer[c] # None
  PROVE  UpsertCustomer(x)[c] # None /\ UpsertCustomer(x)[c].version = customer[c].version
<1> DEFINE t == Target(x)
           row == [version |-> KeptVersion(customer[t]), state |-> "synced", phone |-> x.phone]
<1>1. UpsertCustomer(x) \in Table(Customer, CustomerRow)
  BY CustomerEffect
<1>2. customer[c] \in CustomerRow /\ None \notin CustomerRow
  BY DEF Table, FeedAssumption
<1>3. CASE Preserved(x)
  BY <1>3 DEF UpsertCustomer
<1>4. CASE ~ Preserved(x) /\ Conflicting(x)
  <2> DEFINE s == [customer[t] EXCEPT !.state = "conflict"]
  <2>1. UpsertCustomer(x) = [customer EXCEPT ![t] = s]
    BY <1>4 DEF UpsertCustomer
  <2>2. c = t => s \in CustomerRow /\ s.version = customer[c].version
    BY <1>2 DEF CustomerRow
  <2> HIDE DEF s, t
  <2>3. CASE c = t
    BY <1>2, <2>1, <2>2, <2>3 DEF Table
  <2>4. CASE c # t
    BY <1>2, <2>1, <2>4 DEF Table
  <2>5. QED
    BY <2>3, <2>4
<1>5. CASE ~ Preserved(x) /\ ~ Conflicting(x)
  <2>1. UpsertCustomer(x) = [customer EXCEPT ![t] = row]
    BY <1>5 DEF UpsertCustomer
  <2>2. c = t => row.version = customer[c].version /\ row \in CustomerRow
    <3>1. x.phone \in Phone \union {None}
      BY DEF CustomerChange
    <3>2. QED
      BY <1>2, <3>1 DEF KeptVersion, CustomerRow
  <2> HIDE DEF row, t
  <2>3. CASE c = t
    BY <1>2, <2>1, <2>2, <2>3 DEF Table
  <2>4. CASE c # t
    BY <1>2, <2>1, <2>4 DEF Table
  <2>5. QED
    BY <2>3, <2>4
<1>6. QED
  BY <1>3, <1>4, <1>5

\* An edit has a version of its own, and its event is a new one.
LEMMA EditCounted ==
  ASSUME FeedInv, FeedAssumption, EditsInv, NEW c \in Customer, NEW v \in Nat, Emit(c, v),
         customer'[c] # None, customer'[c].version = v,
         \A d \in Customer : d # c => customer'[d] = customer[d],
         customer[c] # None => customer[c].version < v
  PROVE  EditsInv'
<1> DEFINE Of(d) == {e \in sent : e[1] = d}
<1>1. sent' = sent \union {<<c, v>>} /\ edits' = [edits EXCEPT ![c] = @ + 1] /\ saved' = saved
  BY DEF Emit
<1>2. sent \subseteq Customer \X Nat /\ edits \in [Customer -> Nat]
      /\ customer \in Table(Customer, CustomerRow)
  BY DEF FeedInv, StoreOK, FileOK
<1>3. \A d \in Customer : /\ IsFiniteSet(Of(d)) /\ Cardinality(Of(d)) = edits[d]
                          /\ \A e \in Of(d) : customer[d] # None /\ e[2] <= customer[d].version
  BY DEF EditsInv, EditsCounted
<1>4. ASSUME NEW d \in Customer, d # c
      PROVE  /\ IsFiniteSet(Of(d)') /\ Cardinality(Of(d)') = edits'[d]
             /\ \A e \in sent' : e[1] = d => customer'[d] # None /\ e[2] <= customer'[d].version
  <2>1. Of(d)' = Of(d)
    BY <1>1, <1>4
  <2>2. edits'[d] = edits[d]
    BY <1>1, <1>2, <1>4
  <2>3. \A e \in sent' : e[1] = d => e \in Of(d)
    BY <1>1, <1>4
  <2>4. QED
    BY <1>3, <1>4, <2>1, <2>2, <2>3
<1>5. /\ IsFiniteSet(Of(c)') /\ Cardinality(Of(c)') = edits'[c]
      /\ \A e \in sent' : e[1] = c => e[2] <= v
  <2>1. customer[c] # None => customer[c].version \in Nat
    BY <1>2 DEF Table, CustomerRow
  <2>2. \A e \in Of(c) : e[2] \in Nat /\ e[2] < v
    <3>1. SUFFICES ASSUME NEW e \in Of(c) PROVE e[2] \in Nat /\ e[2] < v
      OBVIOUS
    <3>2. e \in Customer \X Nat
      BY <1>2
    <3>3. e[2] \in Nat
      BY <3>2
    <3>4. customer[c] # None /\ e[2] <= customer[c].version
      BY <1>3
    <3>5. QED
      BY <2>1, <3>3, <3>4
  <2>3. <<c, v>> \notin Of(c) /\ Of(c)' = Of(c) \union {<<c, v>>}
    BY <1>1, <2>2
  <2>4. IsFiniteSet(Of(c)') /\ Cardinality(Of(c)') = Cardinality(Of(c)) + 1
    <3> DEFINE S == Of(c)
               e == <<c, v>>
    <3>1. IsFiniteSet(S) /\ e \notin S
      BY <1>3, <2>3
    <3> HIDE DEF S, e
    <3>2. IsFiniteSet(S \union {e}) /\ Cardinality(S \union {e}) = Cardinality(S) + 1
      BY <3>1, FS_AddElement
    <3>3. QED
      BY <2>3, <3>2 DEF S, e
  <2>5. edits'[c] = edits[c] + 1
    BY <1>1, <1>2
  <2>6. \A e \in sent' : e[1] = c => e[2] <= v
    BY <1>1, <2>2
  <2>7. QED
    BY <1>3, <2>4, <2>5, <2>6
<1>6. EditsCounted(customer', sent', edits')
  BY <1>4, <1>5 DEF EditsCounted
<1>7. QED
  BY <1>1, <1>6 DEF EditsInv

LEMMA EditsInvInductive ==
  FeedInv /\ FeedAssumption /\ EditsInv /\ [Next]_vars => EditsInv'
<1> SUFFICES ASSUME FeedInv, FeedAssumption, EditsInv, [Next]_vars PROVE EditsInv'
  OBVIOUS
<1>1. /\ customer \in Table(Customer, CustomerRow) /\ sent \subseteq Customer \X Nat
      /\ feed \in Seq(Change)
  BY DEF FeedInv, LogOK, StoreOK, FileOK
<1>2. CASE UNCHANGED <<customer, sent, edits, saved>>
  BY <1>2 DEF EditsInv
<1>3. CASE Apply
  <2>1. UNCHANGED <<sent, edits, saved>>
    BY <1>3 DEF Apply
  <2>2. CASE customer' = customer
    BY <1>2, <2>1, <2>2
  <2>3. CASE customer' # customer
    <3>1. feed[next].type = "customer" /\ customer' = UpsertCustomer(feed[next])
      BY <1>3, <2>3 DEF Apply, ApplyTx
    <3>2. feed[next] \in CustomerChange
      <4>1. next \in 1..Len(feed)
        BY <1>3 DEF Apply, FeedInv, PageOK, LogOK
      <4>2. feed[next] \in Change
        BY <1>1, <4>1
      <4>3. QED
        BY <3>1, <4>2 DEF Change, CatalogChange
    <3>3. ASSUME NEW c \in Customer, customer[c] # None
          PROVE  customer'[c] # None /\ customer'[c].version = customer[c].version
      BY <1>1, <3>1, <3>2, <3>3, VersionKept
    <3>4. EditsCounted(customer', sent, edits)
      BY <3>3 DEF EditsInv, EditsCounted
    <3>5. QED
      BY <2>1, <3>4 DEF EditsInv
  <2>4. QED
    BY <2>2, <2>3
<1>4. ASSUME NEW c \in LocalCustomer, NEW n \in Phone \union {None}, CreateCustomer(c, n)
      PROVE  EditsInv'
  <2>1. c \in Customer
    BY DEF FeedAssumption
  <2>2. customer[c] = None /\ Emit(c, 1)
        /\ customer' = [customer EXCEPT ![c] = [version |-> 1, state |-> "pending", phone |-> n]]
    BY <1>4 DEF CreateCustomer
  <2>3. customer'[c] \in CustomerRow /\ customer'[c].version = 1
    BY <1>1, <2>1, <2>2 DEF Table, CustomerRow
  <2>4. customer'[c] # None
    BY <2>3 DEF FeedAssumption
  <2>5. \A d \in Customer : d # c => customer'[d] = customer[d]
    BY <1>1, <2>2 DEF Table
  <2>6. QED
    BY <2>1, <2>2, <2>3, <2>4, <2>5, EditCounted
<1>5. ASSUME NEW c \in Customer, NEW n \in Phone \union {None}, UpdateCustomer(c, n)
      PROVE  EditsInv'
  <2> DEFINE v == customer[c].version + 1
  <2>1. customer[c] \in CustomerRow /\ v \in Nat /\ customer[c].version < v
    BY <1>1, <1>5 DEF UpdateCustomer, Table, CustomerRow
  <2>2. /\ Emit(c, v)
        /\ customer' = [customer EXCEPT ![c] = [version |-> v, state |-> "pending", phone |-> n]]
    BY <1>5 DEF UpdateCustomer
  <2> HIDE DEF v
  <2>3. customer'[c] \in CustomerRow /\ customer'[c].version = v
    BY <1>1, <2>1, <2>2 DEF Table, CustomerRow
  <2>4. customer'[c] # None
    BY <2>3 DEF FeedAssumption
  <2>5. \A d \in Customer : d # c => customer'[d] = customer[d]
    BY <1>1, <2>2 DEF Table
  <2>6. QED
    BY <2>1, <2>2, <2>3, <2>4, <2>5, EditCounted
<1>6. CASE Backup
  <2>1. saved' = <<<<cursor, inbox, catalog, stock, customer, sent, edits>>>>
        /\ UNCHANGED <<customer, sent, edits>>
    BY <1>6 DEF Backup, file
  <2>2. QED
    BY <2>1 DEF EditsInv
<1>7. CASE Restore
  BY <1>7 DEF Restore, EditsInv
<1>8. QED
  BY <1>2, <1>3, <1>4, <1>5, <1>6, <1>7
  DEF Next, Publish, Pull, Tick, Ask, Refuse, EndPage, Fault, Sell, vars, file

\* Every accepted edit of a customer has an event of its own, for any mix of
\* edits, changes of Central and restores: UpsertCustomer keeps the version.
THEOREM FeedEditsAreSent == Spec => []EditsAreSent
<1>1. Init => EditsInv
  <2>1. IsFiniteSet({}) /\ Cardinality({}) = 0
    BY FS_EmptySet
  <2>2. QED
    BY <2>1 DEF Init, EditsInv, EditsCounted
<1>2. FeedInv /\ EditsInv /\ [Next]_vars => EditsInv'
  BY EditsInvInductive, FeedAssumption
<1>3. EditsInv => EditsAreSent
  BY DEF EditsInv, EditsCounted, EditsAreSent
<1>4. FeedInv /\ [Next]_vars => FeedInv'
  BY FeedInvInductive, FeedAssumption
<1>5. QED
  BY EmptyStart, <1>1, <1>2, <1>3, <1>4, PTL DEF Spec

-----------------------------------------------------------------------------
(* The newest fact wins                                                    *)

\* The changes in ib that speak of product p, and those of them since the store
\* knows it.
FactsOn(fd, ib, p) == {i \in ib : fd[i].type \in {"product", "remove"} /\ fd[i].id = p}

LiveFacts(fd, ib, p) ==
  {i \in FactsOn(fd, ib, p) : \E j \in FactsOn(fd, ib, p) : fd[j].type = "product" /\ j <= i}

\* l is the newest of S.
Tops(fd, S, l) ==
  /\ l \in S
  /\ \A j \in S : \/ fd[j].version < fd[l].version
                  \/ fd[j].version = fd[l].version /\ j <= l

\* What a row says is what change x says.
Says(row, x) ==
  row # None /\ row.version = x.version /\ row.active = (x.type = "product" /\ x.active)

\* The row says what the newest of S says, and is not there if S is empty.
Shows(fd, S, row) ==
  IF S = {} THEN row = None ELSE \E l \in S : Tops(fd, S, l) /\ Says(row, fd[l])

NewestOf(fd, ib, ca, p) == Shows(fd, LiveFacts(fd, ib, p), ca.product[p])

\* The row of every product, in the file and in the backup.
NewestInv ==
  /\ \A p \in Product : NewestOf(feed, inbox, catalog, p)
  /\ saved # <<>> => \A p \in Product : NewestOf(feed, saved[1][2], saved[1][3], p)

\* Changes that are appended to the log are not in ib.
LEMMA OlderFacts ==
  ASSUME feed \in Seq(Change), NEW x, feed' = Append(feed, x), x \in Change,
         NEW n \in Nat, n <= Len(feed), NEW ca, NEW p \in Product,
         NewestOf(feed, 1..n, ca, p)
  PROVE  NewestOf(feed', 1..n, ca, p)
<1>1. \A i \in 1..n : feed'[i] = feed[i]
  OBVIOUS
<1>2. FactsOn(feed', 1..n, p) = FactsOn(feed, 1..n, p)
  BY <1>1 DEF FactsOn
<1>3. LiveFacts(feed', 1..n, p) = LiveFacts(feed, 1..n, p)
  BY <1>1, <1>2 DEF LiveFacts, FactsOn
<1>4. LiveFacts(feed, 1..n, p) \subseteq 1..n
  BY DEF LiveFacts, FactsOn
<1>5. ASSUME NEW l \in LiveFacts(feed, 1..n, p), Tops(feed, LiveFacts(feed, 1..n, p), l)
      PROVE  Tops(feed', LiveFacts(feed, 1..n, p), l) /\ feed'[l] = feed[l]
  BY <1>1, <1>4, <1>5 DEF Tops
<1>6. QED
  BY <1>3, <1>5 DEF NewestOf, Shows

\* A change that does not speak of p leaves its row alone.
LEMMA OtherProduct ==
  ASSUME NEW ca \in Catalogs, NEW x \in Change, NEW p \in Product,
         ~ (x.type \in {"product", "remove"} /\ x.id = p)
  PROVE  Effect(ca, x).product[p] = ca.product[p]
<1>1. x.type \in {"category", "categories", "product", "remove", "price", "barcode",
                  "invalid", "customer"}
  BY DEF Change, CatalogChange, CustomerChange
<1>2. ca.product \in [Product -> ProductRow \union {None}]
  BY DEF Catalogs, Table
<1>3. CASE x.type = "category"
  BY <1>2, <1>3 DEF Effect, UpsertCategory, Catalogs
<1>4. CASE x.type = "categories"
  BY <1>2, <1>4 DEF Effect, ApplyCategorySnapshot, Catalogs
<1>5. CASE x.type = "product"
  BY <1>2, <1>5 DEF Effect, UpsertProduct, Catalogs
<1>6. CASE x.type = "remove"
  BY <1>2, <1>6 DEF Effect, RemoveProduct, Catalogs
<1>7. CASE x.type = "price"
  BY <1>2, <1>7 DEF Effect, UpsertPrice, Catalogs
<1>8. CASE x.type = "barcode"
  BY <1>2, <1>8 DEF Effect, UpsertBarcode, Catalogs
<1>9. CASE x.type \in {"invalid", "customer"}
  BY <1>9 DEF Effect
<1>10. QED
  BY <1>1, <1>3, <1>4, <1>5, <1>6, <1>7, <1>8, <1>9

\* A change that speaks of p gives the row what it says, unless the row is
\* newer, or it is the removal of a product the store does not know.
LEMMA ThisProduct ==
  ASSUME NEW ca \in Catalogs, NEW x \in Change, NEW p \in Product, FeedAssumption,
         ProjectionAssumption, x.type \in {"product", "remove"}, x.id = p
  PROVE  LET row == ca.product[p]
             new == Effect(ca, x).product[p]
         IN  /\ x.version \in Nat
             /\ row = None /\ x.type = "remove" => new = None
             /\ row # None \/ x.type = "product" =>
                  IF NotOlder(row, x.version) THEN Says(new, x) ELSE new = row
<1>1. ca.product \in [Product -> ProductRow \union {None}] /\ ca \in [category : Table(Category, CategoryRow),
   product  : [Product -> ProductRow \union {None}],
   price    : Table(Price, PriceRow),
   barcode  : Table(Barcode, BarcodeRow)]
  BY DEF Catalogs, Table
<1>2. None \notin ProductRow
  BY DEF ProjectionAssumption
<1>3. CASE x.type = "product"
  <2>1. x.version \in Nat /\ x.active \in BOOLEAN /\ x.category \in Category \union {None}
    BY <1>3 DEF Change, CatalogChange, CustomerChange
  <2> DEFINE r == [version |-> x.version, active |-> x.active, category |-> x.category]
  <2>2. r \in ProductRow /\ r.version = x.version /\ r.active = x.active
    BY <2>1 DEF ProductRow
  <2>3. Effect(ca, x) =
          IF NotOlder(ca.product[p], x.version) THEN [ca EXCEPT !.product[p] = r] ELSE ca
    BY <1>3 DEF Effect, UpsertProduct
  <2>4. x.active = (x.type = "product" /\ x.active)
    BY <1>3, <2>1
  <2> HIDE DEF r
  <2>5. [ca EXCEPT !.product[p] = r].product[p] = r
    BY <1>1
  <2>6. r # None
    BY <1>2, <2>2
  <2>7. Says(r, x)
    BY <2>2, <2>4, <2>6 DEF Says
  <2>8. QED
    BY <1>3, <2>1, <2>3, <2>5, <2>7
<1>4. CASE x.type = "remove"
  <2>1. x.version \in Nat
    BY <1>4 DEF Change, CatalogChange, CustomerChange
  <2>2. CASE ca.product[p] # None /\ NotOlder(ca.product[p], x.version)
    <3> DEFINE r == [version |-> x.version, active |-> FALSE,
                     category |-> ca.product[p].category]
    <3>1. r \in ProductRow /\ r.version = x.version /\ r.active = FALSE
      BY <1>1, <2>1, <2>2 DEF ProductRow
    <3>2. Effect(ca, x).product = [ca.product EXCEPT ![p] = r]
      BY <1>1, <1>4, <2>2 DEF Effect, RemoveProduct
    <3> HIDE DEF r
    <3>3. Effect(ca, x).product[p] = r
      BY <1>1, <3>2
    <3>4. r # None
      BY <1>2, <3>1
    <3>5. Says(r, x)
      BY <1>4, <3>1, <3>4 DEF Says
    <3>6. QED
      BY <2>1, <2>2, <3>3, <3>5
  <2>3. CASE ~ (ca.product[p] # None /\ NotOlder(ca.product[p], x.version))
    <3>1. Effect(ca, x) = ca
      BY <1>4, <2>3 DEF Effect, RemoveProduct
    <3>2. QED
      BY <1>4, <2>1, <2>3, <3>1
  <2>4. QED
    BY <2>2, <2>3
<1>5. QED
  BY <1>3, <1>4

\* A change that speaks of the product when the store knows it, or makes the
\* store know it: the newest of S and k is what the row says.
LEMMA NextTop ==
  ASSUME NEW fd, NEW n \in Nat, NEW k \in Nat, k = n + 1, NEW S \in SUBSET (1..n),
         NEW row, NEW new, NEW T, T = S \union {k},
         \A j \in T : fd[j].version \in Nat,
         Shows(fd, S, row),
         IF NotOlder(row, fd[k].version) THEN Says(new, fd[k]) ELSE new = row
  PROVE  Shows(fd, T, new)
<1>1. k \in T /\ S \subseteq T /\ \A j \in S : j <= k
  OBVIOUS
<1>2. CASE S = {}
  <2>1. Tops(fd, T, k) /\ Says(new, fd[k])
    BY <1>2 DEF Tops, NotOlder, Shows
  <2>2. QED
    BY <1>1, <2>1 DEF Shows
<1>3. CASE S # {}
  <2>1. PICK l \in S : Tops(fd, S, l) /\ Says(row, fd[l])
    BY <1>3 DEF Shows
  <2>2. row # None /\ row.version = fd[l].version /\ l \in S
    BY <2>1 DEF Says, Tops
  <2>3. fd[l].version \in Nat /\ fd[k].version \in Nat
    BY <2>2
  <2>4. CASE fd[k].version >= fd[l].version
    <3>1. ASSUME NEW j \in S PROVE fd[j].version <= fd[l].version /\ fd[j].version \in Nat
      <4>1. fd[j].version \in Nat /\ (fd[j].version < fd[l].version \/ fd[j].version = fd[l].version)
        BY <2>1 DEF Tops
      <4>2. QED
        BY <2>3, <4>1
    <3>2. Tops(fd, T, k)
      BY <1>1, <2>3, <2>4, <3>1 DEF Tops
    <3>3. Says(new, fd[k])
      BY <2>2, <2>4 DEF NotOlder
    <3>4. QED
      BY <1>1, <3>2, <3>3 DEF Shows
  <2>5. CASE fd[k].version < fd[l].version
    <3>1. Tops(fd, T, l)
      BY <2>1, <2>2, <2>5 DEF Tops
    <3>2. ~ NotOlder(row, fd[k].version)
      BY <2>2, <2>3, <2>5 DEF NotOlder
    <3>3. QED
      BY <1>1, <2>1, <3>1, <3>2 DEF Shows
  <2>6. QED
    BY <2>3, <2>4, <2>5
<1>4. QED
  BY <1>2, <1>3

\* The log's next change.
LEMMA NextFact ==
  ASSUME feed \in Seq(Change), NEW n \in Nat, n + 1 <= Len(feed), NEW ca \in Catalogs,
         NEW p \in Product, FeedAssumption, ProjectionAssumption,
         NewestOf(feed, 1..n, ca, p)
  PROVE  NewestOf(feed, 1..(n + 1), Effect(ca, feed[n + 1]), p)
<1> DEFINE k == n + 1
           x == feed[k]
           F == FactsOn(feed, 1..n, p)
           G == FactsOn(feed, 1..k, p)
           S == LiveFacts(feed, 1..n, p)
           T == LiveFacts(feed, 1..k, p)
           row == ca.product[p]
           new == Effect(ca, x).product[p]
           OnP == x.type \in {"product", "remove"} /\ x.id = p
<1>1. x \in Change /\ k \in Nat /\ k \notin 1..n /\ 1..k = 1..n \union {k}
  OBVIOUS
<1>2. G = IF OnP THEN F \union {k} ELSE F
  BY <1>1 DEF FactsOn
<1>3. F \subseteq 1..n /\ S \subseteq F /\ T \subseteq G
  BY DEF FactsOn, LiveFacts
<1>4. S = {i \in F : \E j \in F : feed[j].type = "product" /\ j <= i}
  BY DEF LiveFacts
<1>5. T = {i \in G : \E j \in G : feed[j].type = "product" /\ j <= i}
  BY DEF LiveFacts
<1>6. \A j \in G : feed[j].version \in Nat
  <2>1. SUFFICES ASSUME NEW j \in G PROVE feed[j].version \in Nat
    OBVIOUS
  <2>2. feed[j] \in Change /\ feed[j].type \in {"product", "remove"}
    BY <1>1 DEF FactsOn
  <2>3. QED
    BY <2>2 DEF Change, CatalogChange, CustomerChange
<1>7. OnP => /\ x.version \in Nat
             /\ row = None /\ x.type = "remove" => new = None
             /\ row # None \/ x.type = "product" =>
                  IF NotOlder(row, x.version) THEN Says(new, x) ELSE new = row
  BY <1>1, ThisProduct
<1>8. ~ OnP => new = row
  BY <1>1, OtherProduct
<1>9. Shows(feed, S, row)
  BY DEF NewestOf
<1>10. SUFFICES Shows(feed, T, new)
  BY DEF NewestOf
<1>11. k = n + 1 /\ x = feed[k]
  OBVIOUS
<1> HIDE DEF F, G, S, T, row, new, k, x
<1>12. ASSUME ~ OnP PROVE Shows(feed, T, new)
  <2>1. T = S /\ new = row
    BY <1>2, <1>4, <1>5, <1>8, <1>12
  <2>2. QED
    BY <1>9, <2>1
<1>13. ASSUME OnP, S = {}, x.type = "remove"
       PROVE  Shows(feed, T, new)
  <2>1. G = F \union {k} /\ feed[k].type # "product"
    BY <1>2, <1>11, <1>13
  <2>2. \A j \in F : feed[j].type # "product"
    BY <1>3, <1>4, <1>13
  <2>3. T = {}
    BY <1>5, <2>1, <2>2
  <2>4. QED
    BY <1>7, <1>9, <1>13, <2>3 DEF Shows
<1>14. ASSUME OnP, S # {} \/ x.type = "product"
       PROVE  Shows(feed, T, new)
  <2>1. G = F \union {k}
    BY <1>2, <1>14
  <2>2. \A i \in F : i \in Nat /\ i < k
    BY <1>3, <1>11
  <2>3. \A i \in F : i \in T <=> i \in S
    BY <1>4, <1>5, <1>11, <2>1, <2>2
  <2>4. k \in T
    <3>1. \E j \in G : feed[j].type = "product" /\ j <= k
      BY <1>1, <1>4, <1>11, <1>14, <2>1, <2>2
    <3>2. QED
      BY <1>5, <2>1, <3>1
  <2>5. T = S \union {k}
    BY <1>3, <2>1, <2>3, <2>4
  <2>6. \A j \in T : feed[j].version \in Nat
    BY <1>3, <1>6
  <2>7. S \in SUBSET (1..n)
    BY <1>3
  <2>8. S # {} => row # None
    BY <1>9 DEF Says, Shows
  <2>9. IF NotOlder(row, feed[k].version) THEN Says(new, feed[k]) ELSE new = row
    BY <1>7, <1>11, <1>14, <2>8
  <2>10. k \in Nat /\ k = n + 1
    BY <1>1, <1>11
  <2>11. QED
    BY <1>9, <2>5, <2>6, <2>7, <2>9, <2>10, NextTop
<1>15. OnP => x.type \in {"product", "remove"}
  OBVIOUS
<1>16. QED
  BY <1>12, <1>13, <1>14, <1>15

\* The store's transactions that are not Apply leave the rows of products alone.
LEMMA NewestInvInductive ==
  FeedInv /\ FeedInv' /\ FeedAssumption /\ NewestInv /\ [Next]_vars => NewestInv'
<1> SUFFICES ASSUME FeedInv, FeedInv', FeedAssumption, NewestInv, [Next]_vars
             PROVE  NewestInv'
  OBVIOUS
<1>1. feed \in Seq(Change) /\ catalog \in Catalogs
  BY DEF FeedInv, LogOK, StoreOK, FileOK
<1>2. PICK n \in Nat : inbox = 1..n /\ n <= Len(feed)
  BY DEF FeedInv, StoreOK, FileOK
<1>3. ASSUME UNCHANGED <<feed, inbox, catalog, saved>> PROVE NewestInv'
  BY <1>3 DEF NewestInv
<1>4. ASSUME NEW x \in ChangeInput, Publish(x) PROVE NewestInv'
  <2>1. feed' = Append(feed, x) /\ x \in Change /\ UNCHANGED <<inbox, catalog, saved>>
    BY <1>4 DEF Publish, file, FeedAssumption
  <2>2. \A p \in Product : NewestOf(feed', inbox, catalog, p)
    BY <1>1, <1>2, <2>1, OlderFacts DEF NewestInv
  <2>3. ASSUME saved # <<>> PROVE \A p \in Product : NewestOf(feed', saved[1][2], saved[1][3], p)
    <3>1. PICK m \in Nat : saved[1][2] = 1..m /\ m <= Len(feed)
      BY <2>3 DEF FeedInv, SavedOK, FileOK
    <3>2. QED
      BY <1>1, <2>1, <2>3, <3>1, OlderFacts DEF NewestInv
  <2>4. QED
    BY <2>1, <2>2, <2>3 DEF NewestInv
<1>5. CASE Apply
  <2>1. UNCHANGED <<feed, saved>>
    BY <1>5 DEF Apply, central
  <2>2. CASE AppliedBefore(next)
    BY <1>3, <1>5, <2>1, <2>2 DEF Apply
  <2>3. CASE ~AppliedBefore(next)
    <3>1. inbox' = inbox \union {next} /\ catalog' = Effect(catalog, feed[next])
      BY <1>5, <2>3 DEF Apply, ApplyTx
    <3>2. next \in Nat \ {0} /\ next <= Len(feed) /\ 1..(next - 1) \subseteq inbox
      BY <1>5 DEF Apply, FeedInv, PageOK
    <3>3. next = n + 1
      BY <1>2, <2>3, <3>2 DEF AppliedBefore
    <3>4. inbox' = 1..(n + 1)
      BY <1>2, <3>1, <3>3
    <3>5. ASSUME NEW p \in Product PROVE NewestOf(feed, inbox', catalog', p)
      <4>1. NewestOf(feed, 1..n, catalog, p)
        BY <1>2 DEF NewestInv
      <4>2. NewestOf(feed, 1..(n + 1), Effect(catalog, feed[n + 1]), p)
        BY <1>1, <3>2, <3>3, <4>1, NextFact, ProjectionAssumption
      <4>3. QED
        BY <3>1, <3>3, <3>4, <4>2
    <3>6. QED
      BY <2>1, <3>5 DEF NewestInv
  <2>4. QED
    BY <2>2, <2>3
<1>6. CASE Pull
  <2>1. CASE Tick
    BY <1>3, <2>1 DEF Tick, central, file
  <2>2. CASE Ask
    BY <1>3, <2>2 DEF Ask, central, file
  <2>3. CASE Refuse
    BY <1>3, <2>3 DEF Refuse, central, file
  <2>4. CASE EndPage
    BY <1>3, <2>4 DEF EndPage, central
  <2>5. QED
    BY <1>5, <1>6, <2>1, <2>2, <2>3, <2>4 DEF Pull
<1>7. CASE Fault
  BY <1>3, <1>7 DEF Fault, central, file
<1>8. ASSUME NEW c, NEW v, Emit(c, v) PROVE NewestInv'
  BY <1>3, <1>8 DEF Emit
<1>9. CASE \E c \in LocalCustomer, m \in Phone \union {None} : CreateCustomer(c, m)
  BY <1>8, <1>9 DEF CreateCustomer
<1>10. CASE \E c \in Customer, m \in Phone \union {None} : UpdateCustomer(c, m)
  BY <1>8, <1>10 DEF UpdateCustomer
<1>11. CASE \E p \in Product : Sell(p)
  BY <1>3, <1>11 DEF Sell, central
<1>12. CASE Backup
  <2>1. /\ saved' = <<<<cursor, inbox, catalog, stock, customer, sent, edits>>>>
        /\ UNCHANGED <<feed, inbox, catalog>>
    BY <1>12 DEF Backup, central, file
  <2>2. saved'[1][2] = inbox /\ saved'[1][3] = catalog
    BY <2>1
  <2>3. QED
    BY <2>1, <2>2 DEF NewestInv
<1>13. CASE Restore
  <2>1. inbox' = saved[1][2] /\ catalog' = saved[1][3] /\ saved # <<>> /\ UNCHANGED <<feed, saved>>
    BY <1>13 DEF Restore, central
  <2>2. QED
    BY <2>1 DEF NewestInv
<1>14. CASE UNCHANGED vars
  BY <1>3, <1>14 DEF vars, central, file
<1>15. QED
  BY <1>4, <1>6, <1>7, <1>9, <1>10, <1>11, <1>12, <1>13, <1>14 DEF Next

\* Two facts that are both the newest are one.
LEMMA OneNewest ==
  ASSUME NEW fd, NEW S \in SUBSET Nat, \A j \in S : fd[j].version \in Nat,
         NEW l, Tops(fd, S, l)
  PROVE  (CHOOSE i \in S : \A j \in S : \/ fd[j].version < fd[i].version
                                        \/ fd[j].version = fd[i].version /\ j <= i) = l
<1> DEFINE P(i) == \A j \in S : \/ fd[j].version < fd[i].version
                                \/ fd[j].version = fd[i].version /\ j <= i
<1>1. l \in S /\ P(l)
  BY DEF Tops
<1>2. ASSUME NEW m \in S, P(m) PROVE m = l
  <2>1. m \in Nat /\ l \in Nat /\ fd[m].version \in Nat /\ fd[l].version \in Nat
    BY <1>1
  <2>2. fd[l].version < fd[m].version \/ (fd[l].version = fd[m].version /\ l <= m)
    BY <1>1, <1>2
  <2>3. fd[m].version < fd[l].version \/ (fd[m].version = fd[l].version /\ m <= l)
    BY <1>1
  <2>4. QED
    BY <2>1, <2>2, <2>3
<1> HIDE DEF P
<1>3. (CHOOSE i \in S : P(i)) = l
  BY <1>1, <1>2
<1>4. QED
  BY <1>3 DEF P

\* What the store knows of a product is the newest of what it was told, whatever
\* the order it was told in, and whatever is redelivered or restored.
THEOREM FeedNewestFactWins == Spec => []NewestFactWins
<1>1. Init => NewestInv
  BY DEF Init, NewestInv, NewestOf, Shows, LiveFacts, FactsOn, EmptyCatalog
<1>2. FeedInv /\ FeedInv' /\ NewestInv /\ [Next]_vars => NewestInv'
  BY NewestInvInductive, FeedAssumption
<1>3. ASSUME FeedInv, NewestInv PROVE NewestFactWins
  <2>1. SUFFICES ASSUME NEW p \in Product
                 PROVE  LET Facts == {i \in inbox : /\ feed[i].type \in {"product", "remove"}
                                                    /\ feed[i].id = p}
                            Ups   == {i \in Facts : feed[i].type = "product"}
                            Live  == {i \in Facts : \E j \in Ups : j <= i}
                            Last  == CHOOSE i \in Live : \A j \in Live :
                                       \/ feed[j].version < feed[i].version
                                       \/ feed[j].version = feed[i].version /\ j <= i
                        IN  IF Live = {} THEN catalog.product[p] = None
                            ELSE /\ catalog.product[p].version = feed[Last].version
                                 /\ catalog.product[p].active =
                                      (feed[Last].type = "product" /\ feed[Last].active)
    BY DEF NewestFactWins
  <2> DEFINE Facts == {i \in inbox : feed[i].type \in {"product", "remove"} /\ feed[i].id = p}
             Ups   == {i \in Facts : feed[i].type = "product"}
             Live  == {i \in Facts : \E j \in Ups : j <= i}
             Last  == CHOOSE i \in Live : \A j \in Live :
                        \/ feed[j].version < feed[i].version
                        \/ feed[j].version = feed[i].version /\ j <= i
  <2>2. Facts = FactsOn(feed, inbox, p)
    BY DEF FactsOn
  <2>3. Live = LiveFacts(feed, inbox, p)
    BY <2>2 DEF LiveFacts
  <2>4. Shows(feed, Live, catalog.product[p])
    BY <1>3, <2>3 DEF NewestInv, NewestOf
  <2>5. Live \in SUBSET Nat /\ \A j \in Live : feed[j].version \in Nat
    <3>1. PICK n \in Nat : inbox = 1..n /\ n <= Len(feed)
      BY <1>3 DEF FeedInv, StoreOK, FileOK
    <3>2. ASSUME NEW j \in Facts PROVE j \in Nat /\ feed[j].version \in Nat
      <4>1. feed[j] \in Change /\ feed[j].type \in {"product", "remove"} /\ j \in Nat
        BY <1>3, <3>1 DEF FeedInv, LogOK
      <4>2. QED
        BY <4>1 DEF Change, CatalogChange, CustomerChange
    <3>3. QED
      BY <3>2
  <2> HIDE DEF Facts, Ups, Live
  <2>6. ASSUME Live # {}
        PROVE  Says(catalog.product[p], feed[Last])
    <3>1. PICK l \in Live : Tops(feed, Live, l) /\ Says(catalog.product[p], feed[l])
      BY <2>4, <2>6 DEF Shows
    <3>2. Last = l
      BY <2>5, <3>1, OneNewest
    <3>3. QED
      BY <3>1, <3>2
  <2> HIDE DEF Last
  <2>7. IF Live = {} THEN catalog.product[p] = None
        ELSE /\ catalog.product[p].version = feed[Last].version
             /\ catalog.product[p].active = (feed[Last].type = "product" /\ feed[Last].active)
    BY <2>4, <2>6 DEF Shows, Says
  <2>8. QED
    BY <2>7 DEF Facts, Ups, Live, Last
<1>4. QED
  BY <1>1, <1>2, <1>3, FeedInvariant, PTL DEF Spec

-----------------------------------------------------------------------------
(* How an edit can be lost                                                 *)

\* A change of customer c that names none of the ids stores know it by.
Unnamed(x, c) == x.type = "customer" /\ x.id = c /\ x.mapped = {}

\* In a database file: a row in conflict has met an unnamed change.
ConflictExplained(fd, ib, cs) ==
  \A c \in Customer :
    cs[c] # None /\ cs[c].state = "conflict" => \E i \in ib : Unnamed(fd[i], c)

ConflictInv ==
  /\ ConflictExplained(feed, inbox, customer)
  /\ saved # <<>> => LET f == saved[1] IN ConflictExplained(feed, f[2], f[5])

\* A change of Central replaces an edit it does not name as taken in only if it
\* names no customer of the store, and, if it has no mapping at all, only after
\* another such change of that customer was applied.
ReplacedUnnamed ==
  \A c \in Customer :
    customer[c] # None /\ customer[c].state # "synced" /\ customer'[c].state = "synced"
    => LET x == feed[next]
       IN  \/ \E m \in x.mapped : m[1] = c /\ m[2] >= customer[c].version
           \/ /\ x.id = c
              /\ \A m \in x.mapped : customer[m[1]] = None
              /\ x.mapped = {} => \E i \in inbox : Unnamed(feed[i], c)

EditsLostUnnamed == [][Apply => ReplacedUnnamed]_vars

LEMMA ExplainedLonger ==
  ASSUME NEW ib, NEW cs, NEW x, feed \in Seq(Change), ib \subseteq 1..Len(feed),
         ConflictExplained(feed, ib, cs)
  PROVE  ConflictExplained(Append(feed, x), ib, cs)
<1>1. \A i \in ib : Append(feed, x)[i] = feed[i]
  OBVIOUS
<1>2. QED
  BY <1>1 DEF ConflictExplained

\* Only an unnamed change turns a row to conflict.
LEMMA TurnsToConflict ==
  ASSUME customer \in Table(Customer, CustomerRow), NEW x \in CustomerChange,
         FeedAssumption, NEW c \in Customer, UpsertCustomer(x)[c] # None,
         UpsertCustomer(x)[c].state = "conflict", UpsertCustomer(x)[c] # customer[c]
  PROVE  Unnamed(x, c)
<1> DEFINE t == Target(x)
           row == [version |-> KeptVersion(customer[t]), state |-> "synced", phone |-> x.phone]
           u == [customer[t] EXCEPT !.state = "conflict"]
<1>1. ~Preserved(x)
  BY DEF UpsertCustomer
<1>2. CASE Conflicting(x)
  <2>1. t = x.id /\ x.mapped = {}
    BY <1>2 DEF Conflicting, Known, Target
  <2>2. UpsertCustomer(x) = [customer EXCEPT ![t] = u]
    BY <1>1, <1>2 DEF UpsertCustomer
  <2> HIDE DEF t, u
  <2>3. c = t
    BY <2>2 DEF Table
  <2>4. QED
    BY <2>1, <2>3 DEF Unnamed, CustomerChange
<1>3. CASE ~Conflicting(x)
  <2>1. UpsertCustomer(x) = [customer EXCEPT ![t] = row]
    BY <1>1, <1>3 DEF UpsertCustomer
  <2>2. row.state = "synced"
    OBVIOUS
  <2> HIDE DEF t, row
  <2>3. QED
    BY <2>1, <2>2 DEF Table
<1>4. QED
  BY <1>2, <1>3

\* What a change of the log that is applied does to the customers.
LEMMA AppliedCustomer ==
  ASSUME FeedInv, Apply, customer' # customer
  PROVE  /\ next \in 1..Len(feed) /\ feed[next] \in CustomerChange
         /\ AcceptsCustomer(feed[next])
         /\ customer' = UpsertCustomer(feed[next]) /\ inbox' = inbox \union {next}
<1>1. /\ feed[next].type = "customer" /\ customer' = UpsertCustomer(feed[next])
      /\ AcceptsCustomer(feed[next]) /\ inbox' = inbox \union {next}
  BY DEF Apply, ApplyTx, AcceptsChange
<1>2. next \in 1..Len(feed) /\ feed \in Seq(Change)
  BY DEF Apply, FeedInv, PageOK, LogOK
<1>3. feed[next] \in CustomerChange
  <2>1. feed[next] \in Change
    BY <1>2
  <2>2. QED
    BY <1>1, <2>1 DEF Change, CatalogChange
<1>4. QED
  BY <1>1, <1>2, <1>3

LEMMA ConflictInvInductive ==
  FeedInv /\ FeedAssumption /\ ConflictInv /\ [Next]_vars => ConflictInv'
<1> SUFFICES ASSUME FeedInv, FeedAssumption, ConflictInv, [Next]_vars PROVE ConflictInv'
  OBVIOUS
<1>1. /\ customer \in Table(Customer, CustomerRow) /\ feed \in Seq(Change)
      /\ inbox \subseteq 1..Len(feed)
  BY DEF FeedInv, LogOK, StoreOK, FileOK
<1>2. CASE UNCHANGED <<feed, inbox, customer, saved>>
  BY <1>2 DEF ConflictInv
<1>3. CASE Apply
  <2>1. UNCHANGED <<feed, saved>> /\ inbox \subseteq inbox'
    BY <1>3 DEF Apply, central
  <2>2. ASSUME NEW c \in Customer, customer'[c] # None, customer'[c].state = "conflict"
        PROVE  \E i \in inbox' : Unnamed(feed[i], c)
    <3>1. CASE customer'[c] = customer[c]
      BY <2>1, <2>2, <3>1 DEF ConflictInv, ConflictExplained
    <3>2. CASE customer'[c] # customer[c]
      <4>1. feed[next] \in CustomerChange /\ customer' = UpsertCustomer(feed[next])
            /\ next \in inbox'
        BY <1>3, <3>2, AppliedCustomer
      <4>2. QED
        BY <1>1, <2>2, <3>2, <4>1, TurnsToConflict
    <3>3. QED
      BY <3>1, <3>2
  <2>3. QED
    BY <2>1, <2>2 DEF ConflictInv, ConflictExplained
<1>4. ASSUME NEW c \in Customer, NEW row, row.state = "pending",
             customer' = [customer EXCEPT ![c] = row], UNCHANGED <<feed, inbox, saved>>
      PROVE  ConflictInv'
  BY <1>1, <1>4 DEF Table, ConflictInv, ConflictExplained
<1>5. ASSUME NEW c \in LocalCustomer, NEW n \in Phone \union {None}, CreateCustomer(c, n)
      PROVE  ConflictInv'
  <2>1. c \in Customer
    BY DEF FeedAssumption
  <2>2. QED
    BY <1>4, <1>5, <2>1 DEF CreateCustomer, Emit
<1>6. ASSUME NEW c \in Customer, NEW n \in Phone \union {None}, UpdateCustomer(c, n)
      PROVE  ConflictInv'
  BY <1>4, <1>6 DEF UpdateCustomer, Emit
<1>7. ASSUME NEW x \in ChangeInput, Publish(x) PROVE ConflictInv'
  <2>1. feed' = Append(feed, x) /\ UNCHANGED <<inbox, customer, saved>>
    BY <1>7 DEF Publish, file
  <2>2. ConflictExplained(feed', inbox, customer)
    BY <1>1, <2>1, ExplainedLonger DEF ConflictInv
  <2>3. ASSUME saved # <<>>
        PROVE  LET f == saved[1] IN ConflictExplained(feed', f[2], f[5])
    <3> DEFINE ib == saved[1][2]
               cs == saved[1][5]
    <3>1. ib \subseteq 1..Len(feed)
      BY <1>1, <2>3 DEF FeedInv, SavedOK, FileOK
    <3>2. ConflictExplained(feed, ib, cs)
      BY <2>3 DEF ConflictInv
    <3> HIDE DEF ib, cs
    <3>3. ConflictExplained(feed', ib, cs)
      BY <1>1, <2>1, <3>1, <3>2, ExplainedLonger
    <3>4. QED
      BY <3>3 DEF ib, cs
  <2>4. QED
    BY <2>1, <2>2, <2>3 DEF ConflictInv
<1>8. CASE Backup
  <2>1. saved' = <<<<cursor, inbox, catalog, stock, customer, sent, edits>>>>
        /\ UNCHANGED <<feed, inbox, customer>>
    BY <1>8 DEF Backup, file, central
  <2>2. QED
    BY <2>1 DEF ConflictInv
<1>9. CASE Restore
  BY <1>9 DEF Restore, ConflictInv, central
<1>10. QED
  BY <1>2, <1>3, <1>5, <1>6, <1>7, <1>8, <1>9
  DEF Next, Pull, Tick, Ask, Refuse, EndPage, Fault, Sell, vars, file, central

\* What the row of an edited customer becomes "synced" by.
LEMMA ReplacesEdit ==
  ASSUME customer \in Table(Customer, CustomerRow), FeedAssumption,
         NEW x \in CustomerChange, AcceptsCustomer(x),
         NEW c \in Customer, customer[c] # None, customer[c].state # "synced",
         UpsertCustomer(x)[c].state = "synced"
  PROVE  \/ \E m \in x.mapped : m[1] = c /\ m[2] >= customer[c].version
         \/ /\ x.id = c
            /\ \A m \in x.mapped : customer[m[1]] = None
            /\ x.mapped = {} => customer[c].state = "conflict"
<1> DEFINE t == Target(x)
           row == [version |-> KeptVersion(customer[t]), state |-> "synced", phone |-> x.phone]
           u == [customer[t] EXCEPT !.state = "conflict"]
<1>1. /\ customer[c] \in CustomerRow /\ x.mapped \subseteq Customer \X (Nat \ {0})
      /\ ~Preserved(x)
  BY DEF Table, UpsertCustomer, CustomerChange
<1>2. c = t
  <2>1. \/ UpsertCustomer(x) = [customer EXCEPT ![t] = u]
        \/ UpsertCustomer(x) = [customer EXCEPT ![t] = row]
    BY <1>1 DEF UpsertCustomer
  <2> HIDE DEF t, u, row
  <2>2. QED
    BY <2>1 DEF Table
<1>3. ~Conflicting(x)
  <2>1. SUFFICES ASSUME Conflicting(x) PROVE FALSE
    OBVIOUS
  <2>2. UpsertCustomer(x) = [customer EXCEPT ![t] = u]
    BY <1>1, <2>1 DEF UpsertCustomer
  <2>3. u.state = "conflict"
    BY <1>1, <1>2 DEF CustomerRow
  <2> HIDE DEF t, u
  <2>4. UpsertCustomer(x)[c] = u
    BY <1>2, <2>2 DEF Table
  <2>5. QED
    BY <2>3, <2>4
<1>4. CASE Known(x) # {}
  <2>1. PICK m \in Known(x) : m = CHOOSE k \in Known(x) : TRUE
    BY <1>4
  <2>2. m[1] = c /\ m \in x.mapped /\ m[2] \in Nat
    BY <1>1, <1>2, <1>4, <2>1 DEF Known, Target
  <2>3. customer[c].state \in {"pending", "conflict"}
    BY <1>1 DEF CustomerRow
  <2>4. m[2] >= customer[c].version
    BY <1>1, <2>1, <2>2, <2>3 DEF Preserved, CustomerRow
  <2>5. QED
    BY <2>2, <2>4
<1>5. CASE Known(x) = {}
  <2>1. x.id = c /\ \A m \in x.mapped : customer[m[1]] = None
    BY <1>2, <1>5 DEF Known, Target
  <2>2. x.mapped = {} => customer[c].state = "conflict"
    BY <1>1, <1>3, <2>1 DEF Conflicting, CustomerRow
  <2>3. QED
    BY <2>1, <2>2
<1>6. QED
  BY <1>4, <1>5

\* No change of Central replaces an edit it did not take in and whose customer it
\* names, and the first change without a mapping replaces none: what loses an
\* edit is the second of them, or a mapping to customers the store does not have.
THEOREM FeedEditsLostUnnamed == Spec => EditsLostUnnamed
<1>1. Init => ConflictInv
  BY DEF Init, ConflictInv, ConflictExplained
<1>2. ASSUME FeedInv, ConflictInv, Apply PROVE ReplacedUnnamed
  <2>1. SUFFICES ASSUME NEW c \in Customer,
                        customer[c] # None, customer[c].state # "synced",
                        customer'[c].state = "synced"
                 PROVE  \/ \E m \in feed[next].mapped : m[1] = c /\ m[2] >= customer[c].version
                        \/ /\ feed[next].id = c
                           /\ \A m \in feed[next].mapped : customer[m[1]] = None
                           /\ feed[next].mapped = {} => \E i \in inbox : Unnamed(feed[i], c)
    BY DEF ReplacedUnnamed
  <2>2. /\ feed[next] \in CustomerChange /\ AcceptsCustomer(feed[next])
        /\ customer' = UpsertCustomer(feed[next])
    BY <1>2, <2>1, AppliedCustomer
  <2>3. customer \in Table(Customer, CustomerRow)
    BY <1>2 DEF FeedInv, StoreOK, FileOK
  <2>4. \/ \E m \in feed[next].mapped : m[1] = c /\ m[2] >= customer[c].version
        \/ /\ feed[next].id = c
           /\ \A m \in feed[next].mapped : customer[m[1]] = None
           /\ feed[next].mapped = {} => customer[c].state = "conflict"
    BY <2>1, <2>2, <2>3, FeedAssumption, ReplacesEdit
  <2>5. QED
    BY <1>2, <2>1, <2>4 DEF ConflictInv, ConflictExplained
<1>3. FeedInv /\ ConflictInv /\ [Next]_vars => FeedInv' /\ ConflictInv'
  BY ConflictInvInductive, FeedInvInductive, FeedAssumption
<1>4. QED
  BY EmptyStart, <1>1, <1>2, <1>3, PTL DEF Spec, EditsLostUnnamed

=============================================================================
