----------------------------- MODULE Projection -----------------------------
(***************************************************************************)
(* The catalog a store keeps of what Central sells, and what each change   *)
(* of the feed does to it (internal/inbox).  Every operator is the effect  *)
(* of one transaction; there are no variables here.                        *)
(*                                                                         *)
(* Rows are kept by their columns that decide something: versions, who is  *)
(* active, and who refers to whom.  Names, amounts and dates are left out. *)
(***************************************************************************)
EXTENDS Integers

CONSTANTS
  Category, Product, Price, Barcode,  \* identifiers Central uses
  None                                \* a row that is not there, a NULL column

Table(Id, Row) == [Id -> Row \union {None}]

CategoryRow == [version : Nat, active : BOOLEAN, parent : Category \union {None}]
ProductRow  == [version : Nat, active : BOOLEAN, category : Category \union {None}]
PriceRow    == [version : Nat, product : Product]
BarcodeRow  == [product : Product, primary : BOOLEAN]

\* None is not a row.
ASSUME ProjectionAssumption ==
  None \notin CategoryRow \union ProductRow \union PriceRow \union BarcodeRow

Catalogs ==
  [category : Table(Category, CategoryRow),
   product  : Table(Product, ProductRow),
   price    : Table(Price, PriceRow),
   barcode  : Table(Barcode, BarcodeRow)]

EmptyCatalog ==
  [category |-> [c \in Category |-> None],
   product  |-> [p \in Product |-> None],
   price    |-> [q \in Price |-> None],
   barcode  |-> [b \in Barcode |-> None]]

\* The changes of the feed that concern the catalog.  "invalid" stands for a
\* payload or type the inbox does not accept, or a schema it does not know.
\* A product's stock is None if it is not tracked or Central gives no figure.
CatalogChange ==
       [type : {"category"}, id : Category, version : Nat, active : BOOLEAN,
        parent : Category \union {None}]
  \union [type : {"categories"}, version : Nat \ {0}, listed : SUBSET Category]
  \union [type : {"product"}, id : Product, version : Nat, active : BOOLEAN,
          category : Category \union {None}, stock : Nat \union {None}]
  \union [type : {"remove"}, id : Product, version : Nat \ {0}]
  \union [type : {"price"}, id : Price, version : Nat, product : Product]
  \union [type : {"barcode"}, id : Barcode, product : Product, primary : BOOLEAN]
  \union [type : {"invalid"}]

-----------------------------------------------------------------------------
\* Mutant of NotOlder: the guard of the upsert is lost.
NotOlderUnchecked(row, v) == TRUE

\* The WHERE of every versioned upsert: it inserts, or it replaces a row that
\* is not newer.
NotOlder(row, v) == row = None \/ v >= row.version

UpsertCategory(cat, x) ==
  IF NotOlder(cat.category[x.id], x.version)
  THEN [cat EXCEPT !.category[x.id] =
          [version |-> x.version, active |-> x.active, parent |-> x.parent]]
  ELSE cat

\* Everything not newer is retired, then what is listed is upserted as active;
\* a row that was there keeps its parent.
ApplyCategorySnapshot(cat, x) ==
  LET Parent(row) == IF row = None THEN None ELSE row.parent
      Entry(c) ==
        LET row == cat.category[c]
        IN  IF ~NotOlder(row, x.version) THEN row
            ELSE IF c \in x.listed
            THEN [version |-> x.version, active |-> TRUE, parent |-> Parent(row)]
            ELSE IF row = None THEN None
            ELSE [version |-> x.version, active |-> FALSE, parent |-> row.parent]
  IN  [cat EXCEPT !.category = [c \in Category |-> Entry(c)]]

UpsertProduct(cat, x) ==
  IF NotOlder(cat.product[x.id], x.version)
  THEN [cat EXCEPT !.product[x.id] =
          [version |-> x.version, active |-> x.active, category |-> x.category]]
  ELSE cat

\* A product that is known and not newer is retired, and its barcodes and
\* prices are deleted.  One that is unknown leaves nothing behind.
RemoveProduct(cat, x) ==
  LET row == cat.product[x.id]
      Kept(r) == IF r # None /\ r.product = x.id THEN None ELSE r
  IN  IF row # None /\ NotOlder(row, x.version)
      THEN [cat EXCEPT
              !.product[x.id] = [version |-> x.version, active |-> FALSE,
                                 category |-> row.category],
              !.price = [q \in Price |-> Kept(cat.price[q])],
              !.barcode = [b \in Barcode |-> Kept(cat.barcode[b])]]
      ELSE cat

UpsertPrice(cat, x) ==
  IF NotOlder(cat.price[x.id], x.version)
  THEN [cat EXCEPT !.price[x.id] = [version |-> x.version, product |-> x.product]]
  ELSE cat

\* Barcodes carry no version: the last change wins.  A primary barcode replaces
\* the primary one the product had.
UpsertBarcode(cat, x) ==
  LET Replaced(row) == x.primary /\ row # None /\ row.product = x.product /\ row.primary
      Entry(b) ==
        IF b = x.id THEN [product |-> x.product, primary |-> x.primary]
        ELSE IF Replaced(cat.barcode[b]) THEN None
        ELSE cat.barcode[b]
  IN  [cat EXCEPT !.barcode = [b \in Barcode |-> Entry(b)]]

-----------------------------------------------------------------------------
\* Mutant of ReferencesHold: foreign keys are off.
ReferencesHoldUnchecked(cat, x) == TRUE

\* The foreign keys of the row the change writes; a stale change writes none.
ReferencesHold(cat, x) ==
  CASE x.type = "category" ->
         x.parent # None /\ NotOlder(cat.category[x.id], x.version)
           => x.parent = x.id \/ cat.category[x.parent] # None
    [] x.type = "product" ->
         x.category # None /\ NotOlder(cat.product[x.id], x.version)
           => cat.category[x.category] # None
    [] x.type = "price" ->
         NotOlder(cat.price[x.id], x.version)
           => cat.product[x.product] # None
    [] x.type = "barcode" -> cat.product[x.product] # None
    [] OTHER -> TRUE

\* The transaction of the change commits.
Accepts(cat, x) == x.type # "invalid" /\ ReferencesHold(cat, x)

\* What it leaves behind.
Effect(cat, x) ==
  CASE x.type = "category"   -> UpsertCategory(cat, x)
    [] x.type = "categories" -> ApplyCategorySnapshot(cat, x)
    [] x.type = "product"    -> UpsertProduct(cat, x)
    [] x.type = "remove"     -> RemoveProduct(cat, x)
    [] x.type = "price"      -> UpsertPrice(cat, x)
    [] x.type = "barcode"    -> UpsertBarcode(cat, x)
    [] OTHER                 -> cat

\* Every row refers to rows that are there.
Referential(cat) ==
  /\ \A c \in Category :
       cat.category[c] # None /\ cat.category[c].parent # None
         => cat.category[cat.category[c].parent] # None
  /\ \A p \in Product :
       cat.product[p] # None /\ cat.product[p].category # None
         => cat.category[cat.product[p].category] # None
  /\ \A q \in Price : cat.price[q] # None => cat.product[cat.price[q].product] # None
  /\ \A b \in Barcode : cat.barcode[b] # None => cat.product[cat.barcode[b].product] # None

=============================================================================
