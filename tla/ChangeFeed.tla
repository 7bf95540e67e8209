----------------------------- MODULE ChangeFeed -----------------------------
(***************************************************************************)
(* How a store follows Central (internal/changefeed, inbox, customer,      *)
(* backup).  Central keeps a log of changes.  One puller asks for the      *)
(* page behind its cursor, hands each change to the inbox, which applies   *)
(* it in one transaction with the mark that it did, and saves the cursor   *)
(* behind the page when all of it is applied.  Meanwhile the store sells   *)
(* stock and edits customers, and may be restored from a backup.           *)
(*                                                                         *)
(* The store is one SQLite file behind one connection, so every            *)
(* transaction and every statement outside one is a single step.  A        *)
(* cursor is the number of changes it stands behind: the log's positions   *)
(* are Central's, the store only keeps them and sends them back.           *)
(***************************************************************************)
EXTENDS Projection, Sequences, FiniteSets

CONSTANTS
  Customer,       \* customer ids of this store and of Central
  LocalCustomer,  \* those that customers created in this store may get
  Phone,          \* telephone numbers; a customer may have None
  ChangeInput,    \* the changes Central may make, see Change
  Page,           \* changes per answer
  MaxPages,       \* pages per tick of the puller
  \* Bounds of the environment.
  MaxLog,         \* changes Central makes
  MaxFaults,      \* failures and crashes of the puller
  MaxEdits,       \* local edits per customer
  MaxSales,       \* local stock movements
  MaxRestores     \* restores of a backup

\* A customer as Central sees it.  mapped are the ids stores know it by, each
\* with the version of that store's last edit Central has taken in.
CustomerChange ==
  [type : {"customer"}, id : Customer, phone : Phone \union {None},
   mapped : SUBSET (Customer \X (Nat \ {0}))]

Change == CatalogChange \union CustomerChange

CustomerRow ==
  [version : Nat, state : {"synced", "pending", "conflict"}, phone : Phone \union {None}]
StockRow == [onHand : Int, version : Nat]

ASSUME FeedAssumption ==
  /\ ChangeInput \subseteq Change
  /\ LocalCustomer \subseteq Customer
  /\ Page \in Nat \ {0} /\ MaxPages \in Nat \ {0}
  /\ {MaxLog, MaxFaults, MaxEdits, MaxSales, MaxRestores} \subseteq Nat
  /\ None \notin Customer \union Phone \union CustomerRow \union StockRow

VARIABLES
  feed,      \* Central's log
  heard,     \* customer.changed events Central may have received, <<id, version>>
  \* The store's database file.
  cursor,    \* sync_checkpoints.cursor_value of central_changes, 0 if no row
  inbox,     \* positions of the changes whose inbox_messages row is 'applied'
  catalog,   \* the catalog tables
  stock,     \* inventory_balances of the store
  customer,  \* table customers
  sent,      \* customer.changed rows of outbox_events, <<id, version>>
  edits,     \* history: accepted local edits per customer
  saved,     \* <<>> before there is a backup, then <<the file in it>>
  \* The puller.
  at,        \* "idle" between two ticks, "ask" before a page, "apply" in one
  from,      \* the cursor its page was asked with
  next,      \* the change to apply next
  upto,      \* the last change of the page
  more,      \* has_more of the page
  pages,     \* pages it has worked through since the tick
  \* Counters behind the bounds.
  faults, sales, restores

file   == <<cursor, inbox, catalog, stock, customer, sent, edits>>
puller == <<at, from, next, upto, more, pages>>
central == <<feed, heard>>
count  == <<faults, sales, restores>>
vars   == <<central, file, saved, puller, count>>

Init ==
  /\ feed = <<>> /\ heard = {}
  /\ cursor = 0 /\ inbox = {}
  /\ catalog = EmptyCatalog
  /\ stock = [p \in Product |-> None]
  /\ customer = [c \in Customer |-> None]
  /\ sent = {} /\ edits = [c \in Customer |-> 0]
  /\ saved = <<>>
  /\ at = "idle" /\ from = 0 /\ next = 1 /\ upto = 0 /\ more = FALSE /\ pages = 0
  /\ faults = 0 /\ sales = 0 /\ restores = 0

-----------------------------------------------------------------------------
(* Central                                                                 *)

\* Central says it has taken in an edit only if it was told of it.
Truthful(x) == x.type = "customer" => x.mapped \subseteq heard

Publish(x) ==
  /\ Len(feed) < MaxLog
  /\ Truthful(x)
  /\ feed' = Append(feed, x)
  /\ UNCHANGED <<heard, file, saved, puller, count>>

-----------------------------------------------------------------------------
(* Customers                                                               *)

\* The ids of this store that Central's change names.
Known(x) == {m \in x.mapped : customer[m[1]] # None}

Target(x) == IF Known(x) = {} THEN x.id ELSE (CHOOSE m \in Known(x) : TRUE)[1]

Ambiguous(x) == \E m, n \in Known(x) : m[1] # n[1]

\* The store has an edit Central has not taken in yet.
Preserved(x) ==
  \E m \in Known(x) :
    customer[m[1]].state \in {"pending", "conflict"} /\ customer[m[1]].version > m[2]

\* Central names no store's id, and the store has edited the customer.
Conflicting(x) ==
  x.mapped = {} /\ customer[x.id] # None /\ customer[x.id].state = "pending"

\* Another customer of the store has the number (unique index on phone).
PhoneTaken(c, phone) ==
  phone # None /\ \E d \in Customer \ {c} : customer[d] # None /\ customer[d].phone = phone

\* Mutant of KeptVersion: Central's version of the customer starts from zero.
KeptVersionReset(row) == 0

\* local_version of the row Central's data are written to.
KeptVersion(row) == IF row = None THEN 0 ELSE row.version

AcceptsCustomer(x) ==
  /\ ~Ambiguous(x)
  /\ Preserved(x) \/ Conflicting(x) \/ ~PhoneTaken(Target(x), x.phone)

UpsertCustomer(x) ==
  LET t == Target(x)
  IN  IF Preserved(x) THEN customer
      ELSE IF Conflicting(x) THEN [customer EXCEPT ![t].state = "conflict"]
      ELSE [customer EXCEPT ![t] =
              [version |-> KeptVersion(customer[t]), state |-> "synced", phone |-> x.phone]]

\* The insert of the customer.changed event, in the transaction of the edit;
\* an event of that customer and version that is there already stays.
Emit(c, v) ==
  /\ sent' = sent \union {<<c, v>>}
  /\ heard' = heard \union {<<c, v>>}
  /\ edits' = [edits EXCEPT ![c] = @ + 1]
  /\ UNCHANGED <<feed, cursor, inbox, catalog, stock, saved, puller, count>>

\* A new customer gets an id nobody has used.
CreateCustomer(c, phone) ==
  /\ customer[c] = None /\ <<c, 1>> \notin heard
  /\ ~PhoneTaken(c, phone)
  /\ customer' = [customer EXCEPT ![c] = [version |-> 1, state |-> "pending", phone |-> phone]]
  /\ Emit(c, 1)

UpdateCustomer(c, phone) ==
  /\ edits[c] < MaxEdits
  /\ customer[c] # None
  /\ ~PhoneTaken(c, phone)
  /\ LET v == customer[c].version + 1
     IN  /\ customer' = [customer EXCEPT ![c] =
                           [version |-> v, state |-> "pending", phone |-> phone]]
         /\ Emit(c, v)

-----------------------------------------------------------------------------
(* Stock                                                                   *)

\* What a product change with a stock figure does to the balance.
UpsertStock(x) ==
  IF x.stock # None /\ NotOlder(stock[x.id], x.version)
  THEN [stock EXCEPT ![x.id] = [onHand |-> x.stock, version |-> x.version]]
  ELSE stock

\* inventory.ApplySaleTx for one piece of a tracked product: the balance may
\* go below zero.
Sell(p) ==
  /\ sales < MaxSales
  /\ catalog.product[p] # None
  /\ LET row == IF stock[p] = None THEN [onHand |-> 0, version |-> 1] ELSE stock[p]
     IN  stock' = [stock EXCEPT ![p] = [onHand |-> row.onHand - 1, version |-> row.version + 1]]
  /\ sales' = sales + 1
  /\ UNCHANGED <<central, cursor, inbox, catalog, customer, sent, edits, saved, puller,
                 faults, restores>>

-----------------------------------------------------------------------------
(* The puller                                                              *)

Idle == at' = "idle" /\ from' = 0 /\ next' = 1 /\ upto' = 0 /\ more' = FALSE /\ pages' = 0

Tick ==
  /\ at = "idle"
  /\ at' = "ask"
  /\ UNCHANGED <<central, file, saved, from, next, upto, more, pages, count>>

\* Central answers with the page behind the cursor.
Ask ==
  /\ at = "ask"
  /\ at' = "apply"
  /\ from' = cursor
  /\ next' = cursor + 1
  /\ upto' = IF cursor + Page < Len(feed) THEN cursor + Page ELSE Len(feed)
  /\ more' = (upto' < Len(feed))
  /\ UNCHANGED <<central, file, saved, pages, count>>

\* Mutant of AppliedBefore: a change is applied whenever it is delivered.
AppliedBeforeNever(i) == FALSE

\* The inbox has a row 'applied' of the message.
AppliedBefore(i) == i \in inbox

\* The transaction that applies x commits.
AcceptsChange(x) == IF x.type = "customer" THEN AcceptsCustomer(x) ELSE Accepts(catalog, x)

ApplyTx(x) ==
  /\ catalog' = Effect(catalog, x)
  /\ stock' = IF x.type = "product" THEN UpsertStock(x) ELSE stock
  /\ customer' = IF x.type = "customer" THEN UpsertCustomer(x) ELSE customer

\* inbox.Apply of the next change of the page, when it returns no error.
Apply ==
  /\ at = "apply" /\ next <= upto
  /\ IF AppliedBefore(next)
     THEN UNCHANGED <<inbox, catalog, stock, customer>>
     ELSE /\ AcceptsChange(feed[next])
          /\ ApplyTx(feed[next])
          /\ inbox' = inbox \union {next}
  /\ next' = next + 1
  /\ UNCHANGED <<central, cursor, sent, edits, saved, at, from, upto, more, pages, count>>

\* Mutant of AfterRefusal: the puller logs a change it cannot apply and goes on.
AfterRefusalSkip == next' = next + 1 /\ UNCHANGED <<at, from, upto, more, pages>>

\* pullOnce returns the error and the rest of the tick is dropped.
AfterRefusal == Idle

\* inbox.Apply returns an error.  The row 'failed' it writes is rolled back
\* with the transaction.
Refuse ==
  /\ at = "apply" /\ next <= upto
  /\ ~AppliedBefore(next)
  /\ ~AcceptsChange(feed[next])
  /\ AfterRefusal
  /\ UNCHANGED <<central, file, saved, count>>

\* Mutant of NewCursor: the cursor is saved behind the last page of a tick only.
NewCursorAtEnd == IF upto > from /\ ~more THEN upto ELSE cursor

\* The cursor of the page, if it is not the one the page was asked with.
NewCursor == IF upto > from THEN upto ELSE cursor

\* The page is done: save the cursor and go for the next page, if there is one
\* and the tick has not had its share.
EndPage ==
  /\ at = "apply" /\ next > upto
  /\ cursor' = NewCursor
  /\ IF more /\ pages + 1 < MaxPages
     THEN at' = "ask" /\ pages' = pages + 1 /\ UNCHANGED <<from, next, upto, more>>
     ELSE Idle
  /\ UNCHANGED <<central, inbox, catalog, stock, customer, sent, edits, saved, count>>

\* A request or a statement fails, or the process stops and starts again.
Fault ==
  /\ at # "idle"
  /\ faults < MaxFaults
  /\ faults' = faults + 1
  /\ Idle
  /\ UNCHANGED <<central, file, saved, sales, restores>>

-----------------------------------------------------------------------------
(* Backups                                                                 *)

\* backup.Create: VACUUM INTO is one consistent snapshot.
Backup ==
  /\ restores < MaxRestores
  /\ saved' = <<file>>
  /\ UNCHANGED <<central, file, puller, count>>

\* An operator replaces the file by the backup while the service is stopped
\* (docs/RECOVERY.md); no code of the service does it.
Restore ==
  /\ saved # <<>>
  /\ restores < MaxRestores
  /\ restores' = restores + 1
  /\ LET f == saved[1]
     IN  /\ cursor' = f[1] /\ inbox' = f[2] /\ catalog' = f[3] /\ stock' = f[4]
         /\ customer' = f[5] /\ sent' = f[6] /\ edits' = f[7]
  /\ Idle
  /\ UNCHANGED <<central, saved, faults, sales>>

-----------------------------------------------------------------------------
Pull == Tick \/ Ask \/ Apply \/ Refuse \/ EndPage

Next ==
  \/ \E x \in ChangeInput : Publish(x)
  \/ Pull
  \/ Fault
  \/ \E c \in LocalCustomer, n \in Phone \union {None} : CreateCustomer(c, n)
  \/ \E c \in Customer, n \in Phone \union {None} : UpdateCustomer(c, n)
  \/ \E p \in Product : Sell(p)
  \/ Backup
  \/ Restore

Spec == Init /\ [][Next]_vars

\* The puller's goroutine runs, and its ticker ticks, for as long as the service.
FairSpec == Spec /\ WF_vars(Pull)

-----------------------------------------------------------------------------
(* Properties                                                              *)

\* The tables have their types and every row refers to rows that are there,
\* whatever the order in which Central's changes arrive.
TypeOK ==
  /\ feed \in Seq(Change)
  /\ heard \subseteq Customer \X Nat
  /\ cursor \in Nat
  /\ inbox \subseteq Nat
  /\ catalog \in Catalogs /\ Referential(catalog)
  /\ stock \in Table(Product, StockRow)
  /\ customer \in Table(Customer, CustomerRow)
  /\ sent \subseteq Customer \X Nat
  /\ edits \in [Customer -> Nat]
  /\ at \in {"idle", "ask", "apply"}
  /\ from \in Nat /\ next \in Nat \ {0} /\ upto \in Nat /\ more \in BOOLEAN /\ pages \in Nat

\* The cursor never passes a change that was not applied, whatever fails and
\* whatever backup is restored.
CursorIsBehind == 1..cursor \subseteq inbox

\* What the store knows of a row is its newest fact: the one of the highest
\* version, the last of them if there are several, among those applied since
\* the store knows the row.
NewestFactWins ==
  \A p \in Product :
    LET Facts == {i \in inbox : feed[i].type \in {"product", "remove"} /\ feed[i].id = p}
        Ups   == {i \in Facts : feed[i].type = "product"}
        Live  == {i \in Facts : \E j \in Ups : j <= i}
        Last  == CHOOSE i \in Live : \A j \in Live :
                   \/ feed[j].version < feed[i].version
                   \/ feed[j].version = feed[i].version /\ j <= i
    IN  IF Live = {} THEN catalog.product[p] = None
        ELSE /\ catalog.product[p].version = feed[Last].version
             /\ catalog.product[p].active =
                  (feed[Last].type = "product" /\ feed[Last].active)

\* Every edit of a customer has an event of its own for Central, however
\* Central's data come in between.  It speaks of the store's file: a restore takes
\* edits and events back together, and what Central heard of is not taken back.
EditsAreSent ==
  \A c \in Customer : Cardinality({e \in sent : e[1] = c}) = edits[c]

\* docs/V1_CENTRAL_POS_SYNC_ACCEPTANCE_MATRIX.md: "local pending edits remain
\* protected by mapping/version rules": Central's data replace an edit only if
\* Central says it has taken that edit in.
PendingEditSurvives ==
  [][\A c \in Customer :
       /\ inbox' # inbox /\ restores' = restores
       /\ customer[c] # None /\ customer[c].state # "synced"
       /\ customer'[c].state = "synced"
       => \E m \in feed[next].mapped : m[1] = c /\ m[2] >= customer[c].version]_vars

\* A change the store cannot apply now stands at or before position i.
Stuck(i) ==
  \E j \in 1..Len(feed) : j <= i /\ j \notin inbox /\ ~AcceptsChange(feed[j])

\* Every change Central makes arrives, unless one before it cannot be applied.
EveryChangeArrives ==
  \A i \in 1..MaxLog : Len(feed) >= i ~> i \in inbox \/ Stuck(i)

-----------------------------------------------------------------------------
(* Refinement                                                              *)

\* The place in the log and the catalog that a backup holds.
PlaceIn(b) == IF b = <<>> THEN <<0, EmptyCatalog>> ELSE <<Cardinality(b[1][2]), b[1][3]>>

Contract == INSTANCE FeedContract
  WITH log <- feed, applied <- Cardinality(inbox), catalog <- catalog, saved <- PlaceIn(saved)

\* Pages, cursor, inbox, faults and restores keep the promise of FeedContract.
ImplementsFeedContract == Contract!Spec

=============================================================================
