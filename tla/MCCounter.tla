----------------------------- MODULE MCCounter -----------------------------
(***************************************************************************)
(* Instances of Checkout for TLC.  A behaviour has one focus: one user's   *)
(* logins and enrolments, approvals and what they allow, one client order  *)
(* id sent by two cashiers, or refreshes of the configuration.  Approvals  *)
(* and orders start from what logins lead to: users are enrolled and have  *)
(* sessions, and in the latter a discount has been approved.  Identities   *)
(* of the same kind are used in one order.                                 *)
(***************************************************************************)
EXTENDS Checkout

CONSTANTS ann, bob, mia, pin1, pin2, s1, s2, l1, l2, l3, t1, r1, r2, o1, o2, p1, loop, post

VARIABLE focus

mcvars == <<vars, focus>>

MayDo(P, s) == [permissions |-> P, branch |-> s, all |-> s = None, ends |-> 2]

Cashier == MayDo({"pos:sale"}, s1)
Deputy  == MayDo({"pos:sale", "pos:void"}, s1)
Manager == MayDo({"pos:void", "pos:refund", "pos:discount", "pos:approve"}, s1)
Visitor == MayDo({"pos:void", "pos:approve"}, s2)

MCGrants ==
  {[user |-> ann, claims |-> Cashier], [user |-> ann, claims |-> Deputy],
   [user |-> mia, claims |-> Visitor]}

Plain == [product |-> p1, quantity |-> 1500, price |-> None, discount |-> 0]

MCBaskets ==
  {<<Plain, Plain>>, <<[Plain EXCEPT !.price = 30]>>,
   <<[Plain EXCEPT !.discount = 2], Plain>>, <<[Plain EXCEPT !.discount = 20]>>}

Taxable == [manual |-> TRUE, rate |-> 1800]
Exempt  == [manual |-> FALSE, rate |-> 0]

MCProducts == {Taxable, Exempt}
MCPrices == {10, None}

OnTop  == [mode |-> "EXCLUSIVE", allowed |-> TRUE, override |-> TRUE]
Within == [allowed |-> TRUE, percent |-> 10]

MCConfigs == {OnTop, Within}

-----------------------------------------------------------------------------
LoggedIn(u) == [at |-> "in", user |-> u, row |-> users[u], now |-> 0]

\* Everyone is enrolled, mia as M; ann and bob have sessions.
Working(M) ==
  /\ clock = 0 /\ store = s1
  /\ users = [u \in User |-> [claims |-> IF u = mia THEN M ELSE Cashier, pin |-> pin1,
                             failed |-> 0, locked |-> 0]]
  /\ session = [l \in Attempt |->
       CASE l = l1 -> [user |-> ann, ends |-> 2]
         [] l = l2 -> [user |-> bob, ends |-> 2]
         [] OTHER  -> None]
  /\ purge = {} /\ wrong = [u \in User |-> 0]

NoSales ==
  /\ products = [p \in Product |-> Taxable] /\ prices = [p \in Product |-> 10]
  /\ orders = [o \in Order |-> None] /\ cart = [r \in Request |-> None]

StartApprovals ==
  /\ \E M \in {Manager, Visitor} : Working(M)
  /\ ApprovalInit /\ ConfigInit /\ NoSales
  /\ login = [l \in Attempt |->
       CASE l = l1 -> LoggedIn(ann) [] l = l2 -> LoggedIn(bob) [] OTHER -> None]

\* mia, whose login was l3, has approved a discount of ann's.
StartOrders ==
  /\ Working(Manager) /\ NoSales
  /\ login = [l \in Attempt |->
       CASE l = l1 -> LoggedIn(ann) [] l = l2 -> LoggedIn(bob) [] OTHER -> LoggedIn(mia)]
  /\ ask = [t \in Approval |->
       IF t = t1 THEN [at |-> "over", cashier |-> ann, claims |-> Cashier, login |-> l3,
                       permission |-> "pos:discount", order |-> None, scope |-> None]
       ELSE None]
  /\ approval = [t \in Approval |->
       IF t = t1 THEN [cashier |-> ann, approver |-> mia, permission |-> "pos:discount",
                       order |-> None, scope |-> None, ends |-> ApprovalTTL, spent |-> FALSE]
       ELSE None]
  /\ act = [r \in Request |-> None]

MCInit ==
  \/ focus \in {"logins", "refreshes"} /\ Init
  \/ focus = "approvals" /\ StartApprovals
  \/ focus = "pricings" /\ StartOrders /\ ConfigInit
  \/ /\ focus = "retries" /\ StartOrders
     /\ snapshot \in {NoConfig, OnTop} /\ central = OnTop /\ lastEtag = snapshot
     /\ refresh = [r \in Refresher |-> Resting] /\ publishes = 0 /\ configFaults = 0

\* Of the names a and b, a is used first.
InTurn(f, a, b) == f[b] # None => f[a] # None

SetUp ==
  /\ act[r1] = None
  /\ \/ \E p \in Product, row \in ProductInput : ChangeProduct(p, row)
     \/ \E p \in Product, amount \in PriceInput : ChangePrice(p, amount)

Ordering(r) ==
  \/ \E s \in Attempt, b \in BasketInput : Submit(r, s, o1, b)
  \/ \E t \in Approval : Spend(r, t) /\ UNCHANGED <<configVars, saleVars>>
  \/ Create(r)

Logins ==
  /\ UNCHANGED <<approvalVars, configVars, saleVars>>
  /\ AuthNext
  /\ \A u \in {bob, mia} : users'[u] = None
  /\ users'[ann] # None => users'[ann].claims = Cashier /\ users'[ann].pin = pin1
  /\ store' # store => store' = s2 \/ store = s2
  /\ InTurn(login', l1, l2) /\ InTurn(login', l2, l3)

\* ann or bob asks mia for one approval; each may make a request, for o1, of
\* what was asked for or not; ann may be enrolled again and may log out.
Approvals ==
  /\ UNCHANGED <<store, configVars, saleVars>>
  /\ \/ /\ \/ Tick
           \/ \E g \in GrantInput : g.claims = Deputy /\ StoreUser(g, pin1)
           \/ PurgeSessions(ann)
           \/ CountWrong(l3) \/ ClearFailures(l3) \/ OpenSession(l3)
        /\ UNCHANGED approvalVars
     \/ EndHeld(l1)
     \/ \E s \in {l1, l2}, pin \in Pin, o \in Order :
          \/ AskApproval(t1, s, l3, mia, pin, "pos:void", o, None)
          \/ AskApproval(t1, s, l3, mia, pin, "pos:refund", o, "refund_full")
     \/ CloseVerification(t1) \/ Issue(t1)
     \/ Begin(r1, l1, "void", o1) \/ Begin(r1, l1, "refund_full", o1)
     \/ \E s \in {l1, l2} : Begin(r2, s, "void", o1)
     \/ \E r \in Request : Spend(r, t1)
     \/ \E r \in Request : Reversal(r) /\ (Perform(r) \/ FailAct(r)) /\ UNCHANGED authVars

\* Goods are set up; then one order is priced while the loop refreshes the
\* configuration.
Pricings ==
  /\ UNCHANGED <<authVars, ask>>
  /\ \/ ConfigNext /\ UNCHANGED <<authVars, approvalVars, saleVars>>
     \/ SetUp
     \/ Ordering(r1)
  /\ configFaults' = 0 /\ refresh'[post] = Resting /\ publishes' <= 1

\* Two requests with one client order id.
Retries ==
  /\ UNCHANGED <<authVars, ask, configVars>>
  /\ \/ SetUp
     \/ \E r \in Request : Ordering(r)
  /\ InTurn(act', r1, r2)

Refreshes ==
  /\ UNCHANGED <<authVars, approvalVars, saleVars>>
  /\ ConfigNext

MCNext ==
  /\ UNCHANGED focus
  /\ CASE focus = "logins" -> Logins
       [] focus = "approvals" -> Approvals
       [] focus = "pricings" -> Pricings
       [] focus = "retries" -> Retries
       [] focus = "refreshes" -> Refreshes

MCSpec == MCInit /\ [][MCNext]_mcvars /\ \A r \in Refresher : WF_vars(Refreshing(r))

=============================================================================
