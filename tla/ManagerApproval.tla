-------------------------- MODULE ManagerApproval --------------------------
(***************************************************************************)
(* A manager's approval of what a cashier may not do alone                 *)
(* (internal/server: manager_approval.go, order_void.go, order_refund.go). *)
(* The manager gives the PIN at the cashier's till; the approval that is   *)
(* issued names cashier, permission, order and action, and is spent, in a  *)
(* transaction of its own, before the action it allows is tried.           *)
(*                                                                         *)
(* A request takes the cashier's permissions when it is authenticated and  *)
(* goes by them later.  What a void or a refund does to the sale is the    *)
(* matter of SaleLifecycle and PartialReturn; here it succeeds or fails.   *)
(***************************************************************************)
EXTENDS LocalAuth

CONSTANTS
  Order,        \* orders, by the id a request names
  Approval,     \* approval tokens, one for each request of an approval
  Request,      \* requests of a cashier
  ApprovalTTL   \* approvalTTL

Refunds == {"refund_full", "refund_partial"}

\* What a request may be for.  "discount" is a create with a discount in it.
Kind == {"sale", "discount", "void"} \union Refunds

Approvable == {"pos:discount", "pos:void", "pos:refund"}

Needs(kind) ==
  CASE kind = "sale"     -> "pos:sale"
    [] kind = "discount" -> "pos:discount"
    [] kind = "void"     -> "pos:void"
    [] OTHER             -> "pos:refund"

\* What a cashier asks a manager for.  login: the manager's; claims: the
\* cashier's.
Asked == [at : {"verify", "issue", "over"}, cashier : User, claims : Claims, login : Attempt,
          permission : Approvable, order : Order \union {None}, scope : Refunds \union {None}]

ApprovalRow ==
  [cashier : User, approver : User, permission : Approvable, order : Order \union {None},
   scope : Refunds \union {None}, ends : Nat, spent : BOOLEAN]

\* token: the approval it has spent.
Act == [at : {"spend", "ready", "done", "over"}, user : User, claims : Claims, kind : Kind,
        order : Order, token : Approval \union {None}]

ASSUME ApprovalAssumption ==
  /\ ApprovalTTL \in Nat
  /\ None \notin Order \union Approval \union Refunds \union Asked \union ApprovalRow \union Act

VARIABLES
  ask,       \* requests of an approval
  approval,  \* pos_manager_approvals
  act        \* requests of an action; one that is "done" has taken effect

approvalVars == <<ask, approval, act>>

ApprovalInit ==
  /\ ask = [t \in Approval |-> None]
  /\ approval = [t \in Approval |-> None]
  /\ act = [r \in Request |-> None]

-----------------------------------------------------------------------------
\* A session whose token was given out, not one that only verifies a manager.
Held(s) == session[s] # None /\ \A t \in Approval : ask[t] # None => ask[t].login # s

\* The request comes with such a session and Authenticate accepts it.  (The branch
\* of localAuthMiddleware for requests without the machine's token is not reached:
\* NewSecure puts LocalAuth.Middleware before it, which refuses them.)
Signed(s) == Held(s) /\ Authentic(s)

EndHeld(s) == Held(s) /\ EndSession(s) /\ UNCHANGED approvalVars

-----------------------------------------------------------------------------
(* handleManagerApproval                                                   *)

\* A void or a refund is approved for one order, a refund for one way of it.
ValidScope(p, o, sc) ==
  /\ p \in {"pos:void", "pos:refund"} => o # None
  /\ (p = "pos:refund") <=> (sc # None)

AskApproval(t, s, l, m, pin, p, o, sc) ==
  /\ ask[t] = None
  /\ Signed(s)
  /\ ValidScope(p, o, sc)
  /\ m # session[s].user
  /\ BeginLogin(l, m, pin)
  /\ ask' = [ask EXCEPT ![t] =
               [at |-> "verify", cashier |-> session[s].user, claims |-> Owner(s), login |-> l,
                permission |-> p, order |-> o, scope |-> sc]]
  /\ UNCHANGED <<approval, act>>

\* The manager's session is closed as soon as it is open.
CloseVerification(t) ==
  /\ ask[t] # None /\ ask[t].at = "verify"
  /\ login[ask[t].login].at = "in"
  /\ EndSession(ask[t].login)
  /\ ask' = [ask EXCEPT ![t].at = "issue"]
  /\ UNCHANGED <<approval, act>>

\* The manager, by the row the login read, may do it himself and may approve,
\* for the cashier's branch.
Entitled(a, manager) ==
  /\ {"pos:approve", a.permission} \subseteq manager.permissions
  /\ manager.all \/ a.claims.branch = None \/ manager.branch = a.claims.branch

Issue(t) ==
  /\ ask[t] # None /\ ask[t].at = "issue"
  /\ LET a == ask[t]
         row == login[a.login].row
     IN  approval' =
           IF Entitled(a, row.claims)
           THEN [approval EXCEPT ![t] =
                   [cashier |-> a.cashier, approver |-> login[a.login].user,
                    permission |-> a.permission, order |-> a.order, scope |-> a.scope,
                    ends |-> clock + ApprovalTTL, spent |-> FALSE]]
           ELSE approval
  /\ ask' = [ask EXCEPT ![t].at = "over"]
  /\ UNCHANGED <<authVars, act>>

-----------------------------------------------------------------------------
(* handleOrderVoid, handleOrderRefund, requireOrderWrite                   *)

\* The request is authenticated; without the permission it needs an approval.
Begin(r, s, k, o) ==
  /\ act[r] = None
  /\ Signed(s)
  /\ k \in {"sale", "discount"} => "pos:sale" \in Owner(s).permissions
  /\ act' = [act EXCEPT ![r] =
               [at |-> IF Needs(k) \in Owner(s).permissions THEN "ready" ELSE "spend",
                user |-> session[s].user, claims |-> Owner(s), kind |-> k, order |-> o,
                token |-> None]]
  /\ UNCHANGED <<authVars, ask, approval>>

\* The approval is one of this cashier for this.  The order of a discount has
\* no id yet.
Covers(t, a) ==
  /\ approval[t].cashier = a.user
  /\ approval[t].permission = Needs(a.kind)
  /\ a.kind # "discount" => approval[t].order = a.order
  /\ a.kind \in Refunds => approval[t].scope = a.kind

\* Mutant of Unspent: the consumed_at of the approval is not looked at.
UnspentUnchecked(t) == TRUE

Unspent(t) == ~approval[t].spent

\* consumeManagerApprovalScoped.
Spend(r, t) ==
  /\ act[r] # None /\ act[r].at = "spend"
  /\ approval[t] # None
  /\ Unspent(t) /\ Covers(t, act[r]) /\ clock < approval[t].ends
  /\ approval' = [approval EXCEPT ![t].spent = TRUE]
  /\ act' = [act EXCEPT ![r].at = "ready", ![r].token = t]
  /\ UNCHANGED <<authVars, ask>>

\* The action takes effect, or fails; the approval stays spent.
Perform(r) ==
  /\ act[r] # None /\ act[r].at = "ready"
  /\ act' = [act EXCEPT ![r].at = "done"]
  /\ UNCHANGED <<ask, approval>>

FailAct(r) ==
  /\ act[r] # None /\ act[r].at = "ready"
  /\ act' = [act EXCEPT ![r].at = "over"]
  /\ UNCHANGED <<ask, approval>>

Reversal(r) == act[r] # None /\ act[r].kind \in Refunds \union {"void"}

ApprovalNext ==
  \/ \E s \in Attempt : EndHeld(s)
  \/ \E t \in Approval, s, l \in Attempt, m \in User, pin \in Pin, p \in Approvable,
        o \in Order \union {None}, sc \in Refunds \union {None} :
       AskApproval(t, s, l, m, pin, p, o, sc)
  \/ \E t \in Approval : CloseVerification(t) \/ Issue(t)
  \/ \E r \in Request, s \in Attempt, k \in Refunds \union {"void"}, o \in Order :
       Begin(r, s, k, o)
  \/ \E r \in Request, t \in Approval : Spend(r, t)
  \/ \E r \in Request : Reversal(r) /\ (Perform(r) \/ FailAct(r)) /\ UNCHANGED authVars

-----------------------------------------------------------------------------
ApprovalTypeOK ==
  /\ ask \in [Approval -> Asked \union {None}]
  /\ approval \in [Approval -> ApprovalRow \union {None}]
  /\ act \in [Request -> Act \union {None}]

\* docs/order-identity-authority-matrix.md, "approval token is one-time and
\* expiry-bound", "bound to requesting cashier, permission and [...] order ID
\* and refund action scope": whatever took effect was allowed to its cashier
\* when the request came in, or has an approval of its own, given by someone
\* else for just that.  Requests with one token, lost answers and sent-again
\* requests make no difference.
EachActionApproved ==
  /\ \A r \in Request :
       act[r] # None /\ act[r].at = "done" =>
         IF act[r].token = None
         THEN Needs(act[r].kind) \in act[r].claims.permissions
         ELSE LET t == act[r].token
              IN  /\ approval[t] # None /\ approval[t].spent /\ Covers(t, act[r])
                  /\ approval[t].approver # act[r].user
  /\ \A q, r \in Request :
       /\ q # r /\ act[q] # None /\ act[r] # None
       /\ act[q].at = "done" /\ act[r].at = "done" /\ act[q].token # None
       => act[q].token # act[r].token

=============================================================================
