--------------------------- MODULE CounterProofs ---------------------------
(***************************************************************************)
(* Proofs about who may do what at the till, for any number of users,      *)
(* logins, approvals and requests: a lock-out is earned, and whatever took *)
(* effect was allowed or has an approval of its own.  Both are proved of   *)
(* Checkout's specification, where the steps of LocalAuth and of           *)
(* ManagerApproval are mixed with those of creates, refreshes and the      *)
(* feed; the first lemmas say which of them concern users and approvals.   *)
(***************************************************************************)
EXTENDS Checkout, TLAPS

AuthStep == AuthNext \/ (\E l \in Attempt : EndSession(l)) \/ UNCHANGED authVars

\* A request that may act does, or fails.
Finish(r) ==
  /\ act[r] # None /\ act[r].at = "ready"
  /\ act' \in {[act EXCEPT ![r].at = "done"], [act EXCEPT ![r].at = "over"]}
  /\ UNCHANGED <<ask, approval>>

ApprovalStep ==
  \/ UNCHANGED approvalVars
  \/ \E t \in Approval, s, l \in Attempt, m \in User, pin \in Pin, p \in Approvable,
        o \in Order \union {None}, sc \in Refunds \union {None} :
       AskApproval(t, s, l, m, pin, p, o, sc)
  \/ \E t \in Approval : CloseVerification(t) \/ Issue(t)
  \/ \E r \in Request, s \in Attempt, k \in Kind, o \in Order : Begin(r, s, k, o)
  \/ \E r \in Request, t \in Approval : Spend(r, t)
  \/ \E r \in Request : Finish(r)

\* A create is the work of a request.
Carted == DOMAIN cart = Request /\ \A r \in Request : cart[r] # None => act[r] # None

-----------------------------------------------------------------------------
(* Which steps of the composition concern users and approvals              *)

LEMMA AskedLogin ==
  ASSUME ApprovalTypeOK, NEW t \in Approval, ask[t] # None
  PROVE  ask[t] \in Asked /\ ask[t].login \in Attempt
BY DEF ApprovalTypeOK, Asked

LEMMA StepsOfAuth ==
  ASSUME ApprovalTypeOK, Next
  PROVE  AuthStep
<1>1. CASE AuthNext
  BY <1>1 DEF AuthStep
<1>2. CASE ApprovalNext
  <2>1. ASSUME NEW s \in Attempt, EndHeld(s) PROVE AuthStep
    BY <2>1 DEF EndHeld, AuthStep
  <2>2. ASSUME NEW t \in Approval, NEW s \in Attempt, NEW l \in Attempt, NEW m \in User,
               NEW pin \in Pin, NEW p, NEW o, NEW sc, AskApproval(t, s, l, m, pin, p, o, sc)
        PROVE  AuthStep
    BY <2>2 DEF AskApproval, AuthStep, AuthNext
  <2>3. ASSUME NEW t \in Approval, CloseVerification(t) PROVE AuthStep
    BY <2>3, AskedLogin DEF CloseVerification, AuthStep
  <2>4. ASSUME NEW t \in Approval, Issue(t) PROVE AuthStep
    BY <2>4 DEF Issue, AuthStep
  <2>5. ASSUME NEW r, NEW s, NEW k, NEW o, Begin(r, s, k, o) PROVE AuthStep
    BY <2>5 DEF Begin, AuthStep
  <2>6. ASSUME NEW r, NEW t, Spend(r, t) PROVE AuthStep
    BY <2>6 DEF Spend, AuthStep
  <2>7. CASE UNCHANGED authVars
    BY <2>7 DEF AuthStep
  <2> QED
    BY <1>2, <2>1, <2>2, <2>3, <2>4, <2>5, <2>6, <2>7 DEF ApprovalNext
<1>3. CASE UNCHANGED authVars
  BY <1>3 DEF AuthStep
<1>4. ASSUME NEW r, NEW s, NEW o, NEW b, Submit(r, s, o, b) PROVE UNCHANGED authVars
  BY <1>4 DEF Submit, Begin
<1>5. ASSUME NEW p, NEW row, ChangeProduct(p, row) \/ ChangePrice(p, row)
      PROVE  UNCHANGED authVars
  BY <1>5 DEF ChangeProduct, ChangePrice
<1>6. ASSUME NEW r, Create(r) PROVE UNCHANGED authVars
  BY <1>6 DEF Create, LookUp, ReadProduct, ReadPrice, ReadSetting, BuildLine, Commit, FailCreate,
              RecordCreator, RecordApproval
<1> QED
  BY <1>1, <1>2, <1>3, <1>4, <1>5, <1>6 DEF Next

LEMMA StepsOfApproval ==
  ASSUME Carted, Next
  PROVE  ApprovalStep
<1>1. CASE UNCHANGED approvalVars
  BY <1>1 DEF ApprovalStep
<1>2. CASE ApprovalNext
  <2>1. ASSUME NEW s \in Attempt, EndHeld(s) PROVE ApprovalStep
    BY <2>1 DEF EndHeld, ApprovalStep
  <2>2. ASSUME NEW r \in Request, NEW s \in Attempt, NEW k \in Refunds \union {"void"},
               NEW o \in Order, Begin(r, s, k, o)
        PROVE  ApprovalStep
    BY <2>2 DEF ApprovalStep, Kind
  <2>3. ASSUME NEW r \in Request, Perform(r) \/ FailAct(r) PROVE ApprovalStep
    BY <2>3 DEF Perform, FailAct, Finish, ApprovalStep
  <2> QED
    BY <1>2, <2>1, <2>2, <2>3 DEF ApprovalNext, ApprovalStep
<1>3. ASSUME NEW r \in Request, NEW s \in Attempt, NEW o \in Order, NEW b, Submit(r, s, o, b)
      PROVE  ApprovalStep
  <2>1. PICK k \in {"sale", "discount"} : Begin(r, s, k, o)
    BY <1>3 DEF Submit
  <2> QED
    BY <2>1 DEF ApprovalStep, Kind
<1>4. ASSUME NEW p, NEW row, ChangeProduct(p, row) \/ ChangePrice(p, row)
      PROVE  UNCHANGED approvalVars
  BY <1>4 DEF ChangeProduct, ChangePrice
<1>5. ASSUME NEW r \in Request, Create(r) PROVE ApprovalStep
  <2>1. CASE LookUp(r)
    <3>1. act' \in {act, [act EXCEPT ![r].at = "over"]}
      BY <2>1 DEF LookUp
    <3>2. act[r] # None /\ act[r].at = "ready" /\ UNCHANGED <<ask, approval>>
      BY <2>1 DEF LookUp, At, Carted
    <3> QED
      BY <3>1, <3>2 DEF Finish, ApprovalStep, approvalVars
  <2>2. CASE Commit(r)
    BY <2>2 DEF Commit, Perform, Finish, ApprovalStep
  <2>3. CASE FailCreate(r)
    BY <2>3 DEF FailCreate, FailAct, Finish, ApprovalStep
  <2>4. CASE UNCHANGED approvalVars
    BY <2>4 DEF ApprovalStep
  <2> QED
    BY <1>5, <2>1, <2>2, <2>3, <2>4 DEF Create, ReadProduct, ReadPrice, ReadSetting, BuildLine,
       RecordCreator, RecordApproval
<1> QED
  BY <1>1, <1>2, <1>3, <1>4, <1>5 DEF Next

-----------------------------------------------------------------------------
(* Users and logins                                                        *)

\* A login is one of a user who has enrolled.
Enrolled == \A l \in Attempt : login[l] # None => users[login[l].user] # None

\* No count, in a row or read by a login, exceeds the wrong PINs there were.
Counted ==
  /\ \A u \in User : users[u] # None => users[u].failed <= wrong[u]
  /\ \A l \in Attempt : login[l] # None => login[l].row.failed <= wrong[login[l].user]

AuthInv == AuthTypeOK /\ Enrolled /\ Counted /\ LockoutIsEarned

LEMMA AuthInitially ==
  ASSUME AuthInit
  PROVE  AuthInv
<1>1. AuthTypeOK
  BY AuthAssumption DEF AuthInit, AuthTypeOK
<1> QED
  BY <1>1 DEF AuthInit, AuthInv, Enrolled, Counted, LockoutIsEarned

\* What a login is and what it read.
LEMMA LoginRow ==
  ASSUME AuthTypeOK, NEW l \in Attempt, login[l] # None
  PROVE  /\ login[l] \in Login
         /\ login[l].user \in User /\ login[l].now \in Nat
         /\ login[l].row \in UserRow /\ login[l].row.failed \in Nat
BY DEF AuthTypeOK, Login, UserRow

LEMMA UserRowOf ==
  ASSUME AuthTypeOK, NEW u \in User, users[u] # None
  PROVE  /\ users[u] \in UserRow
         /\ users[u].failed \in Nat /\ users[u].locked \in Nat /\ users[u].claims \in Claims
BY DEF AuthTypeOK, UserRow

\* What is and what is not None.
LEMMA NoneIsNot ==
  /\ None \notin UserRow /\ None \notin Session /\ None \notin Login /\ None \notin User
  /\ None \notin Store
BY AuthAssumption

LEMMA StoreUserKeeps ==
  ASSUME AuthInv, NEW g \in GrantInput, NEW p \in Pin, StoreUser(g, p)
  PROVE  AuthInv'
<1> DEFINE row == [claims |-> g.claims, pin |-> p, failed |-> 0, locked |-> 0]
<1>1. g.user \in User /\ g.claims \in Claims
  BY AuthAssumption DEF Grant
<1>2. row \in UserRow /\ row # None
  BY <1>1, NoneIsNot DEF UserRow
<1>3. users' = [users EXCEPT ![g.user] = row]
  BY DEF StoreUser
<1>4. /\ purge' = purge \union {g.user}
      /\ UNCHANGED <<clock, store, session, login, wrong>>
  BY DEF StoreUser
<1>5. row.failed = 0 /\ row.locked = 0
  OBVIOUS
<1> HIDE DEF row
<1>6. AuthTypeOK'
  BY <1>1, <1>2, <1>3, <1>4 DEF AuthInv, AuthTypeOK
<1>7. Enrolled'
  BY <1>1, <1>2, <1>3, <1>4, LoginRow DEF AuthInv, Enrolled, AuthTypeOK
<1>8. Counted'
  BY <1>1, <1>2, <1>3, <1>4, <1>5 DEF AuthInv, Counted, AuthTypeOK
<1>9. LockoutIsEarned'
  BY <1>1, <1>2, <1>3, <1>4, <1>5 DEF AuthInv, LockoutIsEarned, AuthTypeOK
<1> QED
  BY <1>6, <1>7, <1>8, <1>9 DEF AuthInv

LEMMA BeginLoginKeeps ==
  ASSUME AuthInv, NEW l \in Attempt, NEW u \in User, NEW p, BeginLogin(l, u, p)
  PROVE  AuthInv' /\ login'[l].user = u /\ login'[l] # None
<1> DEFINE new == [at |-> Verdict(users[u], p), user |-> u, row |-> users[u], now |-> clock]
<1>1. users[u] \in UserRow /\ users[u] # None
  BY UserRowOf DEF AuthInv, BeginLogin
<1>2. Verdict(users[u], p) \in {"out", "clear", "count"}
  BY DEF Verdict
<1>3. new \in Login /\ new # None
  BY <1>1, <1>2, NoneIsNot DEF Login, AuthInv, AuthTypeOK
<1>4. new.user = u /\ new.row = users[u]
  OBVIOUS
<1>5. /\ login' = [login EXCEPT ![l] = new]
      /\ UNCHANGED <<clock, store, users, session, purge, wrong>>
  BY DEF BeginLogin
<1> HIDE DEF new
<1>6. AuthTypeOK'
  BY <1>3, <1>5 DEF AuthInv, AuthTypeOK
<1>7. Enrolled'
  BY <1>1, <1>3, <1>4, <1>5 DEF AuthInv, Enrolled, AuthTypeOK
<1>8. Counted'
  BY <1>1, <1>3, <1>4, <1>5 DEF AuthInv, Counted, AuthTypeOK
<1>9. LockoutIsEarned'
  BY <1>5 DEF AuthInv, LockoutIsEarned
<1>10. login'[l] = new
  BY <1>5 DEF AuthInv, AuthTypeOK
<1> QED
  BY <1>3, <1>4, <1>6, <1>7, <1>8, <1>9, <1>10 DEF AuthInv

\* The step of a login that is under way.
LEMMA LoginMoves ==
  ASSUME AuthInv, NEW l \in Attempt, login[l] # None,
         NEW step \in {"open", "in", "out"}, login' = [login EXCEPT ![l].at = step]
  PROVE  /\ login' \in [Attempt -> Login \union {None}]
         /\ \A k \in Attempt : login'[k] # None =>
              login[k] # None /\ login'[k].user = login[k].user /\ login'[k].row = login[k].row
<1>1. login[l] \in Login /\ login \in [Attempt -> Login \union {None}]
  BY LoginRow DEF AuthInv, AuthTypeOK
<1>2. [login[l] EXCEPT !.at = step] \in Login
  BY <1>1 DEF Login
<1> QED
  BY <1>1, <1>2 DEF Login

LEMMA CountWrongKeeps ==
  ASSUME AuthInv, NEW l \in Attempt, CountWrong(l)
  PROVE  AuthInv'
<1> DEFINE u == login[l].user
           failed == login[l].row.failed + 1
<1>1. /\ login[l] # None /\ u \in User /\ failed \in Nat /\ login[l].now \in Nat
      /\ users[u] # None /\ users[u] \in UserRow
  BY LoginRow, UserRowOf DEF AuthInv, CountWrong, Enrolled
<1>2. /\ wrong' = [wrong EXCEPT ![u] = @ + 1]
      /\ UNCHANGED <<clock, store, session, purge>>
      /\ login' = [login EXCEPT ![l].at = "out"]
  BY DEF CountWrong
<1>3. failed <= wrong[u] + 1 /\ wrong[u] \in Nat /\ wrong \in [User -> Nat]
  BY <1>1, LoginRow DEF AuthInv, Counted, AuthTypeOK
<1>4. PICK row \in UserRow :
        /\ users' = [users EXCEPT ![u] = row]
        /\ row.failed <= wrong[u] + 1
        /\ row.locked > 0 => row.locked = users[u].locked \/ wrong[u] + 1 >= MaxFailed
  <2>1. CASE UNCHANGED users
    <3>1. users' = [users EXCEPT ![u] = users[u]]
      BY <1>1, <2>1 DEF AuthInv, AuthTypeOK
    <3>2. users[u].failed <= wrong[u] + 1
      BY <1>1, <1>3, UserRowOf DEF AuthInv, Counted
    <3> QED
      BY <1>1, <3>1, <3>2
  <2>2. CASE /\ Exhausted(failed)
             /\ users' = [users EXCEPT ![u].failed = 0, ![u].locked = login[l].now + LockoutTime]
    <3> DEFINE made == [users[u] EXCEPT !.failed = 0, !.locked = login[l].now + LockoutTime]
    <3>0. login[l].now + LockoutTime \in Nat
      BY <1>1, AuthAssumption
    <3>1. made \in UserRow /\ made.failed = 0
      <4> DEFINE until == login[l].now + LockoutTime
                 unlocked == [users[u] EXCEPT !.failed = 0]
      <4>1. until \in Nat
        BY <3>0
      <4>2. unlocked \in UserRow /\ unlocked.failed = 0
        BY <1>1 DEF UserRow
      <4> HIDE DEF until, unlocked
      <4>3. [unlocked EXCEPT !.locked = until] \in UserRow
            /\ [unlocked EXCEPT !.locked = until].failed = 0
        BY <4>1, <4>2 DEF UserRow
      <4>4. made = [unlocked EXCEPT !.locked = until]
        BY ZenonT(20) DEF unlocked, until
      <4> QED
        BY <4>3, <4>4
    <3>2. users' = [users EXCEPT ![u] = made]
      BY <1>1, <2>2 DEF AuthInv, AuthTypeOK
    <3>3. wrong[u] + 1 >= MaxFailed
      BY <1>1, <1>3, <2>2, AuthAssumption DEF Exhausted
    <3>4. made.failed <= wrong[u] + 1
      BY <1>3, <3>1
    <3> HIDE DEF made, u, failed
    <3> QED
      BY <3>1, <3>2, <3>3, <3>4
  <2>3. CASE ~Exhausted(failed) /\ users' = [users EXCEPT ![u].failed = failed]
    <3> DEFINE made == [users[u] EXCEPT !.failed = failed]
    <3>1. made \in UserRow /\ made.failed = failed /\ made.locked = users[u].locked
      BY <1>1 DEF UserRow
    <3>2. users' = [users EXCEPT ![u] = made]
      BY <1>1, <2>3 DEF AuthInv, AuthTypeOK
    <3> HIDE DEF made, u, failed
    <3> QED
      BY <1>3, <3>1, <3>2
  <2> QED
    BY <2>1, <2>2, <2>3 DEF CountWrong
<1>5. row # None /\ row.failed \in Nat /\ row.locked \in Nat
  BY NoneIsNot DEF UserRow
<1> HIDE DEF u, failed
<1>6. /\ login' \in [Attempt -> Login \union {None}]
      /\ \A k \in Attempt : login'[k] # None =>
           login[k] # None /\ login'[k].user = login[k].user /\ login'[k].row = login[k].row
  BY <1>1, <1>2, LoginMoves
<1>7. \A v \in User : wrong'[v] \in Nat /\ wrong'[v] >= wrong[v]
  BY <1>1, <1>2, <1>3
<1>8. AuthTypeOK'
  BY <1>1, <1>2, <1>3, <1>4, <1>5, <1>6 DEF AuthInv, AuthTypeOK
<1>9. Enrolled'
  BY <1>1, <1>4, <1>5, <1>6, LoginRow DEF AuthInv, Enrolled, AuthTypeOK
<1>10. Counted'
  <2>1. ASSUME NEW v \in User, users'[v] # None PROVE users'[v].failed <= wrong'[v]
    <3>1. CASE v = u
      BY <1>1, <1>2, <1>3, <1>4, <3>1 DEF AuthInv, AuthTypeOK
    <3>2. CASE v # u
      BY <1>1, <1>2, <1>3, <1>4, <2>1, <3>2 DEF AuthInv, AuthTypeOK, Counted
    <3> QED
      BY <3>1, <3>2
  <2>2. ASSUME NEW k \in Attempt, login'[k] # None
        PROVE  login'[k].row.failed <= wrong'[login'[k].user]
    <3>1. login[k] # None /\ login'[k].user = login[k].user /\ login'[k].row = login[k].row
      BY <1>6, <2>2
    <3>2. /\ login[k].user \in User /\ login[k].row.failed \in Nat
          /\ login[k].row.failed <= wrong[login[k].user]
      BY <3>1, LoginRow DEF AuthInv, Counted
    <3> QED
      BY <1>3, <1>7, <3>1, <3>2
  <2> QED
    BY <2>1, <2>2 DEF Counted
<1>11. LockoutIsEarned'
  <2>1. ASSUME NEW v \in User, users'[v] # None, users'[v].locked > 0
        PROVE  wrong'[v] >= MaxFailed
    <3>1. CASE v = u
      BY <1>1, <1>2, <1>3, <1>4, <1>5, <2>1, <3>1, AuthAssumption
         DEF AuthInv, AuthTypeOK, LockoutIsEarned
    <3>2. CASE v # u
      BY <1>1, <1>2, <1>3, <1>4, <2>1, <3>2 DEF AuthInv, AuthTypeOK, LockoutIsEarned
    <3> QED
      BY <3>1, <3>2
  <2> QED
    BY <2>1 DEF LockoutIsEarned
<1> QED
  BY <1>8, <1>9, <1>10, <1>11 DEF AuthInv

LEMMA ClearFailuresKeeps ==
  ASSUME AuthInv, NEW l \in Attempt, ClearFailures(l)
  PROVE  AuthInv'
<1> DEFINE u == login[l].user
<1>1. login[l] # None /\ u \in User /\ users[u] # None /\ users[u] \in UserRow
  BY LoginRow, UserRowOf DEF AuthInv, ClearFailures, Enrolled
<1>2. /\ UNCHANGED <<clock, store, session, purge, wrong>>
      /\ login' = [login EXCEPT ![l].at = "open"]
  BY DEF ClearFailures
<1>3. PICK row \in UserRow :
        /\ users' = [users EXCEPT ![u] = row]
        /\ (row.failed = 0 /\ row.locked = 0) \/ row = users[u]
  <2>1. CASE UNCHANGED users
    <3>1. users' = [users EXCEPT ![u] = users[u]]
      BY <1>1, <2>1 DEF AuthInv, AuthTypeOK
    <3> QED
      BY <1>1, <3>1
  <2>2. CASE users' = [users EXCEPT ![u].failed = 0, ![u].locked = 0]
    <3> DEFINE made == [users[u] EXCEPT !.failed = 0, !.locked = 0]
               unlocked == [users[u] EXCEPT !.failed = 0]
    <3>1. users' = [users EXCEPT ![u] = made]
      BY <1>1, <2>2 DEF AuthInv, AuthTypeOK
    <3>2. unlocked \in UserRow /\ unlocked.failed = 0
      BY <1>1 DEF UserRow
    <3>3. made = [unlocked EXCEPT !.locked = 0]
      BY ZenonT(20)
    <3> HIDE DEF made, unlocked, u
    <3>4. made \in UserRow /\ made.failed = 0 /\ made.locked = 0
      BY <3>2, <3>3 DEF UserRow
    <3> QED
      BY <3>1, <3>4
  <2> QED
    BY <2>1, <2>2 DEF ClearFailures
<1>4. row # None /\ row.failed \in Nat /\ row.locked \in Nat
  BY NoneIsNot DEF UserRow
<1>5. wrong[u] \in Nat
  BY <1>1 DEF AuthInv, AuthTypeOK
<1> HIDE DEF u
<1>6. /\ login' \in [Attempt -> Login \union {None}]
      /\ \A k \in Attempt : login'[k] # None =>
           login[k] # None /\ login'[k].user = login[k].user /\ login'[k].row = login[k].row
  BY <1>1, <1>2, LoginMoves
<1>7. AuthTypeOK'
  BY <1>1, <1>2, <1>3, <1>4, <1>6 DEF AuthInv, AuthTypeOK
<1>8. Enrolled'
  BY <1>1, <1>3, <1>4, <1>6, LoginRow DEF AuthInv, Enrolled, AuthTypeOK
<1>9. Counted'
  BY <1>1, <1>2, <1>3, <1>4, <1>5, <1>6 DEF AuthInv, Counted, AuthTypeOK
<1>10. LockoutIsEarned'
  BY <1>1, <1>2, <1>3, <1>4, <1>5 DEF AuthInv, LockoutIsEarned, AuthTypeOK
<1> QED
  BY <1>7, <1>8, <1>9, <1>10 DEF AuthInv

LEMMA OpenSessionKeeps ==
  ASSUME AuthInv, NEW l \in Attempt, OpenSession(l)
  PROVE  AuthInv'
<1> DEFINE new == [user |-> login[l].user,
                   ends |-> Earlier(login[l].now + SessionTTL, login[l].row.claims.ends)]
<1>1. /\ login[l] # None /\ login[l].user \in User /\ login[l].now \in Nat
      /\ login[l].row.claims.ends \in Nat /\ users[login[l].user] # None
  BY LoginRow DEF AuthInv, OpenSession, Enrolled, UserRow, Claims
<1>2. login[l].now + SessionTTL \in Nat
  BY <1>1, AuthAssumption
<1>3. new \in Session /\ new # None /\ new.user = login[l].user
  BY <1>1, <1>2, NoneIsNot DEF Session, Earlier
<1>4. /\ UNCHANGED <<clock, store, users, purge, wrong>>
      /\ login' = [login EXCEPT ![l].at = "in"]
      /\ session' = [session EXCEPT ![l] = new]
  BY DEF OpenSession
<1> HIDE DEF new
<1>5. /\ login' \in [Attempt -> Login \union {None}]
      /\ \A k \in Attempt : login'[k] # None =>
           login[k] # None /\ login'[k].user = login[k].user /\ login'[k].row = login[k].row
  BY <1>1, <1>4, LoginMoves
<1>6. AuthTypeOK'
  BY <1>1, <1>3, <1>4, <1>5 DEF AuthInv, AuthTypeOK
<1> QED
  BY <1>4, <1>5, <1>6 DEF AuthInv, Enrolled, Counted, LockoutIsEarned

\* Sessions end, and nothing else but the set of users to purge changes.
LEMMA SessionsEnd ==
  ASSUME AuthInv, UNCHANGED <<clock, store, users, login, wrong>>, purge' \subseteq User,
         session' \in [Attempt -> Session \union {None}],
         \A l \in Attempt : session'[l] # None => session'[l] = session[l]
  PROVE  AuthInv'
<1>1. AuthTypeOK'
  BY DEF AuthInv, AuthTypeOK
<1> QED
  BY <1>1 DEF AuthInv, Enrolled, Counted, LockoutIsEarned

LEMMA AuthKept ==
  ASSUME AuthInv, AuthStep
  PROVE  AuthInv'
<1>1. CASE Tick
  BY <1>1 DEF Tick, AuthInv, AuthTypeOK, Enrolled, Counted, LockoutIsEarned
<1>2. ASSUME NEW s \in Store, Register(s) PROVE AuthInv'
  BY <1>2 DEF Register, AuthInv, AuthTypeOK, Enrolled, Counted, LockoutIsEarned
<1>3. ASSUME NEW u \in User, PurgeSessions(u) PROVE AuthInv'
  <2>1. /\ session' \in [Attempt -> Session \union {None}] /\ purge' \subseteq User
        /\ \A l \in Attempt : session'[l] # None => session'[l] = session[l]
    BY <1>3 DEF PurgeSessions, AuthInv, AuthTypeOK
  <2> QED
    BY <1>3, <2>1, SessionsEnd DEF PurgeSessions
<1>4. ASSUME NEW l \in Attempt, EndSession(l) PROVE AuthInv'
  <2>1. /\ session' \in [Attempt -> Session \union {None}] /\ purge' \subseteq User
        /\ \A k \in Attempt : session'[k] # None => session'[k] = session[k]
    BY <1>4 DEF EndSession, AuthInv, AuthTypeOK
  <2> QED
    BY <1>4, <2>1, SessionsEnd DEF EndSession
<1>5. CASE UNCHANGED authVars
  BY <1>5 DEF authVars, AuthInv, AuthTypeOK, Enrolled, Counted, LockoutIsEarned
<1> QED
  BY <1>1, <1>2, <1>3, <1>4, <1>5, StoreUserKeeps, BeginLoginKeeps, CountWrongKeeps,
     ClearFailuresKeeps, OpenSessionKeeps DEF AuthStep, AuthNext

\* A login is never forgotten, nor taken for another user's.
LEMMA LoginsStay ==
  ASSUME AuthInv, AuthStep, NEW l \in Attempt, login[l] # None
  PROVE  login'[l] # None /\ login'[l].user = login[l].user
<1>1. ASSUME NEW k \in Attempt, NEW step \in {"open", "in", "out"}, login[k] # None,
             login' = [login EXCEPT ![k].at = step]
      PROVE  login'[l] # None /\ login'[l].user = login[l].user
  <2>1. login' \in [Attempt -> Login \union {None}] /\ login[k] \in Login
    BY <1>1, LoginMoves, LoginRow DEF AuthInv
  <2>2. [login[k] EXCEPT !.at = step] \in Login
    BY <2>1 DEF Login
  <2>3. login'[l] # None
    BY <1>1, <2>2, NoneIsNot DEF AuthInv, AuthTypeOK
  <2> QED
    BY <1>1, <2>3, LoginMoves
<1>2. ASSUME NEW k \in Attempt, NEW u, NEW p, BeginLogin(k, u, p)
      PROVE  login'[l] = login[l]
  BY <1>2 DEF BeginLogin, AuthInv, AuthTypeOK
<1>3. CASE UNCHANGED login
  BY <1>3
<1> QED
  BY <1>1, <1>2, <1>3 DEF AuthStep, AuthNext, Tick, Register, StoreUser, PurgeSessions, EndSession,
     CountWrong, ClearFailures, OpenSession, authVars

-----------------------------------------------------------------------------
(* Approvals                                                               *)

\* A request that asks for an approval logs someone else in.
Verified ==
  \A t \in Approval : ask[t] # None =>
    login[ask[t].login] # None /\ login[ask[t].login].user # ask[t].cashier

\* An approval that was issued closes the request for it.
Issued ==
  \A t \in Approval : approval[t] # None =>
    /\ ask[t] # None /\ ask[t].at = "over"
    /\ approval[t].approver # approval[t].cashier

\* A request that may act, or has acted, is allowed to; one that has to find an
\* approval has none.
Allowed ==
  \A r \in Request : act[r] # None =>
    /\ act[r].at = "spend" => act[r].token = None
    /\ act[r].token = None /\ act[r].at # "spend" => Needs(act[r].kind) \in act[r].claims.permissions
    /\ act[r].token # None =>
         /\ approval[act[r].token] # None /\ approval[act[r].token].spent
         /\ Covers(act[r].token, act[r])

\* No approval is spent twice.
SpentOnce ==
  \A q, r \in Request :
    q # r /\ act[q] # None /\ act[r] # None /\ act[q].token # None => act[q].token # act[r].token

ApprovalInv == ApprovalTypeOK /\ Verified /\ Issued /\ Allowed /\ SpentOnce

LEMMA ApprovalNone ==
  /\ None \notin Asked /\ None \notin ApprovalRow /\ None \notin Act /\ None \notin Approval
  /\ None \notin Refunds /\ None \notin Order
BY ApprovalAssumption

LEMMA SessionOwner ==
  ASSUME AuthTypeOK, NEW s \in Attempt, session[s] # None
  PROVE  session[s].user \in User /\ Owner(s) \in Claims
<1>1. session[s].user \in User /\ users[session[s].user] # None
  BY DEF AuthTypeOK, Session
<1> QED
  BY <1>1, UserRowOf DEF Owner

LEMMA ActFields ==
  ASSUME ApprovalTypeOK, NEW r \in Request, act[r] # None
  PROVE  /\ act[r] \in Act /\ act[r].user \in User /\ act[r].claims \in Claims
         /\ act[r].kind \in Kind /\ act[r].order \in Order
         /\ act[r].token \in Approval \union {None}
BY DEF ApprovalTypeOK, Act

LEMMA AskKeeps ==
  ASSUME AuthInv, ApprovalInv, AuthStep, NEW t \in Approval, NEW s \in Attempt,
         NEW l \in Attempt, NEW m \in User, NEW pin \in Pin, NEW p \in Approvable,
         NEW o \in Order \union {None}, NEW sc \in Refunds \union {None},
         AskApproval(t, s, l, m, pin, p, o, sc)
  PROVE  ApprovalInv'
<1> DEFINE new == [at |-> "verify", cashier |-> session[s].user, claims |-> Owner(s), login |-> l,
                   permission |-> p, order |-> o, scope |-> sc]
<1>1. session[s].user \in User /\ Owner(s) \in Claims
  BY SessionOwner DEF AuthInv, AskApproval, Signed, Held
<1>2. new \in Asked /\ new # None /\ new.login = l /\ new.cashier # m
  BY <1>1, ApprovalNone DEF Asked, AskApproval
<1>3. login'[l] # None /\ login'[l].user = m
  BY BeginLoginKeeps DEF AskApproval
<1>4. /\ ask[t] = None /\ ask' = [ask EXCEPT ![t] = new]
      /\ UNCHANGED <<approval, act>>
  BY DEF AskApproval
<1> HIDE DEF new
<1>5. ApprovalTypeOK'
  BY <1>2, <1>4 DEF ApprovalInv, ApprovalTypeOK
<1>6. Verified'
  <2>1. ASSUME NEW v \in Approval, ask'[v] # None
        PROVE  login'[ask'[v].login] # None /\ login'[ask'[v].login].user # ask'[v].cashier
    <3>1. CASE v = t
      BY <1>2, <1>3, <1>4, <3>1 DEF ApprovalInv, ApprovalTypeOK
    <3>2. CASE v # t
      <4>1. ask'[v] = ask[v]
        BY <1>4, <3>2 DEF ApprovalInv, ApprovalTypeOK
      <4>2. ask[v].login \in Attempt
        BY <2>1, <4>1, AskedLogin DEF ApprovalInv
      <4> QED
        BY <2>1, <4>1, <4>2, LoginsStay DEF ApprovalInv, Verified
    <3> QED
      BY <3>1, <3>2
  <2> QED
    BY <2>1 DEF Verified
<1>7. Issued'
  BY <1>4 DEF ApprovalInv, ApprovalTypeOK, Issued
<1>8. Allowed' /\ SpentOnce'
  BY <1>4 DEF ApprovalInv, Allowed, SpentOnce, Covers
<1> QED
  BY <1>5, <1>6, <1>7, <1>8 DEF ApprovalInv

\* What the requests for approvals keep as long as they go on.
LEMMA VerifiedKept ==
  ASSUME AuthInv, ApprovalInv, AuthStep, NEW t \in Approval, NEW step \in {"issue", "over"},
         ask[t] # None, ask' = [ask EXCEPT ![t].at = step]
  PROVE  /\ ask' \in [Approval -> Asked \union {None}]
         /\ Verified'
         /\ \A v \in Approval : ask[v] # None =>
              ask'[v] # None /\ (ask'[v].at = IF v = t THEN step ELSE ask[v].at)
<1>1. ask[t] \in Asked /\ ask \in [Approval -> Asked \union {None}]
  BY AskedLogin DEF ApprovalInv, ApprovalTypeOK
<1> DEFINE new == [ask[t] EXCEPT !.at = step]
<1>2. /\ new \in Asked /\ new # None
      /\ new.login = ask[t].login /\ new.cashier = ask[t].cashier /\ new.at = step
  <2>1. new \in Asked
    BY <1>1 DEF Asked
  <2> QED
    BY <1>1, <2>1, ApprovalNone DEF Asked
<1>3. ask' = [ask EXCEPT ![t] = new]
  BY <1>1
<1> HIDE DEF new
<1>4. ask' \in [Approval -> Asked \union {None}]
  BY <1>1, <1>2, <1>3
<1>5. Verified'
  <2>1. ASSUME NEW v \in Approval, ask'[v] # None
        PROVE  login'[ask'[v].login] # None /\ login'[ask'[v].login].user # ask'[v].cashier
    <3>1. ask[v] # None /\ ask'[v].login = ask[v].login /\ ask'[v].cashier = ask[v].cashier
      BY <1>1, <1>2, <1>3, <2>1
    <3>2. ask[v].login \in Attempt
      BY <3>1, AskedLogin DEF ApprovalInv
    <3> QED
      BY <3>1, <3>2, LoginsStay DEF ApprovalInv, Verified
  <2> QED
    BY <2>1 DEF Verified
<1>6. ASSUME NEW v \in Approval, ask[v] # None
      PROVE  ask'[v] # None /\ (ask'[v].at = IF v = t THEN step ELSE ask[v].at)
  BY <1>1, <1>2, <1>3, <1>6
<1> QED
  BY <1>4, <1>5, <1>6

LEMMA CloseKeeps ==
  ASSUME AuthInv, ApprovalInv, AuthStep, NEW t \in Approval, CloseVerification(t)
  PROVE  ApprovalInv'
<1>1. /\ ask[t] # None /\ ask[t].at = "verify" /\ UNCHANGED <<approval, act>>
      /\ ask' = [ask EXCEPT ![t].at = "issue"]
  BY DEF CloseVerification
<1>2. /\ ask' \in [Approval -> Asked \union {None}] /\ Verified'
      /\ \A v \in Approval : ask[v] # None =>
           ask'[v] # None /\ (ask'[v].at = IF v = t THEN "issue" ELSE ask[v].at)
  BY <1>1, VerifiedKept
<1>3. ApprovalTypeOK' /\ Issued'
  BY <1>1, <1>2 DEF ApprovalInv, ApprovalTypeOK, Issued
<1>4. Allowed' /\ SpentOnce'
  BY <1>1 DEF ApprovalInv, Allowed, SpentOnce, Covers
<1> QED
  BY <1>2, <1>3, <1>4 DEF ApprovalInv

LEMMA IssueKeeps ==
  ASSUME AuthInv, ApprovalInv, AuthStep, NEW t \in Approval, Issue(t)
  PROVE  ApprovalInv'
<1> DEFINE a == ask[t]
           row == [cashier |-> a.cashier, approver |-> login[a.login].user,
                   permission |-> a.permission, order |-> a.order, scope |-> a.scope,
                   ends |-> clock + ApprovalTTL, spent |-> FALSE]
<1>1. /\ a # None /\ a.at = "issue" /\ act' = act
      /\ ask' = [ask EXCEPT ![t].at = "over"]
      /\ approval' = approval \/ approval' = [approval EXCEPT ![t] = row]
  BY DEF Issue
<1>2. /\ ask' \in [Approval -> Asked \union {None}] /\ Verified'
      /\ \A v \in Approval : ask[v] # None =>
           ask'[v] # None /\ (ask'[v].at = IF v = t THEN "over" ELSE ask[v].at)
  BY <1>1, VerifiedKept
<1>3. a \in Asked /\ a.login \in Attempt
  BY <1>1, AskedLogin DEF ApprovalInv
<1>4. login[a.login].user \in User /\ login[a.login].user # a.cashier
  BY <1>1, <1>3, LoginRow DEF ApprovalInv, Verified, AuthInv
<1>5. clock + ApprovalTTL \in Nat
  BY ApprovalAssumption DEF AuthInv, AuthTypeOK
<1>6. approval[t] = None
  BY <1>1 DEF ApprovalInv, Issued
<1> HIDE DEF a
<1>7. row \in ApprovalRow /\ row # None /\ row.approver # row.cashier
  <2>1. row \in ApprovalRow
    BY <1>3, <1>4, <1>5 DEF ApprovalRow, Asked
  <2> QED
    BY <1>4, <2>1, ApprovalNone
<1> HIDE DEF row
<1>8. ApprovalTypeOK'
  BY <1>1, <1>2, <1>7 DEF ApprovalInv, ApprovalTypeOK
<1>9. Issued'
  BY <1>1, <1>2, <1>7 DEF ApprovalInv, ApprovalTypeOK, Issued, a
<1>10. Allowed'
  <2>1. ASSUME NEW v \in Approval, approval[v] # None
        PROVE  approval'[v] = approval[v]
    BY <1>1, <1>6, <2>1 DEF ApprovalInv, ApprovalTypeOK
  <2>2. ASSUME NEW r \in Request, act[r] # None, act[r].token # None
        PROVE  /\ approval'[act[r].token] # None /\ approval'[act[r].token].spent
               /\ Covers(act[r].token, act[r])'
    <3>1. /\ act[r].token \in Approval /\ approval[act[r].token] # None
          /\ approval[act[r].token].spent /\ Covers(act[r].token, act[r])
      BY <2>2, ActFields DEF ApprovalInv, Allowed
    <3> QED
      BY <1>1, <2>1, <3>1 DEF Covers
  <2> QED
    BY <1>1, <2>2 DEF ApprovalInv, Allowed
<1>11. SpentOnce'
  BY <1>1 DEF ApprovalInv, SpentOnce
<1> QED
  BY <1>2, <1>8, <1>9, <1>10, <1>11 DEF ApprovalInv

\* The request that has come in.
LEMMA BeginsAct ==
  ASSUME AuthInv, ApprovalInv, NEW r \in Request, NEW s \in Attempt, NEW k \in Kind,
         NEW o \in Order, Begin(r, s, k, o)
  PROVE  \E new \in Act :
           /\ act' = [act EXCEPT ![r] = new] /\ act'[r] = new /\ new # None
           /\ new.user = session[s].user /\ new.kind = k /\ new.order = o /\ new.token = None
           /\ new.at \in {"spend", "ready"}
           /\ new.at # "spend" => Needs(new.kind) \in new.claims.permissions
<1> DEFINE new == [at |-> IF Needs(k) \in Owner(s).permissions THEN "ready" ELSE "spend",
                   user |-> session[s].user, claims |-> Owner(s), kind |-> k, order |-> o,
                   token |-> None]
<1>1. session[s].user \in User /\ Owner(s) \in Claims
  BY SessionOwner DEF AuthInv, Begin, Signed, Held
<1>2. /\ new \in Act /\ new # None /\ new.token = None
      /\ new.user = session[s].user /\ new.kind = k /\ new.order = o
      /\ new.at \in {"spend", "ready"}
      /\ new.at # "spend" => Needs(new.kind) \in new.claims.permissions
  BY <1>1, ApprovalNone DEF Act
<1>3. act' = [act EXCEPT ![r] = new]
  BY DEF Begin
<1> HIDE DEF new
<1>4. act'[r] = new
  BY <1>3 DEF ApprovalInv, ApprovalTypeOK
<1> QED
  BY <1>2, <1>3, <1>4

LEMMA BeginKeeps ==
  ASSUME AuthInv, ApprovalInv, AuthStep, NEW r \in Request, NEW s \in Attempt, NEW k \in Kind,
         NEW o \in Order, Begin(r, s, k, o)
  PROVE  ApprovalInv'
<1>1. PICK new \in Act :
        /\ act' = [act EXCEPT ![r] = new] /\ new # None /\ new.token = None
        /\ new.at # "spend" => Needs(new.kind) \in new.claims.permissions
  BY BeginsAct
<1>2. UNCHANGED <<authVars, ask, approval>>
  BY DEF Begin
<1>3. ApprovalTypeOK'
  BY <1>1, <1>2 DEF ApprovalInv, ApprovalTypeOK
<1>4. Verified' /\ Issued'
  BY <1>2 DEF ApprovalInv, Verified, Issued, authVars
<1>5. Allowed'
  BY <1>1, <1>2 DEF ApprovalInv, ApprovalTypeOK, Allowed, Covers
<1>6. SpentOnce'
  BY <1>1, <1>2 DEF ApprovalInv, ApprovalTypeOK, SpentOnce
<1> QED
  BY <1>3, <1>4, <1>5, <1>6 DEF ApprovalInv

LEMMA SpendKeeps ==
  ASSUME AuthInv, ApprovalInv, AuthStep, NEW r \in Request, NEW t \in Approval, Spend(r, t)
  PROVE  ApprovalInv'
<1> DEFINE made == [act[r] EXCEPT !.at = "ready", !.token = t]
           ready == [act[r] EXCEPT !.at = "ready"]
           row == [approval[t] EXCEPT !.spent = TRUE]
<1>1. /\ act[r] # None /\ act[r] \in Act
      /\ approval[t] # None /\ approval[t] \in ApprovalRow
      /\ act \in [Request -> Act \union {None}]
      /\ approval \in [Approval -> ApprovalRow \union {None}]
  BY DEF ApprovalInv, ApprovalTypeOK, Spend
<1>2. /\ ~approval[t].spent /\ Covers(t, act[r])
      /\ UNCHANGED <<authVars, ask>>
  BY DEF Spend, Unspent
<1>3. approval' = [approval EXCEPT ![t] = row]
  BY <1>1 DEF Spend
<1>4. act' = [act EXCEPT ![r] = made]
  BY <1>1 DEF Spend
<1>5. ready \in Act /\ ready.user = act[r].user /\ ready.kind = act[r].kind
      /\ ready.order = act[r].order
  BY <1>1 DEF Act
<1>6. made = [ready EXCEPT !.token = t]
  BY ZenonT(20)
<1>7. /\ row \in ApprovalRow /\ row.spent /\ row.cashier = approval[t].cashier
      /\ row.approver = approval[t].approver /\ row.permission = approval[t].permission
      /\ row.order = approval[t].order /\ row.scope = approval[t].scope
  BY <1>1 DEF ApprovalRow
<1>8. row # None
  BY <1>7, ApprovalNone
<1> HIDE DEF row, made, ready
<1>9. /\ made \in Act /\ made.token = t /\ made.user = act[r].user
      /\ made.kind = act[r].kind /\ made.order = act[r].order
  BY <1>5, <1>6 DEF Act
<1>10. made # None /\ t # None /\ made.at # "spend"
  <2>1. made.at = "ready"
    BY <1>5, <1>6 DEF Act, ready, made
  <2> QED
    BY <1>9, <2>1, ApprovalNone
<1>11. ApprovalTypeOK'
  BY <1>1, <1>2, <1>3, <1>4, <1>7, <1>9 DEF ApprovalInv, ApprovalTypeOK
<1>12. Verified'
  BY <1>2 DEF ApprovalInv, Verified, authVars
<1>13. Issued'
  BY <1>1, <1>2, <1>3, <1>7 DEF ApprovalInv, Issued
<1>14. Allowed'
  <2>1. ASSUME NEW q \in Request, act'[q] # None
        PROVE  /\ act'[q].at = "spend" => act'[q].token = None
               /\ act'[q].token = None /\ act'[q].at # "spend"
                    => Needs(act'[q].kind) \in act'[q].claims.permissions
               /\ act'[q].token # None =>
                    /\ approval'[act'[q].token] # None /\ approval'[act'[q].token].spent
                    /\ Covers(act[q].token, act[q])'
    <3>1. CASE q = r
      <4>1. act'[q] = made
        BY <1>1, <1>4, <3>1
      <4>2. approval'[t] = row
        BY <1>1, <1>3
      <4>3. Covers(act[q].token, act[q])'
        BY <1>2, <1>7, <1>9, <4>1, <4>2 DEF Covers
      <4> QED
        BY <1>7, <1>8, <1>9, <1>10, <4>1, <4>2, <4>3
    <3>2. CASE q # r
      <4>1. act'[q] = act[q]
        BY <1>1, <1>4, <3>2
      <4>2. ASSUME act[q].token # None
            PROVE  /\ approval'[act[q].token] # None /\ approval'[act[q].token].spent
                   /\ Covers(act[q].token, act[q])'
        <5>1. /\ act[q].token \in Approval /\ approval[act[q].token] # None
              /\ approval[act[q].token].spent /\ Covers(act[q].token, act[q])
          BY <2>1, <4>1, <4>2, ActFields DEF ApprovalInv, Allowed
        <5>2. approval'[act[q].token] = approval[act[q].token]
          BY <1>1, <1>2, <1>3, <5>1
        <5> QED
          BY <4>1, <5>1, <5>2 DEF Covers
      <4> QED
        BY <2>1, <4>1, <4>2 DEF ApprovalInv, Allowed
    <3> QED
      BY <3>1, <3>2
  <2> QED
    BY <2>1 DEF Allowed
<1>15. SpentOnce'
  <2>1. ASSUME NEW q \in Request, q # r, act[q] # None
        PROVE  act[q].token # t
    BY <1>2, <1>10, <2>1 DEF ApprovalInv, Allowed
  <2> QED
    BY <1>1, <1>4, <1>9, <2>1 DEF ApprovalInv, SpentOnce
<1> QED
  BY <1>11, <1>12, <1>13, <1>14, <1>15 DEF ApprovalInv

LEMMA FinishKeeps ==
  ASSUME AuthInv, ApprovalInv, AuthStep, NEW r \in Request, Finish(r)
  PROVE  ApprovalInv'
<1>1. PICK step \in {"done", "over"} : act' = [act EXCEPT ![r].at = step]
  BY DEF Finish
<1>2. /\ act[r] # None /\ act[r].at = "ready" /\ act[r] \in Act
      /\ act \in [Request -> Act \union {None}] /\ UNCHANGED <<ask, approval>>
  BY DEF Finish, ApprovalInv, ApprovalTypeOK
<1> DEFINE made == [act[r] EXCEPT !.at = step]
<1>3. /\ made \in Act /\ made.at = step /\ made.user = act[r].user
      /\ made.claims = act[r].claims /\ made.kind = act[r].kind
      /\ made.order = act[r].order /\ made.token = act[r].token
  BY <1>2 DEF Act
<1>4. act' = [act EXCEPT ![r] = made]
  BY <1>1, <1>2
<1>5. made # None
  BY <1>3, ApprovalNone
<1> HIDE DEF made
<1>6. ApprovalTypeOK' /\ Issued'
  BY <1>2, <1>3, <1>4 DEF ApprovalInv, ApprovalTypeOK, Issued
<1>7. Verified'
  <2>1. ASSUME NEW v \in Approval, ask[v] # None
        PROVE  login'[ask[v].login] # None /\ login'[ask[v].login].user # ask[v].cashier
    <3>1. ask[v].login \in Attempt
      BY <2>1, AskedLogin DEF ApprovalInv
    <3> QED
      BY <2>1, <3>1, LoginsStay DEF ApprovalInv, Verified
  <2> QED
    BY <1>2, <2>1 DEF Verified
<1>8. Allowed'
  <2>1. ASSUME NEW q \in Request, act'[q] # None
        PROVE  /\ act[q] # None /\ act'[q].token = act[q].token /\ act'[q].kind = act[q].kind
               /\ act'[q].claims = act[q].claims /\ act'[q].user = act[q].user
               /\ act'[q].order = act[q].order
               /\ act'[q].at = act[q].at \/ (act[q].at = "ready" /\ act'[q].at # "spend")
    <3>1. CASE q = r
      <4>1. act'[q] = made /\ act[q] = act[r]
        BY <1>2, <1>4, <3>1
      <4>2. step # "spend"
        OBVIOUS
      <4> QED
        BY <1>2, <1>3, <4>1, <4>2
    <3>2. CASE q # r
      BY <1>2, <1>4, <2>1, <3>2
    <3> QED
      BY <3>1, <3>2
  <2>2. ASSUME NEW q \in Request, act'[q] # None, act'[q].token # None
        PROVE  Covers(act[q].token, act[q])'
    BY <1>2, <2>1, <2>2 DEF ApprovalInv, Allowed, Covers
  <2>3. ASSUME NEW q \in Request, act'[q] # None
        PROVE  /\ act'[q].at = "spend" => act'[q].token = None
               /\ act'[q].token = None /\ act'[q].at # "spend"
                    => Needs(act'[q].kind) \in act'[q].claims.permissions
               /\ act'[q].token # None =>
                    approval'[act'[q].token] # None /\ approval'[act'[q].token].spent
    BY <1>2, <2>1, <2>3 DEF ApprovalInv, Allowed
  <2> QED
    BY <2>2, <2>3 DEF Allowed
<1>9. SpentOnce'
  BY <1>2, <1>3, <1>4, <1>5 DEF ApprovalInv, SpentOnce
<1> QED
  BY <1>6, <1>7, <1>8, <1>9 DEF ApprovalInv

LEMMA ApprovalKept ==
  ASSUME AuthInv, ApprovalInv, AuthStep, ApprovalStep
  PROVE  ApprovalInv'
<1>1. CASE UNCHANGED approvalVars
  <2>1. ASSUME NEW t \in Approval, ask[t] # None
        PROVE  login'[ask[t].login] # None /\ login'[ask[t].login].user # ask[t].cashier
    <3>1. ask[t].login \in Attempt
      BY <2>1, AskedLogin DEF ApprovalInv
    <3> QED
      BY <2>1, <3>1, LoginsStay DEF ApprovalInv, Verified
  <2> QED
    BY <1>1, <2>1 DEF approvalVars, ApprovalInv, ApprovalTypeOK, Verified, Issued, Allowed, Covers,
       SpentOnce
<1> QED
  BY <1>1, AskKeeps, CloseKeeps, IssueKeeps, BeginKeeps, SpendKeeps, FinishKeeps DEF ApprovalStep

\* Requests are not forgotten.
LEMMA ActsStay ==
  ASSUME ApprovalInv, ApprovalInv', ApprovalStep, NEW r \in Request, act[r] # None
  PROVE  /\ act'[r] # None
         /\ act'[r].user = act[r].user /\ act'[r].kind = act[r].kind /\ act'[r].order = act[r].order
         /\ act'[r].at = act[r].at \/ act[r].at \in {"spend", "ready"}
<1>1. CASE UNCHANGED act
  BY <1>1
<1>2. ASSUME NEW q \in Request, NEW s, NEW k, NEW o, Begin(q, s, k, o)
      PROVE  act'[r] = act[r]
  BY <1>2 DEF Begin, ApprovalInv, ApprovalTypeOK
<1>3. ASSUME NEW q \in Request, NEW t \in Approval, Spend(q, t)
      PROVE  /\ act'[r] # None
             /\ act'[r].user = act[r].user /\ act'[r].kind = act[r].kind
             /\ act'[r].order = act[r].order
             /\ act'[r].at = act[r].at \/ act[r].at = "spend"
  <2> DEFINE ready == [act[q] EXCEPT !.at = "ready"]
             made == [ready EXCEPT !.token = t]
  <2>1. act[q] \in Act /\ act \in [Request -> Act \union {None}] /\ act[q].at = "spend"
    BY <1>3 DEF Spend, ApprovalInv, ApprovalTypeOK
  <2>2. act' = [act EXCEPT ![q] = made]
    BY <1>3, <2>1 DEF Spend
  <2>3. ready \in Act /\ ready.user = act[q].user /\ ready.kind = act[q].kind
        /\ ready.order = act[q].order
    BY <2>1 DEF Act
  <2> HIDE DEF ready
  <2>4. made \in Act /\ made.user = act[q].user /\ made.kind = act[q].kind
        /\ made.order = act[q].order
    BY <2>3 DEF Act
  <2>5. made # None
    BY <2>4, ApprovalNone
  <2> HIDE DEF made
  <2> QED
    BY <2>1, <2>2, <2>4, <2>5
<1>4. ASSUME NEW q \in Request, Finish(q)
      PROVE  /\ act'[r] # None
             /\ act'[r].user = act[r].user /\ act'[r].kind = act[r].kind
             /\ act'[r].order = act[r].order
             /\ act'[r].at = act[r].at \/ act[r].at = "ready"
  <2>1. PICK step \in {"done", "over"} : act' = [act EXCEPT ![q].at = step]
    BY <1>4 DEF Finish
  <2>2. act[q] \in Act /\ act \in [Request -> Act \union {None}] /\ act[q].at = "ready"
    BY <1>4 DEF Finish, ApprovalInv, ApprovalTypeOK
  <2>3. [act[q] EXCEPT !.at = step] \in Act
    BY <2>2 DEF Act
  <2>4. act'[r] # None
    BY <2>1, <2>2, <2>3, ApprovalNone
  <2> QED
    BY <2>1, <2>2, <2>4 DEF Act
<1> QED
  BY <1>1, <1>2, <1>3, <1>4 DEF ApprovalStep, AskApproval, CloseVerification, Issue, approvalVars

LEMMA CartedKept ==
  ASSUME AuthInv, ApprovalInv, ApprovalInv', Carted, Next
  PROVE  Carted'
<1>1. ASSUME NEW r \in Request, cart[r] # None
      PROVE  act'[r] # None
  BY <1>1, StepsOfApproval, ActsStay DEF Carted
<1>2. CASE UNCHANGED cart
  BY <1>1, <1>2 DEF Carted
<1>3. ASSUME NEW q \in Request, NEW s \in Attempt, NEW o \in Order, NEW b, Submit(q, s, o, b)
      PROVE  Carted'
  <2>1. DOMAIN cart' = Request /\ \A r \in Request : r # q => cart'[r] = cart[r]
    BY <1>3 DEF Submit, Carted
  <2>2. PICK k \in {"sale", "discount"} : Begin(q, s, k, o)
    BY <1>3 DEF Submit
  <2>3. act'[q] # None
    BY <2>2, BeginsAct DEF Kind
  <2> QED
    BY <1>1, <2>1, <2>3 DEF Carted
<1>4. ASSUME NEW q \in Request, Create(q)
      PROVE  Carted'
  <2>1. DOMAIN cart' = Request /\ \A r \in Request : r # q => cart'[r] = cart[r]
    BY <1>4 DEF Carted, Create, LookUp, ReadProduct, ReadPrice, ReadSetting, BuildLine, Commit,
       FailCreate, RecordCreator, RecordApproval, saleVars
  <2>2. cart[q] # None
    BY <1>4 DEF Create, LookUp, ReadProduct, ReadPrice, ReadSetting, BuildLine, Commit,
       FailCreate, RecordCreator, RecordApproval, At
  <2> QED
    BY <1>1, <2>1, <2>2 DEF Carted
<1> QED
  BY <1>2, <1>3, <1>4 DEF Next, saleVars, ChangeProduct, ChangePrice

-----------------------------------------------------------------------------
(* The theorems                                                            *)

CounterInv == AuthInv /\ ApprovalInv /\ Carted

LEMMA ApprovalInitially ==
  ASSUME ApprovalInit
  PROVE  ApprovalInv
<1>1. ApprovalTypeOK
  BY DEF ApprovalInit, ApprovalTypeOK
<1> QED
  BY <1>1 DEF ApprovalInit, ApprovalInv, Verified, Issued, Allowed, SpentOnce

LEMMA CounterKept ==
  ASSUME CounterInv, [Next]_vars
  PROVE  CounterInv'
<1>1. CASE Next
  <2>1. AuthStep
    BY <1>1, StepsOfAuth DEF CounterInv, ApprovalInv
  <2>2. ApprovalInv'
    BY <1>1, <2>1, ApprovalKept, StepsOfApproval DEF CounterInv
  <2> QED
    BY <1>1, <2>1, <2>2, AuthKept, CartedKept DEF CounterInv
<1>2. CASE UNCHANGED vars
  <2>1. UNCHANGED <<authVars, approvalVars, cart>>
    BY <1>2 DEF vars, saleVars
  <2>2. AuthStep /\ ApprovalStep
    BY <2>1 DEF AuthStep, ApprovalStep
  <2> QED
    BY <2>1, <2>2, AuthKept, ApprovalKept DEF CounterInv, Carted, approvalVars
<1> QED
  BY <1>1, <1>2

THEOREM CounterInvariant == Spec => []CounterInv
<1>1. ASSUME Init PROVE CounterInv
  BY <1>1, AuthInitially, ApprovalInitially DEF Init, CounterInv, Carted
<1> QED
  BY <1>1, CounterKept, PTL DEF Spec

\* Nobody is locked out who has not given MaxFailed wrong PINs, for whatever
\* number of users and of logins that overlap.
THEOREM LockoutEarned == Spec => []LockoutIsEarned
<1>1. CounterInv => LockoutIsEarned
  BY DEF CounterInv, AuthInv
<1> QED
  BY <1>1, CounterInvariant, PTL

\* Whatever took effect was allowed to its cashier, or somebody else approved
\* it and the approval served for nothing else.
THEOREM ActionsApproved == Spec => []EachActionApproved
<1>1. ASSUME CounterInv PROVE EachActionApproved
  <2>1. ASSUME NEW r \in Request, act[r] # None, act[r].at = "done", act[r].token # None
        PROVE  LET t == act[r].token
               IN  /\ approval[t] # None /\ approval[t].spent /\ Covers(t, act[r])
                   /\ approval[t].approver # act[r].user
    <3>1. act[r].token \in Approval
      BY <1>1, <2>1, ActFields DEF CounterInv, ApprovalInv
    <3> QED
      BY <1>1, <2>1, <3>1 DEF CounterInv, ApprovalInv, Allowed, Issued, Covers
  <2>2. ASSUME NEW r \in Request, act[r] # None, act[r].at = "done", act[r].token = None
        PROVE  Needs(act[r].kind) \in act[r].claims.permissions
    BY <1>1, <2>2 DEF CounterInv, ApprovalInv, Allowed
  <2> QED
    BY <1>1, <2>1, <2>2 DEF CounterInv, ApprovalInv, SpentOnce, EachActionApproved
<1> QED
  BY <1>1, CounterInvariant, PTL

=============================================================================
