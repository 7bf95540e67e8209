----------------------------- MODULE LocalAuth -----------------------------
(***************************************************************************)
(* Who works at a store's till (internal/localauth, device and the         *)
(* middleware of internal/server/auth_context.go).  Central grants a user  *)
(* permissions until a date; the user enrols with the grant and a PIN and  *)
(* then logs in with the PIN, also when Central is out of reach.           *)
(*                                                                         *)
(* Every statement is a step, and several logins of one user may be under  *)
(* way: a login reads the user's row once and writes what it made of that  *)
(* row.  A login, like every request here, that a crash ends is one that   *)
(* takes no further step; a statement whose error the code ignores may     *)
(* have no effect.  Signatures and hashes are left out: a grant is one     *)
(* Central has signed for this device and tenant, a PIN matches if it is   *)
(* the same.                                                               *)
(***************************************************************************)
EXTENDS Integers

CONSTANTS
  User, Pin, Store,
  Attempt,      \* logins; the session a login opens has its name
  GrantInput,   \* the grants Central signs
  None,
  MaxFailed,    \* maxFailedAttempts
  LockoutTime,  \* failedAttemptLockout
  SessionTTL,   \* defaultSessionTTL
  MaxTime       \* bound: the clock's last instant

Permission == {"pos:sale", "pos:discount", "pos:void", "pos:refund", "pos:approve"}

\* Claims of a grant.  all: all_branch_access; ends: exp.
Claims == [permissions : SUBSET Permission, branch : Store \union {None}, all : BOOLEAN,
           ends : Nat]
Grant  == [user : User, claims : Claims]

\* locked: locked_until, 0 if it is NULL.
UserRow == [claims : Claims, pin : Pin, failed : Nat, locked : Nat]

Session == [user : User, ends : Nat]

\* at: what the login does next; row and now: what it read.  A login that is
\* "in" has its session, one that is "out" was refused.
Login == [at : {"count", "clear", "open", "in", "out"}, user : User, row : UserRow, now : Nat]

ASSUME AuthAssumption ==
  /\ GrantInput \subseteq Grant
  /\ MaxFailed \in Nat \ {0}
  /\ {LockoutTime, SessionTTL, MaxTime} \subseteq Nat
  /\ None \notin User \union Store \union UserRow \union Session \union Login

VARIABLES
  clock,
  store,    \* store_id of device_identity, None as long as it is not active
  users,    \* local_users
  session,  \* local_auth_sessions
  login,
  purge,    \* users whose sessions Enroll deletes next
  wrong     \* history: wrong PINs counted per user

authVars == <<clock, store, users, session, login, purge, wrong>>

AuthInit ==
  /\ clock = 0
  /\ store = None
  /\ users = [u \in User |-> None]
  /\ session = [l \in Attempt |-> None]
  /\ login = [l \in Attempt |-> None]
  /\ purge = {}
  /\ wrong = [u \in User |-> 0]

Earlier(a, b) == IF a < b THEN a ELSE b

Tick ==
  /\ clock < MaxTime
  /\ clock' = clock + 1
  /\ UNCHANGED <<store, users, session, login, purge, wrong>>

\* device.ApplyRegistration; nothing revokes a device.
Register(s) ==
  /\ store' = s
  /\ UNCHANGED <<clock, users, session, login, purge, wrong>>

-----------------------------------------------------------------------------
(* Enrolment                                                               *)

Enrolable(g) ==
  /\ g.claims.ends > clock
  /\ store # None
  /\ g.claims.all \/ g.claims.branch = store

\* The upsert of EnrollForDevice: the row starts anew.
StoreUser(g, p) ==
  /\ Enrolable(g)
  /\ users' = [users EXCEPT ![g.user] =
                 [claims |-> g.claims, pin |-> p, failed |-> 0, locked |-> 0]]
  /\ purge' = purge \union {g.user}
  /\ UNCHANGED <<clock, store, session, login, wrong>>

\* Enroll's second statement: the user's sessions end.
PurgeSessions(u) ==
  /\ u \in purge
  /\ purge' = purge \ {u}
  /\ session' \in {session,
                   [l \in Attempt |-> IF session[l] # None /\ session[l].user = u
                                     THEN None ELSE session[l]]}
  /\ UNCHANGED <<clock, store, users, login, wrong>>

-----------------------------------------------------------------------------
(* Login                                                                   *)

\* What a login does with the row it has read.
Verdict(row, p) ==
  IF clock < row.locked \/ clock >= row.claims.ends THEN "out"
  ELSE IF p = row.pin THEN "clear"
  ELSE "count"

BeginLogin(l, u, p) ==
  /\ login[l] = None
  /\ users[u] # None
  /\ login' = [login EXCEPT ![l] =
                 [at |-> Verdict(users[u], p), user |-> u, row |-> users[u], now |-> clock]]
  /\ UNCHANGED <<clock, store, users, session, purge, wrong>>

\* Mutant of Exhausted: one wrong PIN too early.
ExhaustedEarly(failed) == failed + 1 >= MaxFailed

Exhausted(failed) == failed >= MaxFailed

\* A wrong PIN: the count of the row that was read goes up by one, or starts
\* anew behind a lock.
CountWrong(l) ==
  /\ login[l] # None /\ login[l].at = "count"
  /\ LET u == login[l].user
         failed == login[l].row.failed + 1
     IN  /\ \/ UNCHANGED users
            \/ /\ Exhausted(failed)
               /\ users' = [users EXCEPT ![u].failed = 0,
                                         ![u].locked = login[l].now + LockoutTime]
            \/ /\ ~Exhausted(failed)
               /\ users' = [users EXCEPT ![u].failed = failed]
         /\ wrong' = [wrong EXCEPT ![u] = @ + 1]
  /\ login' = [login EXCEPT ![l].at = "out"]
  /\ UNCHANGED <<clock, store, session, purge>>

ClearFailures(l) ==
  /\ login[l] # None /\ login[l].at = "clear"
  /\ \/ UNCHANGED users
     \/ users' = [users EXCEPT ![login[l].user].failed = 0, ![login[l].user].locked = 0]
  /\ login' = [login EXCEPT ![l].at = "open"]
  /\ UNCHANGED <<clock, store, session, purge, wrong>>

\* A session ends with its time or with the grant.
OpenSession(l) ==
  /\ login[l] # None /\ login[l].at = "open"
  /\ session' = [session EXCEPT ![l] =
                   [user |-> login[l].user,
                    ends |-> Earlier(login[l].now + SessionTTL, login[l].row.claims.ends)]]
  /\ login' = [login EXCEPT ![l].at = "in"]
  /\ UNCHANGED <<clock, store, users, purge, wrong>>

\* Logout, and what Authenticate does to a session it finds expired.  Who holds
\* a session may end it: see ManagerApproval.
EndSession(l) ==
  /\ session' \in {session, [session EXCEPT ![l] = None]}
  /\ UNCHANGED <<clock, store, users, login, purge, wrong>>

-----------------------------------------------------------------------------
(* Requests                                                                *)

Owner(l) == users[session[l].user].claims

\* Authenticate succeeds: the request has the user's present permissions.
Authentic(l) == session[l] # None /\ clock < session[l].ends /\ clock < Owner(l).ends

AuthNext ==
  \/ Tick
  \/ \E s \in Store : Register(s)
  \/ \E g \in GrantInput, p \in Pin : StoreUser(g, p)
  \/ \E u \in User : PurgeSessions(u)
  \/ \E l \in Attempt, u \in User, p \in Pin : BeginLogin(l, u, p)
  \/ \E l \in Attempt : CountWrong(l) \/ ClearFailures(l) \/ OpenSession(l)

-----------------------------------------------------------------------------
AuthTypeOK ==
  /\ clock \in Nat
  /\ store \in Store \union {None}
  /\ users \in [User -> UserRow \union {None}]
  /\ session \in [Attempt -> Session \union {None}]
  /\ login \in [Attempt -> Login \union {None}]
  /\ purge \subseteq User
  /\ wrong \in [User -> Nat]
  /\ \A l \in Attempt : session[l] # None => users[session[l].user] # None

\* A user is locked out only after MaxFailed wrong PINs, however logins that
\* have read the same row overlap with one another and with an enrolment.
LockoutIsEarned ==
  \A u \in User : users[u] # None /\ users[u].locked > 0 => wrong[u] >= MaxFailed

=============================================================================
