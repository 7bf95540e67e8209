------------------------------- MODULE Outbox -------------------------------
(***************************************************************************)
(* The transactional outbox (internal/outbox) together with the goroutines *)
(* that drain it (internal/syncengine): the background loop Engine.Run and *)
(* any number of concurrent POST /api/v1/sync/now requests, which build an *)
(* Engine of their own with the SAME lock owner "sync:<device id>".        *)
(*                                                                         *)
(* Every SQL statement outside a transaction, and every transaction, is    *)
(* one atomic step (one SQLite connection, BEGIN IMMEDIATE).  Between two  *)
(* steps of a worker any other worker, the clock, the network, a manager   *)
(* or a crash may intervene.                                               *)
(*                                                                         *)
(* Real time is abstracted to the three comparisons the SQL makes:         *)
(* available_at <= now (due), locked_at < now - 2 minutes (expired) and    *)
(* the textual order of created_at (Precedes).                             *)
(***************************************************************************)
EXTENDS Naturals, FiniteSets

CONSTANTS
  Key,            \* ordering keys in use
  SaleKey,        \* those of the form "sales_order:<id>"
  NoKey,          \* the key of a row not inserted yet
  Background,     \* the worker running Engine.Run
  Request,        \* workers running Engine.DispatchReady for POST /sync/now
  Grant,          \* Central-signed recovery grants, by recovery_id
  GrantFor,       \* the event each grant names
  MaxAttempts,    \* maxAttempts (12 in the code)
  TicksPerSecond, \* resolution of the clock, see Stamp
  MaxEvents,      \* bound: rows inserted in one behaviour
  MaxBatch,       \* bound: rows inserted by one transaction
  MaxInstant,     \* bound: instants at which a row can be inserted
  MaxCrashes,     \* bound: process stops and crashes
  MaxSleeps       \* bound: times a live claim outlasts its lease

Event  == 1..MaxEvents     \* rows, numbered in the order they are committed
Worker == Request \union {Background}
None   == 0                \* no row
Instant == 1..MaxInstant

ASSUME BoundsAssumption ==
  /\ MaxAttempts \in Nat \ {0}
  /\ TicksPerSecond \in Nat \ {0}
  /\ MaxEvents \in Nat
  /\ MaxBatch \in Nat
  /\ MaxInstant \in Nat
  /\ MaxCrashes \in Nat
  /\ MaxSleeps \in Nat

ASSUME NamesAssumption ==
  /\ SaleKey \subseteq Key
  /\ NoKey \notin Key
  /\ Background \notin Request
  /\ GrantFor \in [Grant -> Event]

VARIABLES
  \* Table outbox_events, one entry per row.
  inserted,   \* number of rows
  keyOf,      \* ordering_key
  createdAt,  \* created_at, as an instant of the clock
  status,     \* status, "absent" for a row not inserted yet
  attempts,   \* attempt_count
  due,        \* rows whose available_at is in the past
  locked,     \* rows whose lock_owner is "sync:<device id>", the others have NULL
  expired,    \* rows whose locked_at is more than two minutes old
  \* Table pos_sync_recoveries.
  consumed,   \* recovery ids recorded as used
  \* The goroutines, lost when the process stops.
  pc,         \* where each worker is
  claim,      \* the event it is working on
  counted,    \* the attempt_count + 1 it has read in MarkFailed
  \* The network and Central.
  posted,     \* events sent at least once (a request may arrive arbitrarily late)
  received,   \* events Central has stored
  \* History, read by properties and by bounds only.
  skipped,    \* events a manager skipped
  failures,   \* rejected deliveries per event, up to MaxAttempts
  revived,    \* times each event left dead_letter for pending
  crashes,
  sleeps

table   == <<inserted, keyOf, createdAt>>
workers == <<pc, claim, counted>>
history == <<skipped, failures, revived, crashes, sleeps>>
vars == <<table, status, attempts, due, locked, expired, consumed, workers,
          posted, received, history>>

(***************************************************************************)
(* created_at is text in time.RFC3339Nano, compared as text.  That layout  *)
(* drops the fraction of a second when it is zero (and its trailing        *)
(* zeros), and '.' and every digit sort before 'Z': an instant without a   *)
(* fraction sorts AFTER all the other instants of its second.  The         *)
(* fraction is one digit in base TicksPerSecond here; with one tick per    *)
(* second every instant is a whole second and the text sorts by time.      *)
(***************************************************************************)
Stamp(t) ==
  LET fraction == t % TicksPerSecond
  IN  (t \div TicksPerSecond) * (TicksPerSecond + 1)
        + (IF fraction = 0 THEN TicksPerSecond ELSE fraction)

\* d sorts before e by created_at (instants of distinct rows are distinct).
Precedes(d, e) == Stamp(createdAt[d]) < Stamp(createdAt[e])

\* Mutants of AtHead: a poisoned row, or one in flight, does not hold its key.
AtHeadPastDeadLetter(e) ==
  \A d \in 1..inserted :
    keyOf[d] = keyOf[e] /\ Precedes(d, e) => status[d] \in {"published", "dead_letter"}
AtHeadPastClaim(e) ==
  \A d \in 1..inserted :
    keyOf[d] = keyOf[e] /\ Precedes(d, e) => status[d] \in {"published", "processing"}

\* Nothing unpublished on the key of e sorts before e.
AtHead(e) ==
  \A d \in 1..inserted :
    keyOf[d] = keyOf[e] /\ Precedes(d, e) => status[d] = "published"

\* Mutant of Claimable: a failed row is never taken again.
ClaimablePendingOnly(e) == status[e] = "pending" /\ e \in due /\ AtHead(e)

Claimable(e) ==
  /\ status[e] \in {"pending", "failed"}
  /\ e \in due
  /\ AtHead(e)

\* The row the claim statement selects: the first claimable one by created_at.
NextClaim(e) ==
  /\ Claimable(e)
  /\ \A d \in 1..inserted : Claimable(d) => ~ Precedes(d, e)

Init ==
  /\ inserted = 0
  /\ keyOf = [e \in Event |-> NoKey]
  /\ createdAt = [e \in Event |-> 0]
  /\ status = [e \in Event |-> "absent"]
  /\ attempts = [e \in Event |-> 0]
  /\ due = {}
  /\ locked = {}
  /\ expired = {}
  /\ consumed = {}
  /\ pc = [w \in Worker |-> "off"]
  /\ claim = [w \in Worker |-> None]
  /\ counted = [w \in Worker |-> 0]
  /\ posted = {}
  /\ received = {}
  /\ skipped = {}
  /\ failures = [e \in Event |-> 0]
  /\ revived = [e \in Event |-> 0]
  /\ crashes = 0
  /\ sleeps = 0

-----------------------------------------------------------------------------
(* Producers                                                               *)

LastInstant == IF inserted = 0 THEN 0 ELSE createdAt[inserted]

\* A business transaction inserts n events on one key; each reads the clock.
Enqueue(k, n, t) ==
  LET new == inserted+1 .. inserted+n
  IN  /\ inserted + n <= MaxEvents
      /\ t > LastInstant
      /\ t + n - 1 <= MaxInstant
      /\ inserted' = inserted + n
      /\ keyOf' = [e \in Event |-> IF e \in new THEN k ELSE keyOf[e]]
      /\ createdAt' = [e \in Event |->
                         IF e \in new THEN t + (e - (inserted + 1)) ELSE createdAt[e]]
      /\ status' = [e \in Event |-> IF e \in new THEN "pending" ELSE status[e]]
      /\ due' = due \union new
      /\ UNCHANGED <<attempts, locked, expired, consumed, workers, posted,
                     received, history>>

-----------------------------------------------------------------------------
(* Workers                                                                 *)

Enter(w, place) == pc' = [pc EXCEPT ![w] = place]

\* Worker w is through with its event.
Drop(w) ==
  /\ claim' = [claim EXCEPT ![w] = None]
  /\ counted' = [counted EXCEPT ![w] = 0]

\* RecoverStaleClaims: attempt_count and available_at are left alone.
RecoverStaleClaims ==
  LET stale == {e \in expired : status[e] = "processing"}
  IN  /\ status' = [e \in Event |-> IF e \in stale THEN "failed" ELSE status[e]]
      /\ locked' = locked \ stale
      /\ expired' = expired \ stale

\* Engine.Run begins: the only time the background loop recovers stale claims.
Start ==
  /\ pc[Background] = "off"
  /\ RecoverStaleClaims
  /\ Enter(Background, "ready")
  /\ UNCHANGED <<table, attempts, due, consumed, claim, counted, posted,
                 received, history>>

\* A POST /sync/now request enters DispatchReady.
SyncNow(r) ==
  /\ pc[Background] # "off"
  /\ pc[r] = "off"
  /\ RecoverStaleClaims
  /\ Enter(r, "ready")
  /\ UNCHANGED <<table, attempts, due, consumed, claim, counted, posted,
                 received, history>>

\* ClaimNext, then publish sends the request.
ClaimNext(w, e) ==
  /\ pc[w] = "ready"
  /\ NextClaim(e)
  /\ status' = [status EXCEPT ![e] = "processing"]
  /\ locked' = locked \union {e}
  /\ expired' = expired \ {e}
  /\ Enter(w, "posting")
  /\ claim' = [claim EXCEPT ![w] = e]
  /\ posted' = posted \union {e}
  /\ UNCHANGED <<table, attempts, due, consumed, counted, received, history>>

\* DispatchReady returns: nothing is claimable, or its limit is reached, or its
\* client is gone.  (The background loop polls again.)
Return(r) ==
  /\ pc[r] = "ready"
  /\ Enter(r, "off")
  /\ UNCHANGED <<table, status, attempts, due, locked, expired, consumed, claim,
                 counted, posted, received, history>>

\* Mutant of Confirms: any conflict counts as an acknowledgement.
ConfirmsAnyConflict(e) == TRUE

\* A 2xx, or a 409 that names this event as received.
Confirms(e) == e \in received

\* publish returns nil.
Acknowledged(w) ==
  /\ pc[w] = "posting"
  /\ Confirms(claim[w])
  /\ Enter(w, "acked")
  /\ UNCHANGED <<table, status, attempts, due, locked, expired, consumed, claim,
                 counted, posted, received, history>>

\* publish returns an error: refused, timed out, or the answer was lost.
Rejected(w) ==
  /\ pc[w] = "posting"
  /\ Enter(w, "rejected")
  /\ failures' = [failures EXCEPT ![claim[w]] = IF @ < MaxAttempts THEN @ + 1 ELSE @]
  /\ UNCHANGED <<table, status, attempts, due, locked, expired, consumed, claim,
                 counted, posted, received, skipped, revived, crashes, sleeps>>

\* Mutant of Owned: the updates are keyed by id alone.
OwnedById(e) == TRUE

\* The WHERE clause of MarkPublished and MarkFailed: the claim is somebody's.
\* All workers of a device share one owner, so it need not be this worker's.
Owned(e) == status[e] = "processing" /\ e \in locked

\* MarkPublished.  The background loop goes on whatever the outcome; a request
\* goes on only if the update found the row.
MarkPublished(w) ==
  LET e == claim[w]
  IN  /\ pc[w] = "acked"
      /\ IF Owned(e)
         THEN /\ status' = [status EXCEPT ![e] = "published"]
              /\ locked' = locked \ {e}
              /\ expired' = expired \ {e}
         ELSE UNCHANGED <<status, locked, expired>>
      /\ Enter(w, IF w = Background \/ Owned(e) THEN "ready" ELSE "off")
      /\ Drop(w)
      /\ UNCHANGED <<table, attempts, due, consumed, posted, received, history>>

\* MarkFailed, first statement: read attempt_count, or fail if the claim is gone.
CountFailure(w) ==
  LET e == claim[w]
  IN  /\ pc[w] = "rejected"
      /\ IF Owned(e)
         THEN /\ counted' = [counted EXCEPT ![w] = attempts[e] + 1]
              /\ Enter(w, "counted")
              /\ UNCHANGED claim
         ELSE /\ Drop(w)
              /\ Enter(w, IF w = Background THEN "ready" ELSE "off")
      /\ UNCHANGED <<table, status, attempts, due, locked, expired, consumed,
                     posted, received, history>>

\* Mutants of Exhausted: off by one, either way.
ExhaustedLate(n) == n > MaxAttempts
ExhaustedEarly(n) == n + 1 >= MaxAttempts

Exhausted(n) == n >= MaxAttempts

\* MarkFailed, second statement, with the count read by the first one.
MarkFailed(w) ==
  LET e == claim[w]
      n == counted[w]
  IN  /\ pc[w] = "counted"
      /\ IF Owned(e)
         THEN /\ status' = [status EXCEPT ![e] =
                              IF Exhausted(n) THEN "dead_letter" ELSE "failed"]
              /\ attempts' = [attempts EXCEPT ![e] = n]
              /\ due' = due \ {e}
              /\ locked' = locked \ {e}
              /\ expired' = expired \ {e}
         ELSE UNCHANGED <<status, attempts, due, locked, expired>>
      /\ Enter(w, IF w = Background THEN "ready" ELSE "off")
      /\ Drop(w)
      /\ UNCHANGED <<table, consumed, posted, received, history>>

\* The context of a request ends (client gone, handler deadline) after it has
\* claimed: publish fails and so does the mark, and the row stays processing.
Abandon(r) ==
  /\ claim[r] # None
  /\ Enter(r, "off")
  /\ Drop(r)
  /\ UNCHANGED <<table, status, attempts, due, locked, expired, consumed,
                 posted, received, history>>

\* The process stops or crashes: the same for the rows its workers hold, since
\* a cancelled context fails the mark as well.
Crash ==
  /\ pc[Background] # "off"
  /\ crashes < MaxCrashes
  /\ crashes' = crashes + 1
  /\ pc' = [w \in Worker |-> "off"]
  /\ claim' = [w \in Worker |-> None]
  /\ counted' = [w \in Worker |-> 0]
  /\ UNCHANGED <<table, status, attempts, due, locked, expired, consumed,
                 posted, received, skipped, failures, revived, sleeps>>

-----------------------------------------------------------------------------
(* Operators of the store                                                  *)

\* Mutant of Unused: the recovery id is not looked up.
UnusedUnchecked(g) == TRUE

Unused(g) == g \notin consumed

\* ApplyAuthorizedRecovery: one transaction consumes the grant and requeues.
ApplyAuthorizedRecovery(g) ==
  LET e == GrantFor[g]
  IN  /\ Unused(g)
      /\ status[e] = "dead_letter"
      /\ keyOf[e] \in SaleKey
      /\ status' = [status EXCEPT ![e] = "pending"]
      /\ attempts' = [attempts EXCEPT ![e] = 0]
      /\ due' = due \union {e}
      /\ locked' = locked \ {e}
      /\ expired' = expired \ {e}
      /\ consumed' = consumed \union {g}
      /\ revived' = [revived EXCEPT ![e] = @ + 1]
      /\ UNCHANGED <<table, workers, posted, received, skipped, failures, crashes,
                     sleeps>>

\* skipOutboxDiagnostic: a manager gives up on any unpublished event.
Skip(e) ==
  /\ status[e] \in {"pending", "processing", "failed", "dead_letter"}
  /\ status' = [status EXCEPT ![e] = "published"]
  /\ locked' = locked \ {e}
  /\ expired' = expired \ {e}
  /\ skipped' = skipped \union {e}
  /\ UNCHANGED <<table, attempts, due, consumed, workers, posted, received,
                 failures, revived, crashes, sleeps>>

-----------------------------------------------------------------------------
(* Environment                                                             *)

\* A request that was sent reaches Central, which keeps one copy per event id.
CentralReceives(e) ==
  /\ e \in posted \ received
  /\ received' = received \union {e}
  /\ UNCHANGED <<table, status, attempts, due, locked, expired, consumed,
                 workers, posted, history>>

\* available_at of a backed-off event passes.
BackoffElapses(e) ==
  /\ e \in 1..inserted
  /\ e \notin due
  /\ due' = due \union {e}
  /\ UNCHANGED <<table, status, attempts, locked, expired, consumed, workers,
                 posted, received, history>>

\* A claim nobody is working on: its worker crashed or was cut off.
Orphaned(e) ==
  status[e] = "processing" /\ \A w \in Worker : claim[w] # e

\* Two minutes pass since an orphaned row was claimed.
LeaseExpires(e) ==
  /\ Orphaned(e)
  /\ e \notin expired
  /\ expired' = expired \union {e}
  /\ UNCHANGED <<table, status, attempts, due, locked, consumed, workers,
                 posted, received, history>>

\* The machine is suspended, or an HTTP timeout longer than the lease is
\* configured: every lease expires, the ones of live claims too.
Sleep ==
  /\ sleeps < MaxSleeps
  /\ sleeps' = sleeps + 1
  /\ expired' = {e \in 1..inserted : status[e] = "processing"}
  /\ due' = 1..inserted
  /\ UNCHANGED <<table, status, attempts, locked, consumed, workers, posted,
                 received, skipped, failures, revived, crashes>>

-----------------------------------------------------------------------------
Producers == \E k \in Key, n \in 1..MaxBatch, t \in Instant : Enqueue(k, n, t)

\* What worker w does after ClaimNext, as long as its context lives.
Finish(w) ==
  \/ Acknowledged(w)
  \/ Rejected(w)
  \/ MarkPublished(w)
  \/ CountFailure(w)
  \/ MarkFailed(w)

Claim(w) == \E e \in Event : ClaimNext(w, e)

Next ==
  \/ Producers
  \/ Start
  \/ \E r \in Request : SyncNow(r) \/ Return(r) \/ Abandon(r)
  \/ \E w \in Worker : Claim(w) \/ Finish(w)
  \/ Crash
  \/ Sleep
  \/ \E g \in Grant : ApplyAuthorizedRecovery(g)
  \/ \E e \in Event :
       Skip(e) \/ CentralReceives(e) \/ BackoffElapses(e) \/ LeaseExpires(e)

Spec == Init /\ [][Next]_vars

\* The service is restarted, its loop is scheduled, every HTTP call ends (the
\* client has a timeout) and time passes.  Nothing makes a manager act, a
\* request come or Central accept.
Fairness ==
  /\ WF_vars(Start)
  /\ WF_vars(Claim(Background))
  /\ WF_vars(Finish(Background))
  /\ \A r \in Request : WF_vars(Finish(r) \/ Abandon(r))
  /\ \A e \in Event : WF_vars(BackoffElapses(e)) /\ WF_vars(LeaseExpires(e))

FairSpec == Spec /\ Fairness

-----------------------------------------------------------------------------
(* Properties                                                              *)

Statuses == {"absent", "pending", "processing", "published", "failed", "dead_letter"}
Places == {"off", "ready", "posting", "acked", "rejected", "counted"}

\* The columns, the workers and the history variables have their types.
TypeOK ==
  /\ inserted \in 0..MaxEvents
  /\ keyOf \in [Event -> Key \union {NoKey}]
  /\ createdAt \in [Event -> 0..MaxInstant]
  /\ status \in [Event -> Statuses]
  /\ attempts \in [Event -> 0..MaxAttempts]
  /\ due \subseteq Event
  /\ locked \subseteq Event
  /\ expired \subseteq Event
  /\ consumed \subseteq Grant
  /\ pc \in [Worker -> Places]
  /\ claim \in [Worker -> Event \union {None}]
  /\ counted \in [Worker -> 0..MaxAttempts]
  /\ posted \subseteq Event
  /\ received \subseteq Event
  /\ skipped \subseteq Event
  /\ failures \in [Event -> 0..MaxAttempts]
  /\ revived \in [Event -> Nat]
  /\ crashes \in 0..MaxCrashes
  /\ sleeps \in 0..MaxSleeps

\* ClaimNext's promise: a later event of a key never reaches Central before an
\* earlier one that was not skipped, whatever workers, crashes, expired leases,
\* lost answers and late requests do.
NoOvertaking ==
  \A d, e \in 1..inserted :
    keyOf[d] = keyOf[e] /\ d < e /\ e \in received => d \in received \union skipped

\* A published event is at Central or was skipped: no answer, however late or
\* for whichever claim, settles an event Central does not have.
PublishedIsAtCentral ==
  \A e \in 1..inserted : status[e] = "published" => e \in received \union skipped

\* Workers that race for the same key never have two of its events in flight.
OneClaimPerKey ==
  \A d, e \in 1..inserted :
    /\ keyOf[d] = keyOf[e]
    /\ status[d] = "processing"
    /\ status[e] = "processing"
    => d = e

\* An event is poisoned only after MaxAttempts deliveries of it were rejected,
\* although attempt_count is read and written in two statements and any worker
\* may write it for a claim that is not its own.
DeadLetterIsEarned ==
  \A e \in 1..inserted : status[e] = "dead_letter" => failures[e] = MaxAttempts

\* Every grant Central signed revives one dead letter at most: replays of a
\* consumed grant do nothing, also when its event is poisoned again later.
GrantRevivesOnce ==
  \A e \in 1..inserted : revived[e] = Cardinality({g \in consumed : GrantFor[g] = e})

\* No worker, recovery or lease expiry ever reopens a published event.
PublishedIsFinal ==
  [][\A e \in Event : status[e] = "published" => status'[e] = "published"]_vars

\* Some event of e's key, e itself or an earlier one, satisfies P.
Blocked(e) ==
  \E d \in 1..inserted :
    /\ keyOf[d] = keyOf[e] /\ d <= e
    /\ status[d] = "dead_letter"

OrphanAhead(e) ==
  \E d \in 1..inserted : keyOf[d] = keyOf[e] /\ d <= e /\ Orphaned(d)

\* The queue drains: every event is eventually published, or is behind a dead
\* letter of its own key, or behind a claim whose worker is gone.
EveryEventSettles ==
  \A e \in Event :
    status[e] # "absent" ~> status[e] = "published" \/ Blocked(e) \/ OrphanAhead(e)

\* docs/V1_INVENTORY_ACCEPTANCE_MATRIX.md: "SQLite balance, movement, and pending
\* outbox survive restart and resume convergence"; docs/RECOVERY.md: unsynced
\* completed sales "will resume normal HTTPS synchronization".
UnsyncedSalesResume ==
  \A e \in Event : status[e] # "absent" ~> status[e] = "published" \/ Blocked(e)

-----------------------------------------------------------------------------
(* The inductive invariant behind the safety properties                    *)

\* The clock's text sorts by time on the instants of the model.
ChronologicalStamps ==
  \A s, t \in Instant : s < t => Stamp(s) < Stamp(t)

\* Rows are inserted in the order of their instants.
RowsInOrder ==
  /\ \A e \in Event : status[e] = "absent" <=> e > inserted
  /\ \A e \in 1..inserted : createdAt[e] \in Instant
  /\ \A d, e \in 1..inserted : d < e => createdAt[d] < createdAt[e]

\* A claim is on a posted row, and an attempt is left to it.
ClaimsAreLive ==
  /\ \A e \in Event : status[e] = "processing" => e \in posted
  /\ \A e \in Event :
       status[e] \in {"absent", "pending", "failed", "processing"} => attempts[e] < MaxAttempts
  /\ \A w \in Worker : pc[w] \in {"posting", "acked", "rejected", "counted"} => claim[w] \in posted
  /\ \A w \in Worker : pc[w] = "acked" => claim[w] \in received

\* Sending an event presupposes that everything earlier on its key is published.
PostedInOrder ==
  /\ posted \subseteq 1..inserted
  /\ received \subseteq posted
  /\ skipped \subseteq 1..inserted
  /\ \A e \in posted, d \in 1..inserted :
       d < e /\ keyOf[d] = keyOf[e] => status[d] = "published"

IInv ==
  /\ TypeOK
  /\ RowsInOrder
  /\ ClaimsAreLive
  /\ PostedInOrder
  /\ PublishedIsAtCentral

-----------------------------------------------------------------------------
(* Refinement                                                              *)

Settled == {e \in 1..inserted : status[e] = "published"}

Promise == INSTANCE OrderedDelivery
  WITH accepted <- inserted, delivered <- received, settled <- Settled,
       writtenOff <- skipped

\* The outbox implements ordered delivery.
ImplementsOrderedDelivery == Promise!Spec

=============================================================================
