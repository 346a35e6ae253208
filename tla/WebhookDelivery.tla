--------------------------- MODULE WebhookDelivery ---------------------------
(***************************************************************************)
(* Delivery of webhooks: events are queued as deliveries, worker processes *)
(* claim batches of them and post them to the merchant, a failed delivery  *)
(* is tried again and in the end dead-lettered, and merchants and          *)
(* operators retry what failed.                                            *)
(*                                                                         *)
(* A worker's cycle is one database transaction: it locks a batch (FOR     *)
(* UPDATE SKIP LOCKED), posts one delivery after the other, and commits at *)
(* the end.  What it writes is kept in the work of the worker until then.  *)
(* The merchant does as docs/WEBHOOK_DEBUGGING.md says: it remembers the   *)
(* delivery ids it has processed and ignores those it knows.  (A merchant  *)
(* always has a webhook secret, so the worker's branch for a missing one   *)
(* is not modelled; the status "failed" is never set by any code.)         *)
(***************************************************************************)
EXTENDS Integers, Sequences, FiniteSets

CONSTANTS
  Event,        \* the events there are to report
  Unpostable,   \* those whose URL makes the HTTP client raise (httpx.InvalidURL)
  Delivery,     \* ids of delivery rows
  Worker,       \* the webhook workers, one per process
  Request,      \* concurrent requests to retry a delivery
  MaxAttempts,  \* MAX_ATTEMPTS
  BatchSize,    \* BATCH_SIZE
  MaxReplays,   \* bound: retries by merchants and operators
  MaxAborts,    \* bound: how many worker transactions fail
  NoEvent, NoDelivery

ASSUME EventAssumption == Unpostable \subseteq Event /\ NoEvent \notin Event
ASSUME DeliveryAssumption == IsFiniteSet(Delivery) /\ NoDelivery \notin Delivery
ASSUME BoundAssumption ==
  /\ MaxAttempts \in Nat \ {0} /\ BatchSize \in Nat \ {0}
  /\ MaxReplays \in Nat /\ MaxAborts \in Nat

VARIABLES
  status,     \* status[d]: WebhookDelivery.status, "none" before the row exists
  carries,    \* carries[d]: the event in its payload
  attempts,   \* attempts[d]
  due,        \* the rows whose next_retry_at has passed ...
  earlier,    \* ... and their order: <<c, d>> if c's next_retry_at is before d's
  later,      \* the rows whose next_retry_at is in the future
  letters,    \* letters[d]: the dead letters of d, oldest first
  work,       \* work[w][d]: what w's transaction did with d so far
  resolves,   \* resolves[w]: the letters it has marked resolved, as <<d, k>>
  request,    \* request[r]: the delivery r has found to be retryable
  processed,  \* merchant: the delivery ids it has processed
  applied,    \* merchant: how often it has applied an event (0, 1, 2+)
  accepted,   \* history: deliveries answered with 2xx
  operator,   \* history: deliveries made by admin_retry
  replays, aborts

rows     == <<status, carries, attempts, due, earlier, later, letters>>
merchant == <<processed, applied, accepted>>
vars == <<rows, work, resolves, request, merchant, operator, replays, aborts>>

Outcome == {"claimed", "accepted", "failed", "raised"}
Letter  == [retry : Delivery \cup {NoDelivery}, resolved : BOOLEAN]

TypeOK ==
  /\ status \in [Delivery -> {"none", "pending", "delivered", "dead_lettered"}]
  /\ carries \in [Delivery -> Event \cup {NoEvent}]
  /\ attempts \in [Delivery -> 0 .. MaxAttempts]
  /\ due \subseteq Delivery /\ earlier \subseteq due \X due
  /\ later \subseteq Delivery
  /\ letters \in [Delivery -> Seq(Letter)]
  /\ work \in [Worker -> [Delivery -> Outcome \cup {"none"}]]
  /\ resolves \in [Worker -> SUBSET (Delivery \X Nat)]
  /\ request \in [Request -> Delivery \cup {NoDelivery}]
  /\ processed \subseteq Delivery /\ accepted \subseteq processed
  /\ applied \in [Event -> 0 .. 2]
  /\ operator \subseteq Delivery
  /\ replays \in 0 .. MaxReplays /\ aborts \in 0 .. MaxAborts

Init ==
  /\ status = [d \in Delivery |-> "none"]
  /\ carries = [d \in Delivery |-> NoEvent]
  /\ attempts = [d \in Delivery |-> 0]
  /\ due = {} /\ earlier = {} /\ later = {}
  /\ letters = [d \in Delivery |-> << >>]
  /\ work = [w \in Worker |-> [d \in Delivery |-> "none"]]
  /\ resolves = [w \in Worker |-> {}]
  /\ request = [r \in Request |-> NoDelivery]
  /\ processed = {} /\ accepted = {} /\ applied = [e \in Event |-> 0]
  /\ operator = {}
  /\ replays = 0 /\ aborts = 0

-----------------------------------------------------------------------------
\* The rows of w's batch, and the rows locked by some transaction.
BatchOf(w) == {d \in Delivery : work[w][d] # "none"}
Locked == UNION {BatchOf(w) : w \in Worker}

\* next_retry_at = now: d becomes the last of the rows that are due.
ComesLast(d) ==
  /\ due' = due \cup {d}
  /\ earlier' = (earlier \cap ((due \ {d}) \X (due \ {d}))) \cup ((due \ {d}) \X {d})

\* A new row for event e.
NewRow(d, e) ==
  /\ status' = [status EXCEPT ![d] = "pending"]
  /\ carries' = [carries EXCEPT ![d] = e]

\* queue_webhook, called in the transaction of the change it reports.  Bound:
\* an event happens once.
queue_webhook(e, d) ==
  /\ e \notin {carries[c] : c \in Delivery} /\ status[d] = "none"
  /\ NewRow(d, e) /\ ComesLast(d)
  /\ UNCHANGED <<attempts, later, letters, work, resolves, request, merchant,
                 operator, replays, aborts>>

\* Time passes, and a scheduled retry falls due.
RetryFallsDue(d) ==
  /\ d \in later
  /\ later' = later \ {d}
  /\ ComesLast(d)
  /\ UNCHANGED <<status, carries, attempts, letters, work, resolves, request, merchant,
                 operator, replays, aborts>>

-----------------------------------------------------------------------------
(* The worker. *)

\* claim_pending_deliveries: the first BatchSize rows that are due, pending,
\* and not locked by another worker.
\* Mutants: without SKIP LOCKED; a batch one row short.
Claimable_Unlocked == {d \in due : status[d] = "pending"}
Claimable == {d \in due : status[d] = "pending"} \ Locked
Batch_OneShort ==
  {d \in Claimable : Cardinality({c \in Claimable : <<c, d>> \in earlier}) < BatchSize - 1}
Batch == {d \in Claimable :
            Cardinality({c \in Claimable : <<c, d>> \in earlier}) < BatchSize}
Claim(w) ==
  /\ BatchOf(w) = {} /\ Batch # {}
  /\ work' = [work EXCEPT ![w] = [d \in Delivery |-> IF d \in Batch THEN "claimed" ELSE "none"]]
  /\ UNCHANGED <<rows, resolves, request, merchant, operator, replays, aborts>>

\* The merchant gets a delivery; it applies the event unless it knows the id.
Processes(d) ==
  /\ processed' = processed \cup {d}
  /\ applied' = IF d \in processed THEN applied
                ELSE [applied EXCEPT ![carries[d]] = IF @ < 2 THEN @ + 1 ELSE @]

\* mark_dlq_resolved_for_delivery finds the letter whose retry d was.
LettersRetriedBy(d) ==
  UNION { {c} \X {k \in DOMAIN letters[c] : letters[c][k].retry = d /\ ~ letters[c][k].resolved}
          : c \in Delivery }

Records(w, d, outcome) == work' = [work EXCEPT ![w][d] = outcome]

\* attempt_delivery and what follows for one delivery.  The post succeeds, or
\* does not get through, or is processed and the answer is lost, or raises:
\* an exception that is no HTTP error is logged, and nothing is recorded.
Post(w, d) ==
  /\ work[w][d] = "claimed"
  /\ \A c \in Delivery : work[w][c] = "claimed" => <<c, d>> \notin earlier
  /\ \/ /\ carries[d] \notin Unpostable
        /\ Records(w, d, "accepted") /\ Processes(d)
        /\ accepted' = accepted \cup {d}
        /\ resolves' = [resolves EXCEPT ![w] = @ \cup LettersRetriedBy(d)]
     \/ /\ carries[d] \notin Unpostable
        /\ Records(w, d, "failed")
        /\ Processes(d) \/ UNCHANGED <<processed, applied>>
        /\ UNCHANGED <<accepted, resolves>>
     \/ /\ carries[d] \in Unpostable
        /\ Records(w, d, "raised")
        /\ UNCHANGED <<resolves, merchant>>
  /\ UNCHANGED <<rows, request, operator, replays, aborts>>

\* process_delivery_result, and _move_to_dlq for the last attempt.
\* Mutant: an exception taken for a success.
Exhausted(w, d) == work[w][d] = "failed" /\ attempts[d] + 1 >= MaxAttempts
StatusAfter_RaisedIsFine(w, d) ==
  IF work[w][d] \in {"accepted", "raised"} THEN "delivered"
  ELSE IF Exhausted(w, d) THEN "dead_lettered"
  ELSE status[d]
StatusAfter(w, d) ==
  IF work[w][d] = "accepted" THEN "delivered"
  ELSE IF Exhausted(w, d) THEN "dead_lettered"
  ELSE status[d]

\* The letters of d with those marked that w has found resolved, and a letter
\* more if d is exhausted.  Mutant: no letter is written.
Marked(w, d) ==
  [k \in 1 .. Len(letters[d]) |->
     IF <<d, k>> \in resolves[w] THEN [letters[d][k] EXCEPT !.resolved = TRUE] ELSE letters[d][k]]
LettersAfter_Unwritten(w, d) == Marked(w, d)
LettersAfter(w, d) ==
  IF Exhausted(w, d)
  THEN Append(Marked(w, d), [retry |-> NoDelivery, resolved |-> FALSE])
  ELSE Marked(w, d)

\* The whole batch is committed at once.
Commit(w) ==
  LET posted == {d \in Delivery : work[w][d] \in {"accepted", "failed"}} IN
  /\ BatchOf(w) # {}
  /\ \A d \in Delivery : work[w][d] # "claimed"
  /\ status' = [d \in Delivery |-> StatusAfter(w, d)]
  /\ attempts' = [d \in Delivery |-> IF d \in posted THEN attempts[d] + 1 ELSE attempts[d]]
  /\ letters' = [d \in Delivery |-> LettersAfter(w, d)]
  /\ due' = due \ posted
  /\ earlier' = earlier \cap ((due \ posted) \X (due \ posted))
  /\ later' = later \cup {d \in posted : work[w][d] = "failed" /\ ~ Exhausted(w, d)}
  /\ work' = [work EXCEPT ![w] = [d \in Delivery |-> "none"]]
  /\ resolves' = [resolves EXCEPT ![w] = {}]
  /\ UNCHANGED <<carries, request, merchant, operator, replays, aborts>>

\* A crash, a database error or a shutdown: the transaction is rolled back,
\* but what was posted stays posted.
Abort(w) ==
  /\ BatchOf(w) # {} /\ aborts < MaxAborts
  /\ aborts' = aborts + 1
  /\ work' = [work EXCEPT ![w] = [d \in Delivery |-> "none"]]
  /\ resolves' = [resolves EXCEPT ![w] = {}]
  /\ UNCHANGED <<rows, request, merchant, operator, replays>>

-----------------------------------------------------------------------------
(* Merchants and operators. *)

\* retry_delivery reads the row without a lock and finds it retryable ...
RetryReads(r, d) ==
  /\ request[r] = NoDelivery /\ replays < MaxReplays
  /\ status[d] = "dead_lettered"
  /\ request' = [request EXCEPT ![r] = d]
  /\ replays' = replays + 1
  /\ UNCHANGED <<rows, work, resolves, merchant, operator, aborts>>

\* Mutant: the attempts are not reset.
RetryWrites_KeepsAttempts(r) ==
  LET d == request[r] IN
  /\ d # NoDelivery /\ d \notin Locked
  /\ status' = [status EXCEPT ![d] = "pending"]
  /\ ComesLast(d) /\ later' = later \ {d}
  /\ request' = [request EXCEPT ![r] = NoDelivery]
  /\ UNCHANGED <<attempts, carries, letters, work, resolves, merchant, operator, replays, aborts>>

\* ... and writes it, whatever has become of it, once nobody holds its lock.
RetryWrites(r) ==
  LET d == request[r] IN
  /\ d # NoDelivery /\ d \notin Locked
  /\ status' = [status EXCEPT ![d] = "pending"]
  /\ attempts' = [attempts EXCEPT ![d] = 0]
  /\ ComesLast(d) /\ later' = later \ {d}
  /\ request' = [request EXCEPT ![r] = NoDelivery]
  /\ UNCHANGED <<carries, letters, work, resolves, merchant, operator, replays, aborts>>

\* Mutant: the letter is resolved when it is queued again.
retry_dead_letter_Resolves(c, k, d) ==
  /\ replays < MaxReplays
  /\ k \in DOMAIN letters[c] /\ ~ letters[c][k].resolved
  /\ status[d] = "none"
  /\ NewRow(d, carries[c]) /\ ComesLast(d)
  /\ letters' = [letters EXCEPT ![c][k] = [retry |-> d, resolved |-> TRUE]]
  /\ replays' = replays + 1
  /\ UNCHANGED <<attempts, later, work, resolves, request, merchant, operator, aborts>>

\* retry_dead_letter: the k-th letter of c is queued again as delivery d,
\* with all its attempts.  It stays unresolved until d is delivered.
retry_dead_letter(c, k, d) ==
  /\ replays < MaxReplays
  /\ k \in DOMAIN letters[c] /\ ~ letters[c][k].resolved
  /\ status[d] = "none"
  /\ NewRow(d, carries[c]) /\ ComesLast(d)
  /\ letters' = [letters EXCEPT ![c][k].retry = d]
  /\ replays' = replays + 1
  /\ UNCHANGED <<attempts, later, work, resolves, request, merchant, operator, aborts>>

\* retry_dlq_entry, the operator's: the new row has no next_retry_at, and the
\* letter is resolved at once.
admin_retry(c, k, d) ==
  /\ replays < MaxReplays
  /\ k \in DOMAIN letters[c] /\ ~ letters[c][k].resolved
  /\ status[d] = "none"
  /\ NewRow(d, carries[c])
  /\ letters' = [letters EXCEPT ![c][k].resolved = TRUE]
  /\ operator' = operator \cup {d}
  /\ replays' = replays + 1
  /\ UNCHANGED <<attempts, due, earlier, later, work, resolves, request, merchant, aborts>>

Next ==
  \/ \E e \in Event, d \in Delivery : queue_webhook(e, d)
  \/ \E d \in Delivery : RetryFallsDue(d)
  \/ \E w \in Worker : Claim(w) \/ Commit(w) \/ Abort(w)
  \/ \E w \in Worker, d \in Delivery : Post(w, d)
  \/ \E r \in Request, d \in Delivery : RetryReads(r, d)
  \/ \E r \in Request : RetryWrites(r)
  \/ \E c, d \in Delivery : \E k \in DOMAIN letters[c] :
        retry_dead_letter(c, k, d) \/ admin_retry(c, k, d)

Spec == Init /\ [][Next]_vars

\* Some worker gets the lease and claims what there is, a post comes to an end
\* (its timeout), a cycle and a request are carried through, and time passes.
Fairness ==
  /\ WF_vars(\E w \in Worker : Claim(w))
  /\ \A w \in Worker : WF_vars(Commit(w))
  /\ \A w \in Worker, d \in Delivery : WF_vars(Post(w, d))
  /\ \A r \in Request : WF_vars(RetryWrites(r))
  /\ \A d \in Delivery : WF_vars(RetryFallsDue(d))

FairSpec == Spec /\ Fairness

-----------------------------------------------------------------------------
(* Properties *)

\* What the merchant's log calls delivered has been answered with 2xx, also
\* when transactions fail after the post (process_delivery_result).
DeliveredWasAccepted == \A d \in Delivery : status[d] = "delivered" => d \in accepted

\* A pending delivery has attempts left and a dead-lettered one has none:
\* no commit, lost commit or late retry makes it skip or repeat its attempts.
\* Each retry, of a dead-lettered delivery or of its letter, starts a full
\* series of attempts (retry_delivery, queue_webhook); what the documentation
\* says of them is RetryIsOneAttempt and OnlyFailedIsRetried.
AttemptsTellTheStatus ==
  \A d \in Delivery :
    /\ status[d] = "pending" => attempts[d] < MaxAttempts
    /\ status[d] = "dead_lettered" => attempts[d] = MaxAttempts

\* The rows with a next_retry_at are the pending ones, except those an
\* operator made: nothing settled is posted again, nothing pending forgotten.
PendingIsScheduled ==
  /\ due \cup later = {d \in Delivery : status[d] = "pending"} \ operator
  /\ due \cap later = {}

\* No delivery is in the hands of two workers (FOR UPDATE SKIP LOCKED).
OneWorkerPerDelivery ==
  \A v, w \in Worker : v # w => BatchOf(v) \cap BatchOf(w) = {}

\* A dead letter is resolved only once its event got through in some other
\* delivery (or an operator resolved it).
Siblings(d) == {c \in Delivery : carries[c] = carries[d]}
ResolvedWasDelivered ==
  \A d \in Delivery : \A k \in DOMAIN letters[d] :
    letters[d][k].resolved => Siblings(d) \cap (accepted \cup operator) # {}

\* No event is lost: it was accepted, or some delivery of it is pending, or a
\* dead letter waits for somebody to look at it.
Unresolved(d) == \E k \in DOMAIN letters[d] : ~ letters[d][k].resolved
NothingLost ==
  \A d \in Delivery : status[d] # "none" =>
    \E c \in Siblings(d) : c \in accepted \/ status[c] = "pending" \/ Unresolved(c)

\* Every scheduled delivery is in the end delivered or dead-lettered, also
\* behind deliveries that cannot be posted at all, as long as these do not
\* fill a batch (claim_pending_deliveries takes the oldest first).
EverythingSettles ==
  \A d \in Delivery : d \in due \cup later /\ carries[d] \notin Unpostable ~>
                         status[d] \in {"delivered", "dead_lettered"}

\* Workers, batches, locks, lost transactions and retries that race add up to
\* an orderly queue: the attempts that a row counts come one after the other, it
\* is delivered only when it was answered, dead-lettered with its last attempt
\* and no sooner, and touched again only when somebody has asked for it.
Promise == INSTANCE DeliveryQueue WITH requested <- {request[r] : r \in Request} \ {NoDelivery}
ImplementsQueue == Promise!Spec

(* What the documentation promises and the code does not do *)

\* Does NOT hold.  WEBHOOK_DEBUGGING.md: a merchant who makes the delivery id unique applies
\* an event once, whatever is retried or replayed.
AppliedOnce == \A e \in Event : applied[e] <= 1

\* Does NOT hold.  API.md: the operator's retry of a dead letter queues it for delivery.  A
\* pending delivery is one the worker will find.
PendingIsClaimable == \A d \in Delivery : status[d] = "pending" => d \in due \cup later

\* Does NOT hold.  webhooks.py:188 of retry_dead_letter: "Single attempt, no 7-retry cycle."
\* The delivery that retries a letter is not pending any more once it was
\* attempted.  (queue_webhook gives it MAX_ATTEMPTS like any other.)
RetryIsOneAttempt ==
  \A c \in Delivery : \A k \in DOMAIN letters[c] :
    LET d == letters[c][k].retry
    IN  d # NoDelivery /\ status[d] = "pending" => attempts[d] = 0

\* Does NOT hold.  API.md:678 (and WEBHOOKS.md:435): "Only `status=failed` can be retried."
\* A dead-lettered delivery stays dead-lettered.  (No code sets
\* failed; retry_delivery takes failed or dead_lettered, webhook_service.py:254.)
OnlyFailedIsRetried ==
  [][\A d \in Delivery : status[d] = "dead_lettered" => status'[d] = "dead_lettered"]_vars
=============================================================================
