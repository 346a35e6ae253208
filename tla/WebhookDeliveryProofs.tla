------------------------ MODULE WebhookDeliveryProofs ------------------------
(***************************************************************************)
(* Proofs about WebhookDelivery, for any number of events, delivery rows,  *)
(* workers, requests and attempts.  The invariant comes in two layers: the *)
(* rows and who holds them, and on top of it the dead letters.             *)
(***************************************************************************)
EXTENDS WebhookDelivery, SequenceTheorems, TLAPS

(* The rows. *)

\* A row exists exactly if it carries an event, and starts without attempts
\* and without letters.
RowsTell ==
  \A d \in Delivery : /\ status[d] = "none" <=> carries[d] = NoEvent
                      /\ status[d] = "none" => attempts[d] = 0 /\ letters[d] = << >>

\* What a worker holds is due, and it knows what it was answered.
HeldRowsAreDue ==
  \A w \in Worker, d \in Delivery :
    /\ work[w][d] # "none" => d \in due
    /\ work[w][d] = "accepted" => d \in accepted

\* A row an operator made is pending for ever: no worker or request has it.
OperatorRowsRest ==
  /\ \A d \in operator : status[d] = "pending"
  /\ \A r \in Request : request[r] # NoDelivery =>
       request[r] \notin operator /\ status[request[r]] # "none"

RowInv == /\ TypeOK /\ RowsTell /\ HeldRowsAreDue /\ OperatorRowsRest
          /\ PendingIsScheduled /\ OneWorkerPerDelivery
          /\ AttemptsTellTheStatus /\ DeliveredWasAccepted

USE EventAssumption, DeliveryAssumption, BoundAssumption

\* No rows, no work: the invariant of the rows holds at the start.
LEMMA RowInit == Init => RowInv
BY DEF Init, RowInv, TypeOK, RowsTell, HeldRowsAreDue, OperatorRowsRest,
   PendingIsScheduled, OneWorkerPerDelivery, AttemptsTellTheStatus,
   DeliveredWasAccepted, BatchOf, Outcome, Letter

\* A function on 1 .. n is a sequence.
LEMMA FunctionIsSeq ==
  ASSUME NEW S, NEW n \in Nat, NEW f \in [1 .. n -> S]
  PROVE  f \in Seq(S) /\ Len(f) = n
<1>1. [k \in 1 .. n |-> f[k]] \in Seq(S) /\ Len([k \in 1 .. n |-> f[k]]) = n
  OBVIOUS
<1>2. f = [k \in 1 .. n |-> f[k]]
  OBVIOUS
<1> QED BY ONLY <1>1, <1>2

\* Marking letters and appending one yields letters again, at least as many,
\* and leaves who retries them alone.
LEMMA LettersAfterType ==
  ASSUME TypeOK, NEW w \in Worker, NEW d \in Delivery
  PROVE  /\ LettersAfter(w, d) \in Seq(Letter)
         /\ Len(Marked(w, d)) = Len(letters[d])
         /\ Marked(w, d) \in Seq(Letter)
<1>1. letters[d] \in Seq(Letter) /\ Len(letters[d]) \in Nat
  BY DEF TypeOK
<1>2. ASSUME NEW k \in 1 .. Len(letters[d])
      PROVE  (IF <<d, k>> \in resolves[w] THEN [letters[d][k] EXCEPT !.resolved = TRUE]
              ELSE letters[d][k]) \in Letter
  <2>1. letters[d][k] \in Letter
    BY <1>1
  <2> QED BY <2>1 DEF Letter
<1>3. Marked(w, d) \in [1 .. Len(letters[d]) -> Letter]
  BY <1>2 DEF Marked
<1>4. Marked(w, d) \in Seq(Letter) /\ Len(Marked(w, d)) = Len(letters[d])
  BY <1>1, <1>3, FunctionIsSeq
<1>5. [retry |-> NoDelivery, resolved |-> FALSE] \in Letter
  BY DEF Letter
<1> QED BY <1>4, <1>5 DEF LettersAfter

-----------------------------------------------------------------------------
(* Each action preserves the invariant of the rows. *)

\* Putting a row last keeps the order an order of the due rows.
LEMMA ComesLastType ==
  ASSUME TypeOK, NEW d \in Delivery, ComesLast(d)
  PROVE  due' \subseteq Delivery /\ earlier' \subseteq due' \X due' /\ due' = due \cup {d}
BY DEF TypeOK, ComesLast

\* A row that did not exist becomes pending and due.
LEMMA NewRowKeepsRowInv ==
  ASSUME RowInv, NEW d \in Delivery, NEW e \in Event, status[d] = "none", NewRow(d, e),
         ComesLast(d), UNCHANGED <<attempts, later, work, request, merchant, operator>>,
         letters' \in [Delivery -> Seq(Letter)],
         \A c \in Delivery : letters[c] = << >> => letters'[c] = << >>,
         resolves' = resolves, replays' \in 0 .. MaxReplays, aborts' = aborts
  PROVE  RowInv'
<1> USE DEF RowInv
<1>1. TypeOK'
  BY ComesLastType DEF TypeOK, NewRow, merchant
<1>2. RowsTell'
  BY DEF TypeOK, RowsTell, NewRow
<1>3. HeldRowsAreDue'
  BY DEF HeldRowsAreDue, ComesLast, merchant
<1>4. OperatorRowsRest'
  BY DEF TypeOK, OperatorRowsRest, NewRow
<1>5. PendingIsScheduled'
  BY DEF TypeOK, PendingIsScheduled, OperatorRowsRest, NewRow, ComesLast
<1>6. OneWorkerPerDelivery'
  BY DEF OneWorkerPerDelivery, BatchOf
<1>7. AttemptsTellTheStatus' /\ DeliveredWasAccepted'
  BY DEF TypeOK, RowsTell, AttemptsTellTheStatus, DeliveredWasAccepted, NewRow, merchant
<1> QED BY <1>1, <1>2, <1>3, <1>4, <1>5, <1>6, <1>7

\* queue_webhook adds such a row.
LEMMA QueueRows ==
  ASSUME RowInv, NEW e \in Event, NEW d \in Delivery, queue_webhook(e, d)
  PROVE  RowInv'
BY NewRowKeepsRowInv DEF queue_webhook, RowInv, TypeOK, rows

\* So does the retry of a dead letter, which changes that letter as well.
LEMMA RetryDeadLetterRows ==
  ASSUME RowInv, NEW c \in Delivery, NEW d \in Delivery, NEW k \in DOMAIN letters[c],
         retry_dead_letter(c, k, d)
  PROVE  RowInv'
<1>1. letters[c] \in Seq(Letter) /\ k \in 1 .. Len(letters[c])
  BY DEF RowInv, TypeOK
<1>2. letters[c][k] \in Letter /\ letters[c] # << >>
  BY <1>1
<1>3. [letters[c][k] EXCEPT !.retry = d] \in Letter
  BY <1>2 DEF Letter
<1>4. letters' = [letters EXCEPT ![c] = [letters[c] EXCEPT ![k] = [letters[c][k] EXCEPT !.retry = d]]]
  BY DEF retry_dead_letter
<1>5. [letters[c] EXCEPT ![k] = [letters[c][k] EXCEPT !.retry = d]] \in Seq(Letter)
  BY <1>1, <1>3, ExceptSeq
<1>6. letters' \in [Delivery -> Seq(Letter)]
  BY <1>4, <1>5 DEF RowInv, TypeOK
<1>7. \A b \in Delivery : letters[b] = << >> => letters'[b] = << >>
  BY <1>2, <1>4 DEF RowInv, TypeOK
<1>8. carries[c] \in Event /\ replays' \in 0 .. MaxReplays
  BY <1>2 DEF RowInv, TypeOK, RowsTell, retry_dead_letter
<1> QED
  BY <1>6, <1>7, <1>8, NewRowKeepsRowInv DEF retry_dead_letter, RowInv, TypeOK

\* The row an operator adds is not scheduled, and is the exception made for it.
LEMMA AdminRetryRows ==
  ASSUME RowInv, NEW c \in Delivery, NEW d \in Delivery, NEW k \in DOMAIN letters[c],
         admin_retry(c, k, d)
  PROVE  RowInv'
<1> USE DEF RowInv
<1>1. letters[c] \in Seq(Letter) /\ k \in 1 .. Len(letters[c])
  BY DEF TypeOK
<1>2. letters[c][k] \in Letter /\ letters[c] # << >>
  BY <1>1
<1>3. [letters[c][k] EXCEPT !.resolved = TRUE] \in Letter
  BY <1>2 DEF Letter
<1>4. letters' = [letters EXCEPT ![c] = [letters[c] EXCEPT ![k] = [letters[c][k] EXCEPT !.resolved = TRUE]]]
  BY DEF admin_retry
<1>5. [letters[c] EXCEPT ![k] = [letters[c][k] EXCEPT !.resolved = TRUE]] \in Seq(Letter)
  BY <1>1, <1>3, ExceptSeq
<1>6. letters' \in [Delivery -> Seq(Letter)]
  BY <1>4, <1>5 DEF TypeOK
<1>7. \A b \in Delivery : letters[b] = << >> => letters'[b] = << >>
  BY <1>2, <1>4 DEF TypeOK
<1>8. carries[c] \in Event
  BY <1>2 DEF TypeOK, RowsTell
<1>9. TypeOK'
  <2>1. /\ status' \in [Delivery -> {"none", "pending", "delivered", "dead_lettered"}]
        /\ carries' \in [Delivery -> Event \cup {NoEvent}]
    BY <1>8 DEF TypeOK, admin_retry, NewRow
  <2>2. operator' \subseteq Delivery /\ replays' \in 0 .. MaxReplays
    BY DEF TypeOK, admin_retry
  <2>3. UNCHANGED <<attempts, due, earlier, later, work, resolves, request, processed, accepted,
                    applied, aborts>>
    BY DEF admin_retry, merchant
  <2> QED
    BY <1>6, <2>1, <2>2, <2>3 DEF TypeOK
<1>10. RowsTell'
  BY <1>7, <1>8 DEF TypeOK, RowsTell, admin_retry, NewRow
<1>11. HeldRowsAreDue'
  BY DEF HeldRowsAreDue, admin_retry, merchant
<1>12. OperatorRowsRest'
  BY DEF TypeOK, OperatorRowsRest, admin_retry, NewRow
<1>13. PendingIsScheduled'
  BY DEF TypeOK, PendingIsScheduled, admin_retry, NewRow
<1>14. OneWorkerPerDelivery'
  BY DEF OneWorkerPerDelivery, BatchOf, admin_retry
<1>15. AttemptsTellTheStatus' /\ DeliveredWasAccepted'
  BY DEF TypeOK, RowsTell, AttemptsTellTheStatus, DeliveredWasAccepted, admin_retry, NewRow, merchant
<1> QED BY <1>9, <1>10, <1>11, <1>12, <1>13, <1>14, <1>15

\* A row moves from the later rows to the due ones.
LEMMA FallsDueRows ==
  ASSUME RowInv, NEW d \in Delivery, RetryFallsDue(d)
  PROVE  RowInv'
<1> USE DEF RowInv, RetryFallsDue
<1>1. TypeOK'
  BY ComesLastType DEF TypeOK, merchant
<1>2. RowsTell' /\ OneWorkerPerDelivery' /\ AttemptsTellTheStatus' /\ DeliveredWasAccepted'
  BY DEF RowsTell, OneWorkerPerDelivery, BatchOf, AttemptsTellTheStatus, DeliveredWasAccepted, merchant
<1>3. HeldRowsAreDue'
  BY DEF HeldRowsAreDue, ComesLast, merchant
<1>4. OperatorRowsRest'
  BY DEF OperatorRowsRest
<1>5. PendingIsScheduled'
  BY DEF PendingIsScheduled, ComesLast
<1> QED BY <1>1, <1>2, <1>3, <1>4, <1>5

\* A claim takes due rows that nobody holds.
LEMMA ClaimRows ==
  ASSUME RowInv, NEW w \in Worker, Claim(w)
  PROVE  RowInv'
<1> USE DEF RowInv, Claim
<1>1. TypeOK'
  BY DEF TypeOK, rows, merchant, Outcome
<1>2. \A d \in Batch : d \in due /\ d \notin Locked
  BY DEF Batch, Claimable
<1>3. HeldRowsAreDue'
  BY <1>2 DEF TypeOK, HeldRowsAreDue, rows, merchant
<1>4. OneWorkerPerDelivery'
  BY <1>2 DEF TypeOK, OneWorkerPerDelivery, BatchOf, Locked
<1>5. RowsTell' /\ OperatorRowsRest' /\ PendingIsScheduled'
      /\ AttemptsTellTheStatus' /\ DeliveredWasAccepted'
  BY DEF RowsTell, OperatorRowsRest, PendingIsScheduled, AttemptsTellTheStatus,
         DeliveredWasAccepted, rows, merchant
<1> QED BY <1>1, <1>3, <1>4, <1>5

\* A post moves one held row on, and an accepted one is accepted.
LEMMA PostRows ==
  ASSUME RowInv, NEW w \in Worker, NEW d \in Delivery, Post(w, d)
  PROVE  RowInv'
<1> USE DEF RowInv
<1>1. carries[d] \in Event
  BY DEF Post, TypeOK, HeldRowsAreDue, PendingIsScheduled, RowsTell
<1>2. LettersRetriedBy(d) \subseteq Delivery \X Nat
  BY DEF LettersRetriedBy, TypeOK
<1>3. resolves' \in [Worker -> SUBSET (Delivery \X Nat)]
  BY <1>2 DEF Post, TypeOK, merchant
<1> PICK outcome \in Outcome : /\ work' = [work EXCEPT ![w][d] = outcome]
                               /\ outcome = "accepted" => d \in accepted'
  BY DEF Post, Records, Outcome
<1>4. /\ work' \in [Worker -> [Delivery -> Outcome \cup {"none"}]]
      /\ \A v \in Worker, c \in Delivery :
           work'[v][c] = IF v = w /\ c = d THEN outcome ELSE work[v][c]
  BY DEF TypeOK
<1>5. /\ processed' \subseteq Delivery /\ accepted' \subseteq processed'
      /\ accepted \subseteq accepted'
  BY DEF Post, TypeOK, Processes, merchant
<1>6. applied' \in [Event -> 0 .. 2]
  <2>1. Processes(d) => applied' \in [Event -> 0 .. 2]
    BY <1>1 DEF Processes, TypeOK
  <2> QED BY <2>1 DEF Post, TypeOK, merchant
<1>7. TypeOK'
  BY <1>3, <1>4, <1>5, <1>6 DEF TypeOK, Post, rows
<1>8. HeldRowsAreDue'
  BY <1>4, <1>5 DEF HeldRowsAreDue, Post, rows
<1>9. OneWorkerPerDelivery'
  BY <1>4 DEF OneWorkerPerDelivery, BatchOf, Post
<1>10. RowsTell' /\ OperatorRowsRest' /\ PendingIsScheduled' /\ AttemptsTellTheStatus'
  BY DEF RowsTell, OperatorRowsRest, PendingIsScheduled, AttemptsTellTheStatus, Post, rows
<1>11. DeliveredWasAccepted'
  BY <1>5 DEF DeliveredWasAccepted, Post, rows
<1> QED BY <1>7, <1>8, <1>9, <1>10, <1>11

\* A rollback lets go of rows that are due and pending still.
LEMMA AbortRows ==
  ASSUME RowInv, NEW w \in Worker, Abort(w)
  PROVE  RowInv'
<1> USE DEF RowInv, Abort
<1>1. TypeOK'
  BY DEF TypeOK, rows, merchant
<1>2. HeldRowsAreDue' /\ OneWorkerPerDelivery'
  BY DEF TypeOK, HeldRowsAreDue, OneWorkerPerDelivery, BatchOf, rows, merchant
<1>3. RowsTell' /\ OperatorRowsRest' /\ PendingIsScheduled'
      /\ AttemptsTellTheStatus' /\ DeliveredWasAccepted'
  BY DEF RowsTell, OperatorRowsRest, PendingIsScheduled, AttemptsTellTheStatus,
         DeliveredWasAccepted, rows, merchant
<1> QED BY <1>1, <1>2, <1>3

\* A retry request has seen a row that exists.
LEMMA RetryReadsRows ==
  ASSUME RowInv, NEW r \in Request, NEW d \in Delivery, RetryReads(r, d)
  PROVE  RowInv'
<1> USE DEF RowInv, RetryReads
<1>1. TypeOK'
  BY DEF TypeOK, rows, merchant
<1>2. OperatorRowsRest'
  BY DEF TypeOK, OperatorRowsRest, rows
<1>3. HeldRowsAreDue' /\ OneWorkerPerDelivery' /\ RowsTell' /\ PendingIsScheduled'
      /\ AttemptsTellTheStatus' /\ DeliveredWasAccepted'
  BY DEF HeldRowsAreDue, OneWorkerPerDelivery, BatchOf, RowsTell, PendingIsScheduled,
         AttemptsTellTheStatus, DeliveredWasAccepted, rows, merchant
<1> QED BY <1>1, <1>2, <1>3

\* A retry makes a row that nobody holds pending and due.
LEMMA RetryWritesRows ==
  ASSUME RowInv, NEW r \in Request, RetryWrites(r)
  PROVE  RowInv'
<1> DEFINE d == request[r]
<1> USE DEF RowInv, RetryWrites
<1>1. d \in Delivery /\ d \notin operator /\ status[d] # "none"
  BY DEF TypeOK, OperatorRowsRest
<1>2. TypeOK'
  BY <1>1, ComesLastType DEF TypeOK, merchant
<1>3. RowsTell'
  BY <1>1 DEF TypeOK, RowsTell
<1>4. HeldRowsAreDue'
  BY <1>1 DEF HeldRowsAreDue, ComesLast, merchant
<1>5. OperatorRowsRest'
  BY <1>1 DEF TypeOK, OperatorRowsRest
<1>6. PendingIsScheduled'
  BY <1>1 DEF TypeOK, PendingIsScheduled, ComesLast
<1>7. OneWorkerPerDelivery' /\ AttemptsTellTheStatus' /\ DeliveredWasAccepted'
  BY <1>1 DEF TypeOK, OneWorkerPerDelivery, BatchOf, AttemptsTellTheStatus, DeliveredWasAccepted, merchant
<1> QED BY <1>2, <1>3, <1>4, <1>5, <1>6, <1>7

\* A commit writes the rows the worker holds, and no other.
LEMMA CommitRows ==
  ASSUME RowInv, NEW w \in Worker, Commit(w)
  PROVE  RowInv'
<1> DEFINE posted == {d \in Delivery : work[w][d] \in {"accepted", "failed"}}
<1> USE DEF RowInv
<1>1. \A d \in posted : d \in due /\ status[d] = "pending" /\ d \notin operator /\ attempts[d] < MaxAttempts
  BY DEF TypeOK, HeldRowsAreDue, PendingIsScheduled, AttemptsTellTheStatus
<1>2. letters' \in [Delivery -> Seq(Letter)]
  BY LettersAfterType DEF Commit
<1>3. \A d \in Delivery : status'[d] = IF work[w][d] = "accepted" THEN "delivered"
                                       ELSE IF Exhausted(w, d) THEN "dead_lettered" ELSE status[d]
  BY DEF Commit, StatusAfter
<1>4. \A d \in Delivery : Exhausted(w, d) <=> work[w][d] = "failed" /\ attempts[d] + 1 >= MaxAttempts
  BY DEF Exhausted
<1>5. TypeOK'
  <2>1. status' \in [Delivery -> {"none", "pending", "delivered", "dead_lettered"}]
    BY <1>3 DEF Commit, TypeOK
  <2>2. attempts' \in [Delivery -> 0 .. MaxAttempts]
    BY <1>1 DEF Commit, TypeOK
  <2> QED BY <1>2, <2>1, <2>2 DEF Commit, TypeOK, merchant
<1>6. RowsTell'
  <2>1. \A d \in Delivery : status'[d] = "none" <=> status[d] = "none"
    BY <1>1, <1>3, <1>4
  <2>2. \A d \in Delivery : status[d] = "none" => attempts'[d] = 0
    BY <1>1 DEF Commit, RowsTell
  <2>3. ASSUME NEW d \in Delivery, status[d] = "none" PROVE letters'[d] = << >>
    <3>1. letters[d] = << >> /\ ~ Exhausted(w, d)
      BY <1>1, <1>4, <2>3 DEF RowsTell
    <3>2. Marked(w, d) \in Seq(Letter) /\ Len(Marked(w, d)) = 0
      BY <3>1, LettersAfterType
    <3> QED BY <3>1, <3>2 DEF Commit, LettersAfter
  <2> QED BY <2>1, <2>2, <2>3 DEF Commit, RowsTell
<1>7. HeldRowsAreDue' /\ OneWorkerPerDelivery'
  BY DEF Commit, TypeOK, HeldRowsAreDue, OneWorkerPerDelivery, BatchOf, merchant
<1>8. OperatorRowsRest'
  <2>1. \A d \in Delivery : status'[d] = "none" => status[d] = "none"
    BY <1>3
  <2>2. \A d \in operator : status'[d] = "pending"
    BY <1>1, <1>3, <1>4 DEF TypeOK, OperatorRowsRest
  <2> QED BY <2>1, <2>2 DEF Commit, TypeOK, OperatorRowsRest
<1>9. PendingIsScheduled'
  BY <1>1, <1>3, <1>4 DEF Commit, TypeOK, PendingIsScheduled
<1>10. AttemptsTellTheStatus'
  BY <1>1, <1>3, <1>4 DEF Commit, TypeOK, AttemptsTellTheStatus
<1>11. DeliveredWasAccepted'
  BY <1>3, <1>4 DEF Commit, DeliveredWasAccepted, HeldRowsAreDue, merchant
<1> QED BY <1>5, <1>6, <1>7, <1>8, <1>9, <1>10, <1>11

\* The invariant of the rows is inductive.
LEMMA RowsStep == RowInv /\ [Next]_vars => RowInv'
<1> SUFFICES ASSUME RowInv, [Next]_vars PROVE RowInv'
  OBVIOUS
<1>1. CASE UNCHANGED vars
  BY <1>1 DEF vars, rows, merchant, RowInv, TypeOK, RowsTell, HeldRowsAreDue, OperatorRowsRest,
     PendingIsScheduled, OneWorkerPerDelivery, BatchOf, AttemptsTellTheStatus, DeliveredWasAccepted
<1>2. CASE Next
  BY <1>2, QueueRows, FallsDueRows, ClaimRows, CommitRows, AbortRows, PostRows,
     RetryReadsRows, RetryWritesRows, RetryDeadLetterRows, AdminRetryRows DEF Next
<1> QED BY <1>1, <1>2

-----------------------------------------------------------------------------
(* The dead letters. *)

\* A letter is retried by a row for the same event.
RetriesCarryTheEvent ==
  \A d \in Delivery : \A k \in 1 .. Len(letters[d]) :
    letters[d][k].retry # NoDelivery => carries[letters[d][k].retry] = carries[d]

\* What a worker is about to resolve is the letter of an accepted event.
ResolvesAreJustified ==
  \A w \in Worker, d \in Delivery, k \in Nat : <<d, k>> \in resolves[w] =>
    status[d] # "none" /\ Siblings(d) \cap accepted # {}

LetterInv == /\ RetriesCarryTheEvent /\ ResolvesAreJustified
             /\ ResolvedWasDelivered /\ NothingLost

\* No row, and nothing the merchant or an operator did, is ever taken back.
RowsGrow ==
  /\ \A d \in Delivery : status[d] # "none" => status'[d] # "none" /\ carries'[d] = carries[d]
  /\ accepted \subseteq accepted' /\ operator \subseteq operator'

\* What can become of a letter that is there ...
LettersStay ==
  \A d \in Delivery : \A k \in 1 .. Len(letters[d]) :
    /\ k \in 1 .. Len(letters'[d])
    /\ letters'[d][k].resolved =>
         \/ letters[d][k].resolved
         \/ \E w \in Worker : <<d, k>> \in resolves[w]
         \/ \E n \in operator' : status'[n] = "pending" /\ carries'[n] = carries[d]
    /\ \/ letters'[d][k].retry = letters[d][k].retry
       \/ carries'[letters'[d][k].retry] = carries[d]

\* ... and what a letter is that is new.
LettersCome ==
  \A d \in Delivery : \A k \in 1 .. Len(letters'[d]) :
    \/ k \in 1 .. Len(letters[d])
    \/ letters'[d][k] = [retry |-> NoDelivery, resolved |-> FALSE]

\* No step forgets an accepted delivery, an event of a row or a letter.
LEMMA RowsGrowStep ==
  ASSUME RowInv, [Next]_vars
  PROVE  RowsGrow
<1>1. CASE UNCHANGED vars
  BY <1>1 DEF RowsGrow, vars, rows, merchant
<1>2. ASSUME NEW w \in Worker, Claim(w) \/ Abort(w)
      PROVE  RowsGrow
  BY <1>2 DEF RowsGrow, Claim, Abort, rows, merchant
<1>3. ASSUME NEW w \in Worker, Commit(w)
      PROVE  RowsGrow
  BY <1>3 DEF RowsGrow, Commit, StatusAfter, merchant
<1>4. ASSUME NEW w \in Worker, NEW d \in Delivery, Post(w, d)
      PROVE  RowsGrow
  BY <1>4 DEF RowsGrow, Post, rows, merchant
<1>5. ASSUME NEW d \in Delivery, NEW e, NewRow(d, e), status[d] = "none",
             operator' \in {operator, operator \cup {d}}, accepted' = accepted
      PROVE  RowsGrow
  BY <1>5 DEF RowsGrow, NewRow, RowInv, TypeOK
<1>6. ASSUME NEW r \in Request, RetryWrites(r)
      PROVE  RowsGrow
  BY <1>6 DEF RowsGrow, RetryWrites, RowInv, TypeOK, merchant
<1>7. ASSUME NEW r \in Request, NEW d \in Delivery, RetryReads(r, d)
      PROVE  RowsGrow
  BY <1>7 DEF RowsGrow, RetryReads, rows, merchant
<1>8. ASSUME NEW d \in Delivery, RetryFallsDue(d)
      PROVE  RowsGrow
  BY <1>8 DEF RowsGrow, RetryFallsDue, merchant
<1>9. ASSUME NEW e \in Event, NEW d \in Delivery, queue_webhook(e, d)
      PROVE  RowsGrow
  BY <1>5, <1>9 DEF queue_webhook, merchant
<1>10. ASSUME NEW c \in Delivery, NEW d \in Delivery, NEW k,
              retry_dead_letter(c, k, d) \/ admin_retry(c, k, d)
       PROVE  RowsGrow
  BY <1>5, <1>10 DEF retry_dead_letter, admin_retry, merchant
<1> QED BY <1>1, <1>2, <1>3, <1>4, <1>6, <1>7, <1>8, <1>9, <1>10 DEF Next

\* The rows that carry the event of an existing row keep doing so.
LEMMA SiblingsStay ==
  ASSUME RowInv, RowsGrow, NEW d \in Delivery, status[d] # "none"
  PROVE  /\ carries'[d] = carries[d] /\ Siblings(d) \subseteq Siblings(d)'
         /\ \A c \in Siblings(d) : status[c] # "none"
         /\ \A c \in Delivery : carries'[c] = carries[d] => c \in Siblings(d)'
BY DEF RowInv, RowsTell, RowsGrow, Siblings

\* A commit keeps the letters in order and resolves those of retries delivered.
LEMMA LettersStepCommit ==
  ASSUME RowInv, NEW w \in Worker, Commit(w)
  PROVE  LettersStay /\ LettersCome
<1> SUFFICES ASSUME NEW d \in Delivery
             PROVE  /\ \A k \in 1 .. Len(letters[d]) :
                         /\ k \in 1 .. Len(letters'[d])
                         /\ letters'[d][k].resolved => letters[d][k].resolved \/ <<d, k>> \in resolves[w]
                         /\ letters'[d][k].retry = letters[d][k].retry
                    /\ \A k \in 1 .. Len(letters'[d]) :
                         \/ k \in 1 .. Len(letters[d])
                         \/ letters'[d][k] = [retry |-> NoDelivery, resolved |-> FALSE]
  BY DEF LettersStay, LettersCome
<1>1. letters[d] \in Seq(Letter) /\ Len(letters[d]) \in Nat
  BY DEF RowInv, TypeOK
<1>2. Marked(w, d) \in Seq(Letter) /\ Len(Marked(w, d)) = Len(letters[d])
  BY LettersAfterType DEF RowInv
<1>3. ASSUME NEW k \in 1 .. Len(letters[d])
      PROVE  /\ Marked(w, d)[k].retry = letters[d][k].retry
             /\ Marked(w, d)[k].resolved => letters[d][k].resolved \/ <<d, k>> \in resolves[w]
  <2>1. letters[d][k] \in Letter
    BY <1>1
  <2>2. Marked(w, d)[k] = IF <<d, k>> \in resolves[w]
                          THEN [letters[d][k] EXCEPT !.resolved = TRUE] ELSE letters[d][k]
    BY DEF Marked
  <2> QED BY <2>1, <2>2 DEF Letter
<1>4. letters'[d] = IF Exhausted(w, d)
                    THEN Append(Marked(w, d), [retry |-> NoDelivery, resolved |-> FALSE])
                    ELSE Marked(w, d)
  BY DEF Commit, LettersAfter
<1>5. [retry |-> NoDelivery, resolved |-> FALSE] \in Letter
  BY DEF Letter
<1> HIDE DEF Marked
<1>6. CASE Exhausted(w, d)
  <2>1. /\ Len(letters'[d]) = Len(letters[d]) + 1
        /\ \A k \in 1 .. Len(letters[d]) : letters'[d][k] = Marked(w, d)[k]
        /\ letters'[d][Len(letters[d]) + 1] = [retry |-> NoDelivery, resolved |-> FALSE]
    BY <1>2, <1>4, <1>5, <1>6
  <2>2. 1 .. Len(letters'[d]) = 1 .. Len(letters[d]) \cup {Len(letters[d]) + 1}
    BY <1>1, <2>1
  <2>3. ASSUME NEW k \in 1 .. Len(letters[d])
        PROVE  /\ k \in 1 .. Len(letters'[d])
               /\ letters'[d][k].resolved => letters[d][k].resolved \/ <<d, k>> \in resolves[w]
               /\ letters'[d][k].retry = letters[d][k].retry
    BY <1>3, <2>1, <2>2
  <2> QED BY <2>1, <2>2, <2>3
<1>7. CASE ~ Exhausted(w, d)
  BY <1>1, <1>2, <1>3, <1>4, <1>7
<1> QED BY <1>6, <1>7

\* A retry of the k-th letter of c changes that letter only.
LEMMA LettersStepRetry ==
  ASSUME RowInv, NEW c \in Delivery, NEW d \in Delivery, NEW k \in DOMAIN letters[c],
         retry_dead_letter(c, k, d) \/ admin_retry(c, k, d)
  PROVE  LettersStay /\ LettersCome
<1>1. /\ letters[c] \in Seq(Letter) /\ k \in 1 .. Len(letters[c])
      /\ \A b \in Delivery : letters[b] \in Seq(Letter) /\ Len(letters[b]) \in Nat
  BY DEF RowInv, TypeOK
<1>2. letters[c][k] \in Letter
  BY <1>1
<1>3. carries'[d] = carries[c] /\ carries'[c] = carries[c] /\ status'[d] = "pending"
  <2>1. status[c] # "none" /\ status[d] = "none"
    BY <1>1 DEF RowInv, RowsTell, retry_dead_letter, admin_retry
  <2> QED BY <2>1 DEF NewRow, RowInv, TypeOK, retry_dead_letter, admin_retry
<1>4. \E l \in Letter :
        /\ letters' = [letters EXCEPT ![c] = [letters[c] EXCEPT ![k] = l]]
        /\ l.resolved => letters[c][k].resolved \/ d \in operator'
        /\ l.retry = letters[c][k].retry \/ carries'[l.retry] = carries[c]
  <2>1. CASE retry_dead_letter(c, k, d)
    <3>1. [letters[c][k] EXCEPT !.retry = d] \in Letter
      BY <1>2 DEF Letter
    <3> USE <3>1
    <3> WITNESS [letters[c][k] EXCEPT !.retry = d] \in Letter
    <3> QED BY <1>2, <1>3, <2>1 DEF retry_dead_letter, Letter
  <2>2. CASE admin_retry(c, k, d)
    <3>1. [letters[c][k] EXCEPT !.resolved = TRUE] \in Letter
      BY <1>2 DEF Letter
    <3> USE <3>1
    <3> WITNESS [letters[c][k] EXCEPT !.resolved = TRUE] \in Letter
    <3> QED BY <1>2, <2>2 DEF admin_retry, Letter
  <2> QED BY <2>1, <2>2
<1> PICK l \in Letter :
      /\ letters' = [letters EXCEPT ![c] = [letters[c] EXCEPT ![k] = l]]
      /\ l.resolved => letters[c][k].resolved \/ d \in operator'
      /\ l.retry = letters[c][k].retry \/ carries'[l.retry] = carries[c]
  BY <1>4
<1>5. \A b \in Delivery : letters'[b] = IF b = c THEN [letters[c] EXCEPT ![k] = l] ELSE letters[b]
  BY DEF RowInv, TypeOK
<1>6. Len([letters[c] EXCEPT ![k] = l]) = Len(letters[c])
  BY <1>1, ExceptSeq
<1>7. \A m \in 1 .. Len(letters[c]) :
        [letters[c] EXCEPT ![k] = l][m] = IF m = k THEN l ELSE letters[c][m]
  BY <1>1
<1>8. \A b \in Delivery : Len(letters'[b]) = Len(letters[b])
  BY <1>5, <1>6
<1>9. \A b \in Delivery : \A m \in 1 .. Len(letters[b]) :
        letters'[b][m] = IF b = c /\ m = k THEN l ELSE letters[b][m]
  BY <1>5, <1>7
<1>10. LettersCome
  BY <1>8 DEF LettersCome
<1>11. ASSUME NEW b \in Delivery, NEW m \in 1 .. Len(letters[b])
       PROVE  /\ m \in 1 .. Len(letters'[b])
              /\ letters'[b][m].resolved =>
                   letters[b][m].resolved \/ (b = c /\ d \in operator')
              /\ \/ letters'[b][m].retry = letters[b][m].retry
                 \/ carries'[letters'[b][m].retry] = carries[b]
  <2>1. CASE b = c /\ m = k
    BY <1>8, <1>9, <2>1
  <2>2. CASE ~ (b = c /\ m = k)
    BY <1>8, <1>9, <2>2
  <2> QED BY <2>1, <2>2
<1> QED BY <1>3, <1>10, <1>11 DEF LettersStay

\* The letters stay what they are in every other step.
LEMMA LettersStep ==
  ASSUME RowInv, [Next]_vars
  PROVE  LettersStay /\ LettersCome
<1>1. CASE letters' = letters
  BY <1>1 DEF LettersStay, LettersCome
<1> QED
  BY <1>1, LettersStepCommit, LettersStepRetry
     DEF Next, vars, rows, queue_webhook, RetryFallsDue, Claim, Abort, Post, RetryReads, RetryWrites

\* A row begins as pending, and a pending row that a step makes something else
\* is delivered or has got a dead letter.
LEMMA PendingRowsSettle ==
  ASSUME RowInv, [Next]_vars, NEW d \in Delivery
  PROVE  /\ status[d] = "none" => status'[d] \in {"none", "pending"}
         /\ status[d] = "pending" =>
              status'[d] = "pending" \/ d \in accepted' \/ Unresolved(d)'
<1>1. CASE status' = status
  BY <1>1 DEF RowInv, TypeOK
<1>2. ASSUME NEW c \in Delivery, status' = [status EXCEPT ![c] = "pending"]
      PROVE  status'[d] \in {status[d], "pending"}
  BY <1>2 DEF RowInv, TypeOK
<1>3. ASSUME NEW w \in Worker, Commit(w)
      PROVE  /\ status[d] = "none" => status'[d] \in {"none", "pending"}
             /\ status[d] = "pending" =>
                  status'[d] = "pending" \/ d \in accepted' \/ Unresolved(d)'
  <2>1. status'[d] = StatusAfter(w, d) /\ letters'[d] = LettersAfter(w, d) /\ accepted' = accepted
    BY <1>3 DEF Commit, merchant
  <2>2. status[d] = "none" => work[w][d] = "none"
    BY DEF RowInv, TypeOK, HeldRowsAreDue, PendingIsScheduled
  <2>3. CASE Exhausted(w, d)
    <3>1. Marked(w, d) \in Seq(Letter) /\ Len(Marked(w, d)) \in Nat
      BY LettersAfterType DEF RowInv
    <3>2. [retry |-> NoDelivery, resolved |-> FALSE] \in Letter
      BY DEF Letter
    <3>3. /\ Len(letters'[d]) = Len(Marked(w, d)) + 1
          /\ letters'[d] \in Seq(Letter)
          /\ letters'[d][Len(Marked(w, d)) + 1] = [retry |-> NoDelivery, resolved |-> FALSE]
      BY <2>1, <2>3, <3>1, <3>2 DEF LettersAfter
    <3>4. Len(Marked(w, d)) + 1 \in DOMAIN letters'[d]
      BY <3>1, <3>3
    <3>5. Unresolved(d)'
      BY <3>3, <3>4 DEF Unresolved
    <3> QED BY <2>2, <2>3, <3>5 DEF Exhausted
  <2>4. CASE ~ Exhausted(w, d)
    BY <2>1, <2>2, <2>4 DEF StatusAfter, RowInv, HeldRowsAreDue
  <2> QED BY <2>3, <2>4
<1> QED
  BY <1>1, <1>2, <1>3 DEF Next, vars, rows, NewRow, queue_webhook, RetryFallsDue, Claim, Abort,
     Post, RetryReads, RetryWrites, retry_dead_letter, admin_retry, RowInv, TypeOK

\* What a worker marks as resolved it has marked before, or it has just
\* delivered the retry.
LEMMA ResolvesStep ==
  ASSUME RowInv, [Next]_vars, NEW w \in Worker, NEW c \in Delivery, NEW k \in Nat,
         <<c, k>> \in resolves'[w]
  PROVE  \/ <<c, k>> \in resolves[w]
         \/ k \in 1 .. Len(letters[c]) /\ letters[c][k].retry \in accepted'
<1>1. CASE resolves' = resolves
  BY <1>1
<1>2. ASSUME NEW v \in Worker, resolves' = [resolves EXCEPT ![v] = {}]
      PROVE  <<c, k>> \in resolves[w]
  BY <1>2 DEF RowInv, TypeOK
<1>3. ASSUME NEW v \in Worker, NEW d \in Delivery, d \in accepted',
             resolves' = [resolves EXCEPT ![v] = @ \cup LettersRetriedBy(d)],
             <<c, k>> \notin resolves[w]
      PROVE  k \in 1 .. Len(letters[c]) /\ letters[c][k].retry \in accepted'
  <2>1. <<c, k>> \in LettersRetriedBy(d)
    BY <1>3 DEF RowInv, TypeOK
  <2>2. k \in DOMAIN letters[c] /\ letters[c][k].retry = d
    BY <2>1 DEF LettersRetriedBy
  <2> QED BY <1>3, <2>2 DEF RowInv, TypeOK
<1> QED
  BY <1>1, <1>2, <1>3 DEF Next, vars, queue_webhook, RetryFallsDue, Claim, Commit, Abort,
     Post, RetryReads, RetryWrites, retry_dead_letter, admin_retry, merchant

\* The invariant of the letters is inductive relative to that of the rows.
LEMMA LetterStep == RowInv /\ LetterInv /\ [Next]_vars => LetterInv'
<1> SUFFICES ASSUME RowInv, LetterInv, [Next]_vars PROVE LetterInv'
  OBVIOUS
<1>1. RowInv' /\ RowsGrow /\ LettersStay /\ LettersCome
  BY RowsStep, RowsGrowStep, LettersStep
<1>2. ASSUME NEW d \in Delivery, Len(letters[d]) # 0
      PROVE  status[d] # "none" /\ carries[d] # NoEvent
  BY <1>2 DEF RowInv, RowsTell
<1>3. \A d \in Delivery : letters[d] \in Seq(Letter) /\ Len(letters[d]) \in Nat
                          /\ \A k \in 1 .. Len(letters[d]) : letters[d][k] \in Letter
  BY DEF RowInv, TypeOK
<1>4. RetriesCarryTheEvent'
  <2> SUFFICES ASSUME NEW d \in Delivery, NEW k \in 1 .. Len(letters'[d]),
                      letters'[d][k].retry # NoDelivery
               PROVE  carries'[letters'[d][k].retry] = carries'[d]
    BY DEF RetriesCarryTheEvent
  <2>1. k \in 1 .. Len(letters[d])
    BY <1>1 DEF LettersCome
  <2>2. carries'[d] = carries[d] /\ carries[d] # NoEvent
    BY <1>1, <1>2, <1>3, <2>1 DEF RowsGrow
  <2>3. CASE letters'[d][k].retry = letters[d][k].retry
    <3>1. letters[d][k].retry \in Delivery
      BY <1>3, <2>1, <2>3 DEF Letter
    <3>2. carries[letters[d][k].retry] = carries[d]
      BY <2>1, <2>3 DEF LetterInv, RetriesCarryTheEvent
    <3> QED BY <1>1, <2>2, <2>3, <3>1, <3>2 DEF RowsGrow, RowInv, RowsTell
  <2> QED BY <1>1, <2>1, <2>2, <2>3 DEF LettersStay
<1>5. ResolvesAreJustified'
  <2> SUFFICES ASSUME NEW w \in Worker, NEW d \in Delivery, NEW k \in Nat, <<d, k>> \in resolves'[w]
               PROVE  status'[d] # "none" /\ Siblings(d)' \cap accepted' # {}
    BY DEF ResolvesAreJustified
  <2>1. CASE <<d, k>> \in resolves[w]
    <3>1. status[d] # "none" /\ Siblings(d) \cap accepted # {}
      BY <2>1 DEF LetterInv, ResolvesAreJustified
    <3> QED BY <1>1, <3>1, SiblingsStay DEF RowsGrow
  <2>2. CASE k \in 1 .. Len(letters[d]) /\ letters[d][k].retry \in accepted'
    <3>1. status[d] # "none"
      BY <1>2, <1>3, <2>2
    <3>2. letters[d][k].retry \in Delivery
      BY <1>1, <2>2 DEF RowInv, TypeOK
    <3>3. carries[letters[d][k].retry] = carries[d]
      BY <2>2, <3>2 DEF LetterInv, RetriesCarryTheEvent
    <3>4. letters[d][k].retry \in Siblings(d)
      BY <3>2, <3>3 DEF Siblings
    <3> QED BY <1>1, <2>2, <3>1, <3>4, SiblingsStay DEF RowsGrow
  <2> QED BY <2>1, <2>2, ResolvesStep
<1>6. ResolvedWasDelivered'
  <2> SUFFICES ASSUME NEW d \in Delivery, NEW k \in DOMAIN letters'[d], letters'[d][k].resolved
               PROVE  Siblings(d)' \cap (accepted' \cup operator') # {}
    BY DEF ResolvedWasDelivered
  <2>1. k \in 1 .. Len(letters'[d])
    BY <1>1 DEF RowInv, TypeOK
  <2>2. k \in 1 .. Len(letters[d])
    BY <1>1, <2>1 DEF LettersCome
  <2>3. status[d] # "none"
    BY <1>2, <1>3, <2>2
  <2>4. CASE letters[d][k].resolved
    <3>1. Siblings(d) \cap (accepted \cup operator) # {}
      BY <1>3, <2>2, <2>4 DEF LetterInv, ResolvedWasDelivered
    <3> QED BY <1>1, <2>3, <3>1, SiblingsStay DEF RowsGrow
  <2>5. ASSUME NEW w \in Worker, <<d, k>> \in resolves[w]
        PROVE  Siblings(d)' \cap accepted' # {}
    <3>1. Siblings(d) \cap accepted # {}
      BY <2>2, <2>5 DEF LetterInv, ResolvesAreJustified
    <3> QED BY <1>1, <2>3, <3>1, SiblingsStay DEF RowsGrow
  <2>6. ASSUME NEW n \in operator', carries'[n] = carries[d]
        PROVE  n \in Siblings(d)'
    BY <1>1, <2>3, <2>6, SiblingsStay DEF RowInv, TypeOK
  <2> QED BY <1>1, <2>2, <2>4, <2>5, <2>6 DEF LettersStay
<1>7. NothingLost'
  <2> SUFFICES ASSUME NEW d \in Delivery, status'[d] # "none"
               PROVE  \E c \in Siblings(d)' :
                         c \in accepted' \/ status'[c] = "pending" \/ Unresolved(c)'
    BY DEF NothingLost
  <2>1. CASE status[d] = "none"
    <3>1. status'[d] = "pending" /\ d \in Siblings(d)'
      BY <2>1, PendingRowsSettle DEF Siblings
    <3> QED BY <3>1
  <2>2. CASE status[d] # "none"
    <3> PICK c \in Siblings(d) : c \in accepted \/ status[c] = "pending" \/ Unresolved(c)
      BY <2>2 DEF LetterInv, NothingLost
    <3>1. /\ c \in Delivery /\ carries[c] = carries[d] /\ status[c] # "none"
          /\ c \in Siblings(d)' /\ Siblings(c) = Siblings(d) /\ Siblings(c) \subseteq Siblings(d)'
          /\ \A n \in Delivery : carries'[n] = carries[c] => n \in Siblings(d)'
      BY <1>1, <2>2, SiblingsStay DEF Siblings
    <3>2. CASE c \in accepted
      BY <1>1, <3>1, <3>2 DEF RowsGrow
    <3>3. CASE status[c] = "pending"
      BY <3>1, <3>3, PendingRowsSettle
    <3>4. ASSUME NEW k \in DOMAIN letters[c], ~ letters[c][k].resolved
          PROVE  \E n \in Siblings(d)' :
                    n \in accepted' \/ status'[n] = "pending" \/ Unresolved(n)'
      <4>1. k \in 1 .. Len(letters[c])
        BY <1>3, <3>1
      <4>2. k \in 1 .. Len(letters'[c]) /\ letters'[c] \in Seq(Letter)
        BY <1>1, <3>1, <4>1 DEF LettersStay, RowInv, TypeOK
      <4>3. CASE ~ letters'[c][k].resolved
        BY <3>1, <4>2, <4>3 DEF Unresolved
      <4>4. ASSUME NEW w \in Worker, <<c, k>> \in resolves[w]
            PROVE  Siblings(d)' \cap accepted' # {}
        BY <1>1, <3>1, <4>1, <4>4 DEF LetterInv, ResolvesAreJustified, RowsGrow
      <4>5. ASSUME NEW n \in operator', status'[n] = "pending", carries'[n] = carries[c]
            PROVE  n \in Siblings(d)' /\ status'[n] = "pending"
        BY <1>1, <3>1, <4>5 DEF RowInv, TypeOK
      <4> QED BY <1>1, <3>1, <3>4, <4>1, <4>3, <4>4, <4>5 DEF LettersStay
    <3> QED BY <3>2, <3>3, <3>4 DEF Unresolved
  <2> QED BY <2>1, <2>2
<1> QED BY <1>4, <1>5, <1>6, <1>7 DEF LetterInv

\* There are no letters at the start.
LEMMA LetterInit == Init => LetterInv
BY DEF Init, LetterInv, RetriesCarryTheEvent, ResolvesAreJustified, ResolvedWasDelivered, NothingLost

-----------------------------------------------------------------------------
(* Theorems of the specification. *)

\* Both invariants hold in every behaviour.
LEMMA Invariance == Spec => [](RowInv /\ LetterInv)
<1>1. Init => RowInv /\ LetterInv
  BY RowInit, LetterInit
<1>2. RowInv /\ LetterInv /\ [Next]_vars => (RowInv /\ LetterInv)'
  BY RowsStep, LetterStep
<1> QED BY <1>1, <1>2, PTL DEF Spec

\* The variables keep their types; no row counts more than MaxAttempts attempts.
THEOREM DeliveryTypeCorrect == Spec => []TypeOK
<1>1. RowInv /\ LetterInv => TypeOK
  BY DEF RowInv
<1> QED BY <1>1, Invariance, PTL

\* Whatever transactions fail after the post, a delivery is logged as
\* delivered only if the merchant answered it with 2xx.
THEOREM DeliveredIsAccepted == Spec => []DeliveredWasAccepted
<1>1. RowInv /\ LetterInv => DeliveredWasAccepted
  BY DEF RowInv
<1> QED BY <1>1, Invariance, PTL

\* A delivery is pending while it has attempts left and dead-lettered when it
\* has used all of them, for any number of workers and retry requests.
THEOREM AttemptsAgree == Spec => []AttemptsTellTheStatus
<1>1. RowInv /\ LetterInv => AttemptsTellTheStatus
  BY DEF RowInv
<1> QED BY <1>1, Invariance, PTL

\* The worker has exactly the pending deliveries to look at, but for those an
\* operator made.
THEOREM PendingHasItsTime == Spec => []PendingIsScheduled
<1>1. RowInv /\ LetterInv => PendingIsScheduled
  BY DEF RowInv
<1> QED BY <1>1, Invariance, PTL

\* However many workers there are, no delivery is in two batches.
THEOREM WorkersAreDisjoint == Spec => []OneWorkerPerDelivery
<1>1. RowInv /\ LetterInv => OneWorkerPerDelivery
  BY DEF RowInv
<1> QED BY <1>1, Invariance, PTL

\* A dead letter is resolved only when its event was accepted in some delivery
\* or an operator has queued it.
THEOREM ResolvedIsDelivered == Spec => []ResolvedWasDelivered
<1>1. RowInv /\ LetterInv => ResolvedWasDelivered
  BY DEF LetterInv
<1> QED BY <1>1, Invariance, PTL

\* Of every event there is always an accepted delivery, a pending one or a
\* dead letter nobody has resolved.
THEOREM EventsAreNotLost == Spec => []NothingLost
<1>1. RowInv /\ LetterInv => NothingLost
  BY DEF LetterInv
<1> QED BY <1>1, Invariance, PTL

-----------------------------------------------------------------------------
(* WebhookDelivery implements DeliveryQueue: a commit is the moment at which *)
(* the attempts of a batch take place, and the locks that are held until     *)
(* then keep every row as it was claimed.                                    *)

Requested == {request[r] : r \in Request} \ {NoDelivery}

\* A new row is a queued event.
LEMMA NewRowIsQueued ==
  ASSUME NEW d \in Delivery, NEW e \in Event, status[d] = "none", NewRow(d, e),
         UNCHANGED <<attempts, accepted, request>>
  PROVE  Promise!Next
<1>1. Promise!Queue(d, e)
  BY DEF Promise!Queue, NewRow
<1> QED BY <1>1 DEF Promise!Next

\* Claims, rollbacks and the passing of time change nothing the promise is about.
LEMMA NothingPromised ==
  ASSUME UNCHANGED <<status, carries, attempts, accepted, request>>
  PROVE  UNCHANGED Promise!vars
BY DEF Promise!vars

\* A post is an answer, or nothing that the promise knows of.
LEMMA PostAnswers ==
  ASSUME RowInv, NEW w \in Worker, NEW d \in Delivery, Post(w, d)
  PROVE  Promise!Next \/ UNCHANGED Promise!vars
<1>1. UNCHANGED <<status, carries, attempts, request>>
  BY DEF Post, rows
<1>2. status[d] = "pending"
  BY DEF Post, RowInv, HeldRowsAreDue, PendingIsScheduled
<1>3. CASE accepted' = accepted
  BY <1>1, <1>3, NothingPromised
<1>4. CASE accepted' = accepted \cup {d}
  <2>1. Promise!Answer(d)
    BY <1>1, <1>2, <1>4 DEF Promise!Answer
  <2> QED BY <2>1 DEF Promise!Next
<1> QED BY <1>3, <1>4 DEF Post, merchant

\* A commit is an attempt at all that was posted.
LEMMA CommitAttempts ==
  ASSUME RowInv, NEW w \in Worker, Commit(w)
  PROVE  Promise!Next
<1> DEFINE D == {d \in Delivery : work[w][d] \in {"accepted", "failed"}}
           W == {d \in Delivery : work[w][d] = "accepted"}
<1>1. D \in SUBSET Delivery /\ W \in SUBSET D
  OBVIOUS
<1>2. \A d \in D : status[d] = "pending" /\ attempts[d] \in Nat /\ attempts[d] < MaxAttempts
  BY DEF RowInv, TypeOK, HeldRowsAreDue, PendingIsScheduled, AttemptsTellTheStatus
<1>3. W \subseteq D \cap accepted
  BY DEF RowInv, HeldRowsAreDue
<1>4. /\ attempts' = [d \in Delivery |-> IF d \in D THEN attempts[d] + 1 ELSE attempts[d]]
      /\ UNCHANGED <<carries, accepted, request>>
  BY DEF Commit, merchant
<1>5. \A d \in Delivery : Exhausted(w, d) <=> d \in D \ W /\ attempts[d] + 1 = MaxAttempts
  BY <1>2 DEF Exhausted
<1>6. ASSUME NEW d \in Delivery
      PROVE  StatusAfter(w, d) = IF d \in W THEN "delivered"
                                 ELSE IF d \in D /\ attempts[d] + 1 = MaxAttempts
                                      THEN "dead_lettered" ELSE status[d]
  BY <1>5 DEF StatusAfter
<1>7. status' = [d \in Delivery |-> IF d \in W THEN "delivered"
                                    ELSE IF d \in D /\ attempts[d] + 1 = MaxAttempts
                                         THEN "dead_lettered" ELSE status[d]]
  BY <1>6 DEF Commit
<1> HIDE DEF D, W
<1>8. Promise!Attempt(D, W)
  BY <1>2, <1>3, <1>4, <1>7 DEF Promise!Attempt
<1> QED BY <1>1, <1>8 DEF Promise!Next

\* A request asks and then retries, and another may have asked for the same.
LEMMA RequestRetries ==
  ASSUME RowInv, NEW r \in Request, RetryWrites(r) \/ \E d \in Delivery : RetryReads(r, d)
  PROVE  Promise!Next
<1>1. request \in [Request -> Delivery \cup {NoDelivery}]
  BY DEF RowInv, TypeOK
<1>2. ASSUME NEW d \in Delivery, RetryReads(r, d) PROVE Promise!Next
  <2>1. Requested' = Requested \cup {d}
    BY <1>1, <1>2 DEF RetryReads, Requested
  <2>2. Promise!Ask(d)
    BY <1>2, <2>1 DEF Promise!Ask, RetryReads, rows, merchant, Requested
  <2> QED BY <2>2 DEF Promise!Next
<1>3. CASE RetryWrites(r)
  <2>1. PICK d \in Delivery : d = request[r]
    BY <1>1, <1>3 DEF RetryWrites
  <2>2. d \in Requested
    BY <2>1, <1>1 DEF Requested, RowInv, TypeOK
  <2>3. \A q \in Request : request'[q] = IF q = r THEN NoDelivery ELSE request[q]
    BY <1>1, <1>3 DEF RetryWrites
  <2>4. Requested' = {request[q] : q \in Request \ {r}} \ {NoDelivery}
    BY <2>3 DEF Requested
  <2>5. Requested' \in {Requested, Requested \ {d}}
    BY <2>1, <2>4 DEF Requested
  <2>6. /\ status' = [status EXCEPT ![d] = "pending"] /\ attempts' = [attempts EXCEPT ![d] = 0]
        /\ UNCHANGED <<carries, accepted>>
    BY <2>1, <1>3 DEF RetryWrites, merchant
  <2>7. Promise!Retry(d)
    BY <2>2, <2>5, <2>6 DEF Promise!Retry, Requested
  <2> QED BY <2>7 DEF Promise!Next
<1> QED BY <1>2, <1>3

\* Every step is one of the queue's, or none.
LEMMA QueueStep == RowInv /\ [Next]_vars => [Promise!Next]_(Promise!vars)
<1> SUFFICES ASSUME RowInv, [Next]_vars PROVE Promise!Next \/ UNCHANGED Promise!vars
  OBVIOUS
<1>1. CASE UNCHANGED vars
  BY <1>1, NothingPromised DEF vars, rows, merchant
<1>2. ASSUME NEW e \in Event, NEW d \in Delivery, queue_webhook(e, d) PROVE Promise!Next
  BY <1>2, NewRowIsQueued DEF queue_webhook, merchant
<1>3. ASSUME NEW d \in Delivery, RetryFallsDue(d) PROVE UNCHANGED Promise!vars
  BY <1>3, NothingPromised DEF RetryFallsDue, merchant
<1>4. ASSUME NEW w \in Worker, Claim(w) \/ Abort(w) PROVE UNCHANGED Promise!vars
  BY <1>4, NothingPromised DEF Claim, Abort, rows, merchant
<1>5. ASSUME NEW c \in Delivery, NEW d \in Delivery, NEW k \in DOMAIN letters[c],
             retry_dead_letter(c, k, d) \/ admin_retry(c, k, d)
      PROVE  Promise!Next
  <2>1. letters[c] # << >>
    BY <1>5 DEF RowInv, TypeOK
  <2>2. carries[c] \in Event
    BY <2>1 DEF RowInv, TypeOK, RowsTell
  <2> QED BY <1>5, <2>2, NewRowIsQueued DEF retry_dead_letter, admin_retry, merchant
<1> QED
  BY <1>1, <1>2, <1>3, <1>4, <1>5, PostAnswers, CommitAttempts, RequestRetries DEF Next

\* Whatever the number of workers, however batches are cut, transactions lost and
\* retries repeated, deliveries behave like those of a queue without any of these.
THEOREM QueueImplemented == Spec => ImplementsQueue
<1>1. Init => Promise!Init
  BY DEF Init, Promise!Init
<1>2. RowInv /\ LetterInv => RowInv
  OBVIOUS
<1> QED BY <1>1, <1>2, QueueStep, Invariance, PTL DEF Spec, ImplementsQueue, Promise!Spec
=============================================================================
