# GhostBill in TLA+

GhostBill is a self-hosted Monero payment processor: merchants create invoices, a
detection engine watches a view-only wallet for payments, and webhooks tell the
merchant what happened. This directory holds models of the parts where order,
failure and concurrency matter, the TLC runs that check them, and machine-checked
proofs of their main invariants. Paths are relative to the repository;
`PROJECT.json` lists, for every definition, the lines of code it stands for.

## 1. The system

Everything runs in one FastAPI process (`backend/app/main.py`), possibly in several
copies: the HTTP API and the background loops. They share PostgreSQL (READ COMMITTED,
the driver's default), Redis, and one `monero-wallet-rpc`.

| Component | State it keeps | Operations | What is hard | What makes it correct |
|---|---|---|---|---|
| Invoice service, expirer (`services/invoice_service.py`, `services/expiration_service.py`, `tasks/invoice_expirer.py`) | `invoices.status`, `expires_at` | create, cancel, `update_status`, batch expiry | three writers of one column, none of which locks the row before it decides | the status agrees with the confirmed total; cancelled is final |
| Payment service (`services/payment_service.py`) | `payments` rows | `process_transfer`, `_update_confirmations`, `_recalculate_invoice_status`, `handle_reorg`, `determine_webhook_events` | payments come, confirm and vanish in any order, and every handler is repeated | a payment counts once, is announced once, is given up only when it is gone |
| Detection engine (`tasks/detection_engine.py`, `detection_confirmations.py`, `detection_helpers.py`) | checkpoint and lease in Redis, miss counts in memory | regular scan, deep scan, confirmation polling | crash between commit and checkpoint, RPC and Redis failures, several processes, reorganisations | nothing mined is left behind the checkpoint |
| Webhooks (`services/webhook_service.py`, `webhook_payloads.py`, `tasks/webhook_worker.py`, `api/routes/webhooks.py`, `api/routes/admin.py`) | `webhook_deliveries`, `webhook_dead_letters` | queue, claim, post, back off, dead-letter, three kinds of retry | lost answers, workers in parallel, a transaction that fails after the post, retries that race | no event is lost; the log says what happened; everything settles |
| Subscriptions (`services/subscription_*.py`, `tasks/subscription_renewer.py`) | status, anchor, next due date, pending changes, prepaid periods | renewal sweep, grace, recovery, pause, resume, cancel, prepay, payment hook | clocks, a sweep that must end, late payments | each period billed once; the status follows the payments |
| Data retention (`tasks/data_retention.py`) | none | batched deletion of invoices, addresses, deliveries, dead letters, audit rows | RESTRICT foreign keys; statements of one transaction that each look anew | nothing that is referred to goes; what can be paid keeps its address; what is old goes |
| Accounts (`api/auth.py`, `api/routes/api_keys.py`, `merchants.py`, `auth_signature.py`, `admin.py`, `core/monero_auth.py`) | `merchants`, `api_keys`; nonces and sessions in Redis | registration, login by signature, authentication, creating and revoking keys, deactivating merchants | a count that is stale when it is used, row locks across requests, three stores in one login | a session follows a signature; revocation waits for the requests of its key; every request ends |
| Price feed (`tasks/price_updater.py`, `services/price_feed.py`) and the creation of invoices (`api/routes/invoices.py`) | price and lease in Redis; subaddresses in the wallet | update, read the rate, `create_address` with retries | a lease that is never given back, a key that expires, answers that get lost, a wallet that forgets | an invoice has a recent rate and an address of its own |
| Migrations (`backend/migrations`) | the schema and its version | 15 revisions, up and down | runs that are cut off, indexes built concurrently, rows written meanwhile | the schema is that of the version; a run can be repeated |
| Licences, customers, analytics, rate limiting, middleware, CLI, SDK, payment page | tables and Redis counters | CRUD, quotas, aggregation | little: sequential code, or cryptography | tested directly |

The parts interact so. `create_invoice` gets a subaddress from the wallet and commits
a row. The engine finds a transfer to that subaddress, records a payment, recalculates
the invoice, and queues webhook deliveries, all in the transaction of its cycle; it
moves the Redis checkpoint after the commit. The expirer updates pending invoices in one
statement and queues their events. The webhook worker claims deliveries with
`FOR UPDATE SKIP LOCKED` and posts them. A paid invoice that belongs to a subscription
calls the subscription hook in the same transaction. Retention deletes rows that all of
these refer to, and the migrations change the tables under them.

## 2. The modules

| Module | Models | Checked by |
|---|---|---|
| `InvoiceRules` | transition table, target status, events of a change; pure operators | through the next two |
| `PaymentLedger` | abstract: invoices open and close, a transaction is credited once and for good | implemented by `Settlement` |
| `Settlement` | API, expirer and engine with one step per handler; the wallet is the environment | `Settlement.cfg` |
| `SettlementRace` | the database transactions of engine cycle, cancel request and expirer, for one invoice | `SettlementRace.cfg`, `SettlementRaceCancel.cfg` |
| `DetectionCursor` | checkpoint, windows, engines, chain | `DetectionCursor.cfg` |
| `DeliveryQueue` | abstract: a queue whose deliveries are attempted one attempt after the other, until they rest and somebody asks for more | implemented by `WebhookDelivery` |
| `WebhookDelivery` | deliveries, workers, merchant, retries | `WebhookDelivery.cfg` |
| `BillingCalendar` | abstract: periods are billed to active subscribers who owe nothing, or in advance, never two from the same day, and due dates never move back | implemented by `Subscriptions` |
| `Subscriptions` | subscriptions over the API, renewal sweep, prepaid periods, grace, the hook of a paid invoice | `Subscriptions.cfg`, `SubscriptionSweep.cfg` |
| `Accounts` | requests, keys, sessions, nonces, with the row locks between them | `Accounts.cfg` |
| `Retention` | the cleaner's transaction beside what goes on referring to its rows | `Retention.cfg`, `RetentionBlocked.cfg` |
| `PriceFeed` | the price in Redis and the updaters of several processes | composed into `Intake` |
| `Intake` | requests that create invoices, over `PriceFeed` and the wallet | `Intake.cfg` |
| `Migrations` | the revisions, the runs of alembic, the rows in the way | `Migrations.cfg` |
| `SettlementProofs`, `SettlementRaceProofs`, `DetectionCursorProofs`, `WebhookDeliveryProofs`, `SubscriptionsProofs`, `AccountsProofs`, `DatabaseProofs`, `IntakeProofs` | theorems | the proof system |

The modules `MC...` give the constants their values for TLC; the configurations of
`Subscriptions` and `Migrations` do so themselves. Operators named `X_Y` after an operator
`X` and labelled "Mutant" are variants of it with a plausible mistake. No specification uses
them: each shows that some property would notice the mistake. Formulas marked "Does NOT
hold" are claims of the repository that the code does not keep (section 3).

The total of a set of payments is the constant `Sum`, of which `SumAssumption` and
`RaceAssumption` say what they need: nothing adds up to 0, and one more payment adds its
amount. That determines it; TLC is given `MapThenSumSet`, and checks the assumptions on
it. A definition of the sum would be recursive, and induction is out of the prover's reach.

### Settlement

`status[i]` is `Invoice.status`, `pay[t]` and `credited[t]` the payment row of a
transaction, `miss[p]` the dictionary `_tx_miss_counts` of a process, `wallet[t]` what the wallet answers
about `t`: nothing, in the mempool, mined, or ten blocks deep. Confirmation counts matter
only by that threshold. `ScanTransfer(t, i)` is one entry of `get_transfers`, through
`process_transfer`, recalculation, event selection and dispatch. `PollMisses`,
`PollOrphans` and `PollFinds` are the three outcomes for one payment in
`update_unconfirmed`, in whichever process has the lease. `told` and `notified` stand for the deliveries queued: the last
invoice event, and how often each payment event. `streak[p][t]` is a history variable: how many polls in a row
process `p` has really missed `t`, against which the counts in memory are judged. The
wallet may drop a transaction at any depth and show it again. A row is found by
transaction hash alone, as in `find_payment_by_tx_hash`, so a transaction that pays two
invoices has one row; `Exclusive(i)` says that no transaction does so for `i`.

A payment first seen ten blocks deep is created as confirmed and announced as
`payment.detected` only; `payment.confirmed` is never sent for it. `AnnouncedOnce`
therefore bounds the confirmations from above.

### SettlementRace

The same handlers cut at their database reads and writes. `w...` variables are what the
engine's open transaction has written; a commit publishes them, a rollback forgets
them. `LoadInvoice` fixes the old status (from the database or from the session's object,
which may be stale), `RefreshInvoice` reads what is committed now, and `FinishItem` writes
what followed from that. A row the engine has written is locked for the others until the
cycle ends. The expirer's UPDATE checks its conditions again on the row it gets; the
cancel request does not, which is the finding below.

### DetectionCursor

The chain grows, loses at most `MaxReorg` blocks at a time, and puts their transactions
back in the mempool. An engine's cycle is: read the height, read the checkpoint (0 if Redis
fails), scan, perhaps deep scan, commit, save. Calls fail at every place the code catches
an error, and then the code goes on as it does. There is no lease in the model: the lease
has a lifetime of two intervals whatever its holder does, so it excludes nothing for
certain, and an engine here begins whenever it likes. Two engines that add the same row
collide on the unique constraint, and the later cycle rolls back. The wallet takes
`min_height` to be exclusive (its documented behaviour, outside this repository), so a
buffer of 10 blocks covers reorganisations of up to 9: this is `ReorgAssumption`, and with
`MaxReorg = ReorgBuffer` TLC finds `CheckpointSound` violated. Polling belongs to
`Settlement`.

### WebhookDelivery

A worker's cycle is one transaction: `work[w]` is what it has done to its batch, written by
`Commit` or lost by `Abort`, while posts that went out stay out. A post is accepted, fails
(and the merchant may or may not have processed it), or raises an exception that
`attempt_delivery` does not catch. `due` and `earlier` are the queue in the order of
`next_retry_at`, `later` the retries in the future. The merchant deduplicates by
delivery id as `docs/WEBHOOK_DEBUGGING.md` advises. `RetryReads` and `RetryWrites` are
the unlocked check and the write of `retry_delivery`; seen as a queue, the delivery is asked for
by the one and retried by the other, and a claim or an aborted transaction is no step at all. Here too the lease is left out. Not
modelled: merchants without webhook URL or secret (nothing is queued for them), status
`failed` (no code sets it), and two operators in the same instant on one letter.

### Subscriptions

`subs[s]` is a row of `subscriptions`, `invoices[i]` what a subscription needs to know of
its invoices, and `payments` the rows of `subscription_payments`: an invoice and the period
it bills. Time is counted in days, and "now" is a moment after the start of `day`, so that
a time has both come and passed when it is at most `day`.

A request of the API holds the subscription's row lock (`_get_for_update`) and is one
action. Invoices are settled by the engine, which calls `handle_subscription_payment` in the
same transaction (`payment_service.py:447-478`): `Settle(i)`. They are expired by the
expirer and cancelled by the merchant: `Expire(i)`, `cancel_invoice(i)`. The cancellation's
check and its write are apart in the code, without a lock; every invoice begins as one that
passes the check, so `cancel_invoice(i)` is the late write and goes over whatever the invoice
has become, a paid one included.

The sweep is taken apart at its transactions. `EndTrial(s)` is the trial phase: one
transaction that keeps its rows locked, so its rows can be taken one by one. `SelectDue`
selects and locks a batch, `RenewDue(s)` works on one row of it, `CommitBatch` releases it,
and the loop selects again until nothing is due. `batch[s]` is the *session's copy* of a
row: sessions are made with `expire_on_commit=False` (`db/session.py:16`), and a locking
select does not refresh a row the session has loaded already, so a row that is selected
twice is renewed from its old copy, and `Flushed` writes the columns in which that copy has
changed. The grace check is three queries without a lock, each followed by one write per row
(`GraceQuery`, `GraceWrite(s)`); `draft` holds what it has written and not committed, and
locks those rows.

Not modelled: amounts and grace days as pending changes (the interval stands for them), two
renewers at a time and their lease, batches larger than 50, `prepaid_until` (no code decides
anything by it), audit rows, renewal events and webhooks, and errors of the hook (a database
error, which aborts the engine's transaction as a whole). An invoice that is overpaid at
once is taken as paid: the hook asks for either.

### Accounts

A request is one transaction (READ COMMITTED), `req[r]`, cut at its reads and writes.
`PresentKey` and `PresentSession` start it with a credential, `FindMerchant` admits it, and
`TouchKey` is the UPDATE of `last_used_at` at the end of an authentication by key: the row
stays locked (`lock`) until the request ends, which is what makes requests under one key
wait for each other. A session takes no lock. `CountKeys`/`InsertKey` and
`CountOthers`/`RevokeKey` are the counts that go stale. Two requests that hold a key each
and want the other's are a deadlock that PostgreSQL ends with an error (`BreakDeadlock`).
A login goes through Redis (`GetNonce`, `DeleteNonce`), the wallet (`CheckSignature`), the
database (`FindSigner`) and Redis again (`CreateSession`), each step at a time of its own.
`under` is a history variable: the credentials a merchant's keys were revoked under. Every
other request with a key is `OtherWork`.

### Retention

`tx` is the cleaner's one transaction: which statement comes next, and what it has deleted
so far. It deletes addresses by a subquery, then looks for the invoices again, then deletes
letters and deliveries; each statement sees what others have committed by then. `refs` are
the rows that hold on to an invoice by a RESTRICT key, and the key is checked when the
invoices go: if anything refers to one, the transaction is rolled back. Who touches a
row the cleaner has deleted waits for it (`Touchable`). The engine finds an invoice by its address
(`find_invoice_by_subaddress_index`) in one step and records the payment in another. Audit
rows go in the same transaction, nothing refers to them, and they are left out. So is the
cleaner's lease: it lasts two hours in a loop of one and is never released, so that the
cleaner runs about every second hour, though its docstring says every hour.

### PriceFeed and Intake

A clock per updater, the key and the lease run down together (`Tick`, a minute in the run),
and time stands still while a clock has run out. The clock of an update starts at `Slow`, the
longest an update takes. The code has no deadline for one, so `Slow` may be more than the
lease, and then updates run side by side. `TakeLease` is `SET NX EX`; nobody
gives the lease back, so that whoever updates finds it still held at his next turn and skips
it: the price is renewed about every 120 seconds, where the docstring says 60. A cached price
carries its age, and whether its update has outlasted its lease; in storage the key's own expiry bounds it, as nothing is ever marked stale.
A request (`req`) reads the rate, flushes its invoice, calls `create_address` up to
`MAX_RETRIES` times, where a call whose answer is lost has made a subaddress all the same,
and commits, unless the address has an invoice. The wallet may be restored from what it last
saved and then hands out the same subaddresses again.

### Migrations

A revision is a program of statements, from which upgrade and downgrade take theirs.
`version` and `db` are what is committed, `work` what the open transaction sees. An
autocommit block commits what came before it, and a concurrent index build
(`BuildStarts`, `BuildScans`, `BuildEnforces`, `BuildValidates`) goes through
transactions of its own; a failed build leaves an invalid index that takes up its name. `Crash`
cuts a run off anywhere, `Refuse` is a statement that meets something that is there already
or rows that contradict it. The operator repeats a run or turns back. `broken` is the set of
rules that rows break: the two unique keys that indexes are built for, the unique key of
`phase5a_step2`, and the checks of `w1_04a` (a subscription below one piconero has an amount of
0). The application may break a rule as long as nothing enforces it (`BreakRule`), an operator
may clean the rows (`CleanRows`), and a constraint that is created or validated meanwhile is
refused (`Contradicted`). That an index is not unique is a reason as well to refuse it as a
constraint.

## 3. The runs

| Run | Bounds | Shows |
|---|---|---|
| `settlement` | one invoice of 2, transactions of 1 and 2, two processes, one restart, two misses | safety, liveness, and the refinement of `PaymentLedger` |
| `settlement_race` | one invoice of 2, payments of 1, 1 and 3 | committed states are right under every interleaving, but for cancellation |
| `settlement_race_cancel` | the same | **violated:** a settled invoice is cancelled |
| `webhook_delivery` | 2 events (one cannot be posted), 3 rows, 2 workers, 2 requests, 2 attempts, batches of 2, 2 retries, 1 failing transaction | bookkeeping, the refinement of `DeliveryQueue`, no loss, everything settles |
| `detection` | 2 engines, 1 transaction, buffer 2, deep scan 3, 4 blocks, one reorganisation of one block, one failure | nothing is left behind; what is mined is recorded |
| `subscriptions` | one subscription, 3 invoices, days 0 to 2, an interval of 1 that may be changed to 2, trials of 0 and 1, plans of one period, grace 0 and 1 | one invoice to pay at a time, no period billed twice, no payment overlooked, only the active are billed |
| `subscription_sweep` | 2 invoices, an interval of 2, no trials or plans | **violated:** a sweep does not end |
| `accounts` | 3 merchants (one the administrator), 7 keys, 2 addresses, 1 nonce, 2 sessions, 2 requests at a time and 3 in all, 3 active keys at most | sessions follow signatures, revocation waits, one key keeps one, every request ends |
| `retention` | 2 invoices, 2 deliveries, batches of 1, 1 failure, invoices of merchants and for prepaid periods | nothing that is referred to goes; what is old goes, unless a delivery stops it |
| `retention_blocked` | the same | **violated:** old invoices go |
| `intake` | 2 updaters, 2 requests, interval 1, lease 2, key 10 minutes, an update takes 2 at most (as long as its lease), 1 failure to spare, 2 tries, 3 subaddresses | the price survives, an older one overtakes only by an update that outlasts its lease, rates are recent, addresses differ |
| `migrations` | all 15 revisions, 2 interruptions, 2 reversals, 1 rule broken at a time | the schema is that of the version; payments are unique; only the revisions named are refused |

Why these bounds are enough to be interesting. An invoice needs two payments to be paid in
part, exactly and in excess, in either order, and three to be overpaid step by step
and at once. Two
processes with an orphan threshold of two, instead of the code's three, let one count while
the other finds. Two attempts and two retries let a
delivery fail, be retried, be dead-lettered, be replayed, and fail again; three rows leave
one to replay into. A chain of four blocks has transactions below, in and above a window of
two, and a deep scan of three that reaches further than the window. Three invoices are a
renewal, a prepaid period and the renewal that follows, in two days in which an interval can
change, a trial end, and grace run out; all interleavings of that with a sweep are some four
million states, and a second subscription or other start dates are left to the
proofs. Two requests are enough for a deadlock and for a stale count, and a third in all for
what is seen afterwards; three merchants let two of them register the same address beside the
administrator. Two invoices and batches of one make the cleaner's two statements pick
different rows. The times of `intake` are the code's own, with an update
that takes as long as its lease, so that two updates can overlap, and one failure in a row, as
many as the key of ten minutes has room for then (`SurvivalAssumption`). With updates that take
less than a minute there is room for two. One broken rule at a time is enough to meet
each statement with the rows that contradict it, and two reversals leave time to clean one and
break another. Two reversals take a revision up, down and up again, and
two interruptions cut the repair of the first one off. Every bound is a
constant, and the proofs hold for all of its values.

`CHECK_DEADLOCK FALSE` is given where the system may come to rest: every
invoice settled and every transaction buried, every delivery settled, no request left to make,
the schema where the operator wants it.

Fairness. The engine, the expirer and the worker are endless loops that log an
exception and go on, so an operation that stays possible is done in the end: weak fairness
of polling, scanning, expiring and of each started cycle. A transaction that stays visible
is scanned while it is in a window, which `MinedIsRecorded` justifies on its part. Claiming
and beginning a cycle are fair for *some* process only, as the lease promises nothing to
any one of them. Deep scans get strong fairness: each process makes one when an hour
has passed, though not in every cycle. Merchants, operators, the network, crashes and
restarts owe nothing, except that time passes (a retry falls due) and blocks keep
coming. A commit that fails is bounded in number, not unfair. In `Accounts` the server works
on each request it has taken, and the database looks for deadlocks. In `Retention` the
cleaner's loop goes round (weak), and the two statements that pick a batch by the same subquery
agree at last (strong), as rows that nobody changes stay where they are: without it two
statements could pick different rows for ever. In `Subscriptions` fairness
serves only the run that shows a sweep without end: the renewer goes on, expired invoices
are expired, and a renewal tried again and again is not refused by the wallet for ever, so
neither of these is the reason.

### What the documentation says and the code does not do

Three of these are runs that end in a violation.

1. `settlement_race_cancel`. `cancel_invoice` says "Only pending invoices can be cancelled"
   and can overwrite a settled status (`invoice_service.py:348`, `:374`).
2. `subscription_sweep`. The renewer "runs forever, sweeps every SWEEP_INTERVAL seconds"
   (`subscription_renewer.py:45`). A due subscription that is skipped stays due and is
   selected again at once (`:156`). While its invoice is partly paid, which never expires, or
   its prepay invoice is pending, for up to 30 days, the loop goes round without a pause and
   does not reach the grace check that would take the subscription out of it.
3. `retention_blocked`. data_retention.py:5 says "Expired/cancelled invoices: 48 hours after
   expiry/cancellation". The query that leaves out what is still referred to (`:43`) forgets
   `webhook_deliveries`, whose key is RESTRICT too, and the expirer queues a delivery for
   every expired invoice of a merchant with a webhook. The whole cycle is rolled back, the
   deletion of old deliveries with it.

The others are formulas in the modules, marked "Does NOT hold", with which TLC finds the
counterexample when one is put in a configuration:

- `Settlement.ReorgIsReversed`. README.md:51 promises an automatic reversal of confirmed
  payments. Only `detected` payments are polled (`payment_service.py:568`).
- `WebhookDelivery.AppliedOnce`. docs/WEBHOOK_DEBUGGING.md:370 guarantees safety by unique
  delivery ids; a replay has a new one (`webhook_service.py:282`).
- `WebhookDelivery.PendingIsClaimable`. docs/API.md:1014 lets an operator retry dead letters;
  the new row has no `next_retry_at` and is never claimed (`admin.py:392`).
- `WebhookDelivery.RetryIsOneAttempt`. webhooks.py:188 says of the retry of a dead letter
  "Single attempt, no 7-retry cycle."; it queues a delivery with `MAX_ATTEMPTS` like any other.
- `WebhookDelivery.OnlyFailedIsRetried`. docs/API.md:678 and docs/WEBHOOKS.md:435 let only failed
  deliveries be retried. No code sets `failed`, and `retry_delivery` takes a dead-lettered one
  (`webhook_service.py:254`).
- `Subscriptions.OverdueIsPastDue`. docs/API.md:513 calls a subscription `past_due` when a
  renewal invoice is unpaid past soft grace. The recovery query (`subscription_grace.py:169`)
  asks for any paid invoice, one of an earlier period included.
- `Subscriptions.CancelIsFinal`. docs/API.md:607 says that cancelling cannot be undone. The
  grace check (`subscription_grace.py:129`) reads without a lock and writes `past_due` over it.
- `Accounts.AlwaysAKey`. api_keys.py:154 refuses to revoke the last active key; two
  revocations under two keys or sessions count each other's key. `OneKeyKeepsOne` is what
  does hold.
- `Accounts.NonceIsSingleUse`. auth_signature.py:146 and :162 ("atomic get-and-delete"),
  monero_auth.py:10, docs/SECURITY.md:178 and docs/API.md:858 say that a nonce is used once. It is
  read and deleted by two calls to Redis (`monero_auth.py:115`, `:128`), so two logins that have both
  read it get a session each. `SessionFollowsSignature` is what does hold.
- `Accounts.AddressesDiffer`. Two registrations look for the address before either inserts
  it, and there is no unique constraint on `merchants.monero_address`.
- `Migrations.AddressesAreUnique`. w1_02a promises unique subaddress coordinates. A build
  that failed leaves an invalid index, which the repeated run takes for built. Besides, the
  models declare the address and the invoice of `invoice_addresses` unique, and no
  migration makes them so.
- `PriceFeed.PriceIsNewest`. The lease is there "so only one process performs a given task
  iteration" (`detection_helpers.py:80`); it runs out while its holder waits, and the SETEX does not
  ask for it, so that an update that was slower than its lease stores an older price over a
  newer one. `OlderOnlyIfLate` is what does hold.
- `Retention.AddressesStay`. The cleaner deletes addresses before it looks for their
  invoices again; a payment in between keeps the invoice, without the address.

Four more have no formula. docs/API.md:369 describes `paid_atomic` as all
that was received, but a transaction's output to a second invoice is not recorded, as rows
are found by transaction hash alone (`payment_service.py:108`). README.md:36 promises
detection in the mempool within seconds, but the mempool is read only when there is a new
block (`detection_engine.py:179`). A
payment "disappeared repeatedly" (`detection_confirmations.py:54`) as one process has counted it:
each has a dictionary of its own (`:19`), and a hit in one does not end the misses of another, so that
three misses need not be three polls of the engine in a row. The price updater and the cleaner
run half as often as their docstrings say, because of their leases (see above).

## 4. The proofs

All theorems hold for every value of the constants that satisfies the named assumptions
of the modules (amounts are naturals, an invoice's amount is positive, bounds are naturals,
the set of rows is finite, the reorganisations are shorter than the buffer).

`SettlementProofs`. The inductive invariant `IInv` adds two facts to the types:
`RowsBelong` (a row belongs to an invoice that exists and that its transaction pays, so a
transfer of another invoice cannot move the total of an exclusive one, and a new invoice has
no payments) and `MissesCounted` (the count in a process's memory never exceeds the run of
misses of its own, which is why a restart cannot orphan early). From it: `TypeCorrect`,
`SettlementCorrect` (each handler either leaves payments and status of an invoice alone, or
recalculates it from the payments it leaves behind; `RecalculatedFits` shows that the
transition table never stands in the way), `OrphansAreMissed`, `EventsOnce`,
`CancelledAnnounced`, `LedgerImplemented`, the refinement of `PaymentLedger`, and
`MerchantFollows`, for which `StatusesEarned` is added: a status that follows from money has
that money behind it. Confirmed totals only grow, so no such status is taken back, a change
for which there would be no event.

`SettlementRaceProofs`. The engine computes events from a status that may be stale, and the
others write between its reads and its commit. `CycleInv` and `ItemInv` say of every step of
the engine what it knows: the status it has read *leads to* the committed one (`LeadsTo`: the
others may only have cancelled or expired it), the row it has written is locked, and the
total it computes is that of the committed payments and its own. Totals only grow within a
cycle, so nothing is reverted (`NothingReverted`) and the event it queues is the one its merchant
is missing (`EventFollows`). From it: `RaceTypeCorrect`, `CommittedFits`,
`DetectionsAnnounced`, `MerchantKnows`.

`WebhookDeliveryProofs`. `RowInv` is the invariant of the rows: held rows are due and
pending, an operator's row is never scheduled or held, a row exists if and only if it
carries an event. `LetterInv` is that of the letters: what a worker has marked as resolved
is a retry it delivered, a dead letter's retry carries the event of its letter, and each
event has a delivery accepted, pending, or with an unresolved letter. The second is
inductive relative to the first, by way of `RowsGrow` (nothing accepted, carried or
lettered is forgotten). `QueueImplemented` is the refinement of `DeliveryQueue`: all attempts
of a batch are counted at the moment of its commit, and `RowInv` says that its rows are then
still pending, with attempts left, as they were when they were locked (`CommitAttempts`).

`DetectionCursorProofs`. `CheckpointSound` is not inductive: a cycle that is under way
carries a window of its own. `CursorInv` says of every engine in every phase that
everything below what it is about to save is recorded, found, or skipped, given that the
chain cannot lose blocks below the buffer. Engines are independent because rows are
never removed.

`SubscriptionsProofs`. None of the invariants is inductive alone. `Links` says what the
columns of the books mean for each other: a billed invoice exists and is its subscription's,
a prepay invoice has periods only once it is paid, and a subscription with an invoice has
left its trial. `BatchInv` is about the session's copies: a copy may be old, but its due date
is never after the row's, and what the renewer is still to bill is active, due and locked.
`GraceInv` is about the check: once the recovery query has run, whatever the check leaves
past due has paid nothing, because the rows it has written are locked. Together with the
types and the three state invariants they make `IInv`. `NextDueIsAhead` shows that a
renewal moves the due date past now and past the period it bills; `BooksBilled` and
`BooksPrepaid` show it of the two ways periods are added, `BooksKept` of everything that adds
none, and the step lemmas, one per action, need only show what becomes of the batch and the
draft. From `IInv`: `TypeCorrect`, `NoSecondOpenInvoice`, `NoPeriodBilledTwice`,
`NoPaymentOverlooked`, the action property `NoDeadSubscriptionBilled` (a theorem only: no run
checks it by name), and `CalendarImplemented`, the refinement of `BillingCalendar`. `subs`,
`invoices` and `payments` map to themselves. Whatever bills nothing is a `Pass`, a grace
check's commit and a cancellation included, because `Forward` holds of it and no invoice
comes back to unpaid (`Passes`); an invoice's cancellation is a `Void`, which takes its
periods out of what is owed or paid and touches no row of a subscription (what is paid stays
paid unless it is voided); creation, the end of a trial and a renewal are attempts
(`Attempted`) that bill one period or pass; a payment pays what was billed, or bills and pays
periods in advance that follow upon each other from the due date (`PaysPrepaid`).

`AccountsProofs`. `RequestInv` says of every request what it has established so far: `Holds`,
that it keeps the row of its key from the stamp on; `Counted`, that a revocation which has
counted leaves another key, unless the merchant's keys are being revoked under other
credentials as well; `Proven`, how far a login has got with its nonce, the signature, and the
merchant of the address. `Owners` and `SessionInv` say that whatever can authenticate
belongs to a merchant. From it: `AccountsTypeCorrect`,
`SessionsAreSigned`, `KeysOutliveRequests`, `OneKeyCannotRevokeAll`.

`DatabaseProofs` is about `Retention` and `Migrations`. For the cleaner, `Deleted` says of its
open transaction that the invoices it has deleted are over, and have no referrer but late
payments, which come only before the key check; after it there is none. From it:
`DeletedIsUnreferred` and `OpenKeepsAddress`.

For the migrations, the fifteen programs and the run that executes them are kept apart. `Fits`
says that a schema is that of a version, but for enum values, indexes and the one column that
is committed ahead of its stamp. `Shape` says of a program, one statement after the other,
that no two in a row wait for a commit, that what is committed on the way fits the old version,
that the last transaction leaves the new one, and that nothing is refused but what
`Refusals` lists; there is a lemma for every revision and direction, and `UpShapes` and
`DownShapes` collect them. The first revision, which commits only at its end, has `Baseline` in
their place. The invariant of the run, `SchemaInv`, needs no more than these: the committed
schema fits its version, and the open transaction is at most one statement ahead of it
(`Ahead`), wherever a run is cut off, refused or turned round. `UniqueInv` adds that a valid
index keeps duplicate payments out until the constraint does. From it: `SchemaKeepsUp`,
`PaymentsStayUnique`, `OthersGoThrough`. `Bare` says of a statement that rows cannot contradict it,
whatever rules they break: only the revisions in `Refusals` have others, and these are seven of
the thirty programs (`phase5a_step2`, `phase6b`, `w1_01a`, `w1_02a`, `w1_04a`, `w1_06a`, and `w1_02a`
downwards).

`IntakeProofs`. `Leases` (of the updates that have not outlasted their lease there is at most
one, and its clock and the lease agree), `OnItsWay` (a price on its way to Redis is no older
than the one there, unless one of the two updates was late), `KeyRunsOut` (the older the cached
price, the less life its key has left). From them: `RatesStayFresh`, `OneInvoicePerAddress` and
the action property `OlderPricesAreLate`. For `PriceLasts`, `SurvivalInv` says that as long as
failures are to spare, either more updates are under way that will be done before the key runs
out (`Hopes`) than may still fail, or the key outlasts the time until anybody finds no lease
(`Until`), a turn for every failure after those, and one update (`KeyOutlasts`). Its `SurvivalAssumption` does limit how slow an update may be: the key
lives longer than the turns that may fail and the one after them, each of them an interval and
a lease long, or an update if that takes longer, and one update. With the times of the code it
leaves two failures to spare while no update takes a minute, and one while none takes 160
seconds; it is no fact of the code, which has no deadline. Nothing but `PriceSurvives` needs it.

What only TLC shows: liveness (`BuriedConfirms`, `VanishedIsGivenUp`, `DueExpires`,
`EverythingSettles`, `MinedIsRecorded`, `RequestsEnd`, `OldRowsGo`), which is beyond the
prover, and the violations. Every invariant, action property and refinement of the passing
runs is a theorem.

## 5. Plan

Done: settlement, races, webhooks, cursor, subscriptions, retention, accounts, price feed
and intake, migrations, and the proofs above. Next:

1. A timed module of the rate limiter (`core/rate_limit.py`): fixed and sliding windows, a
   Redis that fails.
2. More of `Subscriptions`: two renewers at a time, prepaid periods that overlap billed
   ones (a due date of its own does not exclude it), and whether a subscription past due
   for good expires.

## 6. Not modelled, and why

- The wallet client's retries inside one call, except those of `create_address`, which make a
  subaddress each (`Intake`): the others only read, so a retry delays an answer.
- Signatures, hashes, encryption, the Tor proxy: cryptography and I/O.
- Payload builders, logging, audit rows, health metrics: write-only data.
- Licences: `check_tier_limit` is never called and refuses nothing; the rest writes one row.
- The profile and the webhook secret of a merchant: one assignment each.
- The rate limiter: one pipeline of Redis per request, independent of the rest (planned).
- Customers, analytics, exports, CLI, SDK, payment page: CRUD, read-only
  aggregation, presentation.
- Deployment files: configuration.
