# A TLA+ verification of the arvan SMS gateway

arvan accepts SMS sends over HTTP, takes their price from a prepaid account,
and delivers them in the background: the API writes the message and an outbox
event in one Postgres transaction, an outbox relay publishes the event to
RabbitMQ, and workers call the operator and record the outcome. This directory
models the parts of it in which concurrency, failure and ordering decide
whether money and messages survive.

| Module | What it is |
|---|---|
| `Worker` / `MCWorker` / `WorkerProofs` | delivery workers, their claims, the operator call, dead-lettering, process life |
| `OutboxRelay` / `MCOutboxRelay` / `OutboxRelayProofs` | outbox relays, timed row locks, publish and mark |
| `SmsSend` / `MCSmsSend` / `SmsSendProofs` | send and topup transactions, idempotency keys, cache, row locks |
| `AtomicSend` | what the API promises about money and keys; `SmsSend` implements it |
| `Pipeline` / `MCPipeline` / `PipelineProofs` | `SmsSend`, `OutboxRelay` and `Worker` put together, from the request to the final status |
| `MessageLifecycle` | what arvan promises about a message; `Pipeline` implements it |
| `Publisher` / `MCPublisher` / `PublisherProofs` | the RabbitMQ client: one channel, one mutex, one stream of confirmations |
| `Dispatch` / `MCDispatch` / `DispatchProofs` | one worker process: two consumers, two pools, the circuit breaker, the drain at shutdown |
| `RateLimiter` / `MCRateLimiter` / `RateLimiterProofs` | the sliding window in Redis |
| `Listing` / `MCListing` / `ListingProofs` | keyset pagination over the replica |

A module is checked with `tlc -config <run>.cfg <MC module>` and proved with
`tlapm <module>Proofs.tla`. `PROJECT.json` maps every definition to the lines
it models.

## 1. Inventory

**API** (`cmd/api`, `internal/handler`, `internal/middleware`,
`internal/service`). Stateless replicas behind HAProxy. A send passes token
authentication, the rate limiter and the idempotency middleware, and then runs
one transaction: placeholder row for the key, `FOR UPDATE` on the account,
deduction, ledger entry, message, outbox event, snapshot. *Hard:* two requests
with one key; two keys of one account, whose placeholders take `FOR KEY SHARE`
on the account through the foreign key before both ask for `FOR UPDATE`; an
answer lost after the commit; a cache that must agree with the table. *Correct
when:* one debit per key, answers for a key agree, the balance is the ledger's
sum, lock waits end.

**Accounts and ledger** (`internal/repository/account.go`, `ledger.go`,
`internal/service/account.go`). `Save` writes an absolute balance that was
read under a row lock. *Hard:* lost updates, int64 overflow caught only by
`CHECK (balance >= 0)`.

**Outbox relay** (`internal/outbox`, `internal/repository/outbox_relay.go`,
`cmd/outbox-relay`). Polls; claims a batch with `SKIP LOCKED` and
`locked_until`; per event checks, publishes with confirms and marks, with five
attempts. *Hard:* several relays; a crash between publish and mark; a relay
slower than its lock; a lock without an owner, which anybody's failure record
clears; a connection that is dialled once, so that a relay that loses it polls
on without being able to publish. *Correct when:* nothing is marked that RabbitMQ
does not have, relays do not work on the same event, everything is published in
the end, duplicates come only from failures.

**Worker** (`internal/worker`, `cmd/worker`). One goroutine per delivery,
bounded by a semaphore per queue. Reads the status, inserts the claim row,
calls the operator, records `sent` or `failed`, or releases the claim and
requeues; dead-letters a copy with too many attempts. *Hard:* duplicate
copies, redelivery after a crash or a lost acknowledgement, lost answers,
shutdown that cancels the context of work in flight. *Correct when:* one
operator call at a time per message, no acknowledged message is undecided,
final statuses stay and are justified by what the operator said.

**RabbitMQ client** (`internal/broker`). Two work queues and `sms.dlq`, no
dead-letter exchange; one publishing channel with one shared confirm channel
of capacity 1. *Hard:* a confirmation does not say whose it is; a caller that
stops waiting leaves one behind; the library's reader blocks when nobody takes
it; nothing reconnects. *Correct when:* `nil` means that this call's message is
in its queue, and `Publish` and `Close` return.

**Operator client** (`internal/operator`). HTTP with a timeout behind a
gobreaker circuit breaker; 4xx is permanent, everything else transient. The
mock operator is idempotent by message id. *Hard:* goroutines of both queues
race for the few calls of a half-open breaker, the rest is requeued at once;
late outcomes meet new counts.

**Bulkhead and shutdown** (`internal/worker/bulkhead.go`, `RunConsumer`,
`cmd/worker/main.go`). A semaphore per queue, released by a `defer`; at SIGTERM
main waits for consumers, then for goroutines. *Correct when:* tokens and
goroutines agree, and a drained process has nothing left in hand.

**Rate limiter** (`internal/ratelimit`). Sliding window in a Redis sorted set,
a pipeline of four commands that is not a transaction; members are nanosecond
times. *Hard:* interleaved and repeated pipelines, an undo that fails, a key that
expires between two commands. *Correct when:* the limit holds and a client
below it is never refused.

**Listings** (`ListByAccount` of messages and ledger). Keyset pages on the
replica, `created_at DESC, id DESC`.

**Without state of interest**: authentication, validation, configuration,
observability, swagger, health, seed, deployment files.

How they interact: API and relay share `outbox_events`; relay and worker share
the queues (at least once: a copy per publication); API and worker share
`sms_messages`, where the API only inserts and the worker only moves
`accepted` to a final status; workers share `processed_consumer_events` as
claims. Every hazard with its line is in `PROJECT.json`.

## 2. The models

### Worker

| State | Code |
|---|---|
| `status`, `processed` | `sms_messages.status`, rows of `processed_consumer_events` |
| `where`, `redelivered`, `dlq` | RabbitMQ: place and flag of a copy, contents of `sms.dlq` |
| `pc`, `job`, `answer` | a handler goroutine, its delivery, the operator's answer under way |
| `up`, `connected` | the process, its AMQP connection |
| `accepted`, `rejected` | what the operator has done |
| `resumed` | history: messages whose claim a goroutine has taken over (`claimResume`) |
| `attempts`, `faultsLeft` | bookkeeping of the checks |

`Receive` and `Acquire` are `RunConsumer` and the bulkhead; `ReadStatus`,
`InsertClaim`, `RereadStatus` are the statements of `claimDelivery`;
`OperatorHandles` and `CallReturns` the two ends of the HTTP call;
`ReleaseClaim`, `MarkSent`, `MarkFailed`, `DeadLetter`, `PublishDLQ` what
follows; `Ack` and `Nack` the deferred acknowledgement. `Crash`, `Stop`,
`Exit`, `LoseConnection`, `Start` are the life of a process.

Modelling decisions:

- A write may fail without effect, or be applied and still return an error.
  Once SIGTERM has cancelled the run context every call fails, and a write is
  not applied.
- A conflicting `INSERT ... ON CONFLICT DO NOTHING` waits for the other
  transaction, so insert and commit are one step.
- One instance has one queue. The express and standard queues share no message
  and no semaphore, so an instance with both is two instances side by side.
- x-death is never there: no queue has a dead-letter exchange. The attempt
  count is therefore 0 or 1.
- Each process has its own `MaxDeliveryAttempts`, read from its environment. In
  `WorkerDelivery` they differ, as during a rollout of the setting: one process
  resumes claims, the other dead-letters, on the same copies.
- Payloads come from the transaction that wrote the row, so the branches for
  an undecodable payload and a missing row cannot be reached and are left out.
- An open circuit breaker is a transient error like a 5xx or a timeout. A
  refusal (4xx) is something a real operator does; the mock does not, so the
  model's operator does both.

### OutboxRelay

`ClaimBatch` is the claim transaction (one step: SKIP LOCKED makes concurrent
claims disjoint), `CheckPublished`, `PublishEvent`, `MarkPublished`,
`VerifyMark`, `RecordFailure` the loop of `pollOnce`. Time is abstracted to
`LockExpires`; `Slow` is the set of events whose poll may outlive its lock. SIGTERM
cancels the context, after which every call fails without effect; that is what
a crash at that point leaves behind, so `Crash` is both. `retry_count` is
written and never read and is left out.

`connected` is the connection a relay has dialled at its start (`broker.Connect`
is called nowhere else). It may break during a publication or between two
(`CutOff`, `LoseConnection`); from then on every `PublishEvent` of that relay
fails, at no further cost in failures, while it goes on claiming, recording the
failure and clearing the lock, until its process is stopped. That cycle is
endless, and it can keep events from a relay that is connected: each time that
one polls, the row may be locked. `EventuallyPublished` and `AcceptedIsDecided`
therefore excuse the states with a cut-off relay that is still up (`CutOffRelay`),
and no other failure; without the excuse TLC shows the cycle. An event that is
pending when the cut-off relay is stopped must be published after all.

### SmsSend and AtomicSend

One process per request. A step is a statement that others can observe or wait
for; the writes of a transaction become visible with its commit. `Blockers`
gives the row locks of Postgres that a statement waits for, `Deadlocked` and
`AbortVictim` its deadlock detector. `Arrive`, `LookupCache`, `LookupDB` are
the middleware, `ClaimKey`, `ReadRow` are `ClaimOrGet`, `ShareAccount` the
foreign key, `LockAccount` to `WriteRows` the rest of the transaction,
`SetCache` the write to Redis. A topup enters at `LockAccount`. The 409 branch
is kept (`Placeholder`), although `AnswersJustified` proves it is never taken.

`AtomicSend` has no statements, locks or cache: a request takes effect at
once, within the limits of the balance and with an unused key, and an answer
must be true. `ImplementsAtomicSend` maps an answer to the point where the
request is done.

### Listing

`Request` is the handler's parsing, `ResolveCursor` and `QueryPage` the two
statements of `ListByAccount`, `Appear` a row reaching the replica with any
`created_at`: the inserting process takes it from its clock before it commits.
The replica only ever gains rows. A failed read changes nothing and the client
asks again; it is left out.

### Pipeline and MessageLifecycle

`Pipeline` instantiates `SmsSend`, `OutboxRelay` and `Worker` over one set of
variables and joins the steps in which they meet. The commit of a send
(`CommitRows`) is `OutboxRelay`'s `Create`; a copy that a relay's step gets
enqueued (`EnqueueCopies`) is `Worker`'s `Publish`, the n-th publication of an
event being the copy `<<send, n>>`; the rows the worker updates are those of the
committed sends. All other steps belong to one part and leave the others alone.
Each part keeps its own failures. A send's event has a place in the order of
`created_at`; a commit may come after that of a later one.

`MessageLifecycle` knows messages only: accepted, handled by the operator,
presumed to be taken, decided once, set aside in sms.dlq. `ImplementsLifecycle`
says that everything the three processes do is one of these steps or leaves the
message as it was. `Presume` is what a goroutine does that takes over a claim: it
is where the code gives up that `sent` is the operator's word (section 6), and
the refinement says that it gives it up nowhere else: no `failed` without a
refusal, no `sent` without an acceptance or a presumption, no call after an
answer that is more than a presumption.

### Publisher

A call goes through `Lock`, `Check`, `Publish` and one of `TakeConfirm`,
`StreamEnds`, `StopWaiting`. Frames are sequences: `wire` to the broker,
`inbound` back, `confirms` the Go channel that `NotifyPublish` fills. `Broker`
enqueues and confirms, or refuses, and confirms what it drops for want of the
queue; `Reader` is the library's; `Lose` cuts the connection. The callers share
the run context, as the relay's loop and the worker's goroutines do: that is
why a confirmation that was not waited for finds nobody to deceive, and the
model shows that nothing else prevents it (a caller with a deadline of its own
breaks `NilMeansEnqueued`).

### Dispatch

What `Worker` abstracts from: two queues with a consumer, a prefetch count and a
semaphore each, `Acquire` and `Release` token by token, and gobreaker with its
generations as far as the settings in `cmd/worker` use it. `HalfOpen` is the
timeout as the next call or `reportCircuitBreakerState` finds it. A 4xx and a
cancelled context are failures to the breaker, as in the code. The counts of a
closed breaker that nobody reads are left out, the database is `Worker`'s, and
so is the shutdown timeout (`Exit`). `LoseConnection` closes the channels of both
consumers: `RunConsumer` returns, the goroutines run on and their answers have
no effect, and the process stays up without consuming. What becomes of the copies
that RabbitMQ has got back is the matter of the other processes, in `Worker`.

### RateLimiter

One account (accounts share no key) and one process per request: `Trim`, `Add`,
`Expire`, `Count` are the pipeline, `Undo` and `Oldest` what follows a refusal,
`GiveUp` an error of `Exec` after which Redis may still execute the rest,
`Resend` the retry of the Redis client. Time is a clock all replicas share; skew
between replicas is left out, and so is the rounding of nanoseconds to the
float64 of a score.

Two ways past the limit are in the code and in the model, and `WithinLimit`
counts out exactly these: requests with the same time share a member
(`Twin`), and a key that expires between a request's ZADD and its EXPIRE takes
the entry along (`dropped`). In the other direction the limiter is stricter than
a window: two concurrent requests can both be refused with one place left, and a
request whose undo is cancelled goes on counting. `RefusedMeansBusy` therefore
counts attempts, not admissions.

## 3. What the runs check

| Run | Shows | Bounds |
|---|---|---|
| `WorkerDelivery` | claim excludes a second operator call; acknowledged means decided; `failed` means refused; `sent` means accepted, or a claim was taken over after a failure or a second publication; no call after a recorded answer but for such a message; a decision is final; every queued copy leads to one | 2 processes (one unstable) with 3 goroutines, 2 copies of 1 message, a limit of 2 attempts on one process and of 1 on the other, 2 failures of any class; 404 thousand states |
| `PipelineDelivery` | a committed message is always in somebody's hands (a pending event, a queued copy, a goroutine with a live connection) or decided; nothing is delivered that its account was not charged for; sms.dlq after the decision; without a failure `sent` means accepted; the whole implements `MessageLifecycle`; a 202 leads to a decision unless a cut-off relay polls on | 1 keyed send, 2 relays and 2 workers (one of each unstable), 2 publications, limits of 2 and 1, 1 failure per part; 741 thousand states |
| `RelayOutbox` | nothing marked without a copy, everything published unless a cut-off relay polls on, disjoint batches, extra copies paid for by failures | 2 relays (one unstable), 3 events of which one outlives its locks, batches of 2, 3 failures; 474 thousand states |
| `SendRequests` | one debit per key, agreeing answers, no refused duplicate, explained errors, balance equals ledger, overflow refused, refinement of `AtomicSend`, requests end | 4 sends and a topup, 2 accounts (rich and empty), 2 keys, 1 failure |
| `ListingWalk` | no duplicate, no omission, termination | 4 rows, 2 times, page sizes 1 to 3 |
| `LimiterWindow` | limit, justified refusals, Retry-After | 3 requests, limit 1, window 3 and second 2 of 6 ticks, 1 failure |
| `PublisherShared` | `nil` is true, nobody waits for a confirmation that is lost or taken, the reader never blocks, `Publish` and `Close` return | 3 calls, 3 queues, 2 failures |
| `DispatchFlow` | exact pools, bounded trials and never a half-open breaker without one to decide it, complete drain, everything settled unless the process is stopped or cut off | 2 queues with pools of 1, 3 messages (one refused), prefetch 2, breaker of 2 failures and 1 trial, 2 failures |
| `WorkerDuplicateSent`, `WorkerAttempts`, `RelayRepublish`, `SendInFlight` | the disagreements of section 6 | as small as the case allows |

Why the bounds are enough to be interesting: every race is between two copies,
two relays, two callers or two requests, so two actors with a bystander show it;
two copies of one message exercise everything two messages do, because messages
share nothing but the slots and the breaker of `DispatchFlow`; the numbers of
failures allow for one failure and one during its recovery. In
`PipelineDelivery` each part fails once, so that up to three failures meet. A limit
of 2 attempts stands for every limit above 1, also for the default of 5: the code's
count of attempts is 0 or 1 (section 6), so all of them let every copy through,
and a copy that meets a claim takes it over. The other process has the limit 1
and dead-letters the same copies, as in a rollout of the setting. SIGTERM in the
midst of a delivery is in `WorkerDelivery`; in `PipelineDelivery`, for its size,
it only ends a worker that has lost its connection. The
limiter's clock runs past one window and a lifetime of the key. `MaxFaults`
bounds the failures of a behaviour, `MaxClock` the limiter's time; `MaxCopies`
and the highest limit of attempts cap counters that only bookkeeping reads. In
`LimiterWindow`, which checks invariants only, requests are symmetric. The
proofs have none of these bounds.

`TypeOK` is checked by the run of `SmsSend`, where it says that the balance stays
within its column although the addition wraps; for every module it is proved.

Deadlock is checked where each module has an explicit stuttering step for the
states in which everything is done. `PublisherShared` and `DispatchFlow` end with
their process (after `Close`, after a failed `Connect`, after the drain) and are
checked without; `PublishReturns`, `CloseReturns` and `EverySettled` say what
must not get stuck there.

## 4. Fairness

- Handlers, relays and requests are weakly fair: goroutines are scheduled and
  every call returns (HTTP timeout, statement errors, context cancellation).
- `Exit` is weakly fair: the shutdown timeout ends a stopping process.
- `LockExpires` is weakly fair: the lock is a point in time.
- `Start` is not fair. Compose has no restart policy, and a worker that has
  lost its connection stays up without consuming until it is stopped. The
  liveness runs therefore assume one worker (relay) that is stable; with only
  unstable ones, eventual delivery is not to be had from this code. A stable relay
  beside one that is cut off is not enough either, since the two compete for the
  rows (section 2, OutboxRelay).
- In `SmsSend` the fairness is joint: some request that can step does. Its
  `EveryRequestEnds` therefore needs no scheduler that is fair to each waiter of
  a row lock.
- In `Publisher` Go's mutex does not starve a waiter, and a broker answers on an
  open channel (heartbeats close a dead one).
- In `Dispatch` the breaker's timeout passes and an operator that is down comes
  back. `Signal` is not fair.
- `Pipeline` has the fairness of its relays and workers; requests need none,
  since the property starts with an answer.
- Failures are finitely many. A database that fails for ever delivers nothing.
- In `Listing` the client goes on asking while it gets a cursor.

## 5. What is proved

For every number of messages, copies, processes, events, requests, rows and
failures, from the assumptions on the constants alone (types, a positive pool,
batch and page size):

- **Worker**: `TypeOK`; `OperatorCallExclusive`, `AckedMeansDecided`,
  `FailedMeansRejected`, `DLQAfterDecision`; `DecisionIsFinal`. The invariant is
  `Safety`: alone, none of the four survives a step, since a handler's right to
  its next step is recorded nowhere but in its control point.
  `PointsJustified` states it: who calls owns the claim, who is about to
  acknowledge has seen a final status, who marks a failure has seen a refusal.
  `UnackedIsHeld` is inductive by itself: what RabbitMQ counts as unacknowledged
  is exactly what one goroutine has in hand over a live connection, through
  crashes, shutdowns and lost connections.
- **Worker, `sent`**: `SentIsExplained` and `NoCallAfterAnswer`, at any limit on the
  attempts. `ClaimOwned` is the half about claims: who has inserted the claim of
  a message works on it alone until its answer is recorded, but for those who
  have taken it over, and once `failed` or a founded `sent` is recorded, the
  claim row stays (`Settled`), which is what keeps a late insert from calling.
  `Calm` is the half about history: while nothing has failed and one copy is all
  there is, no redelivered flag is set, and the claim row is only there when the
  copy's own goroutine has inserted it, so nobody finds a claim to take over.
- **OutboxRelay**: `TypeOK`, `PublishedMeansEnqueued`, `ExclusiveClaim` with
  `BatchJustified` (an event in a batch is locked or published), and
  `CopiesArePaidFor` with `CopyAccount`: an event has at most one copy that no
  failure has paid for, and while it has one, it is published or at its first
  attempt to be marked. `CutOffPaid` adds that a relay that is cut off while it
  marks has paid for its copy with the connection, so that stopping it may be free.
- **SmsSend**: types (the wrapping addition stays within the column), `Safety`
  = what the locks exclude, what keys determine, what answers rest on, and from
  it `SingleDebitPerKey`, `AnswersAgree`, `DuplicateNotRefused` and
  **`Refinement`: `Spec => ImplementsAtomicSend`**.
  - `BalanceMatchesLedger`: a balance under an update lock is still the one that
    was read, so a commit adds to it what it adds to the ledger
    (`CommitEffect`). What the sum `Total` of the ledger is, is proved from the
    fold it is defined by: the function exists and is unique on every finite set
    (`SumExists`, `SumUnique`), and any element can be taken out first
    (`TotalRemove`). The induction is over the subsets of a fixed finite set,
    which the library states for a set of subsets and not for an operator.
  - `ErrorsExplained`: who stands in a circle of waiters holds a key and wants
    its account (`DeadlockShape`), and a circle of one key would be a circle of
    one; a topup fails only if the topups of its account, the committed ones and
    itself, exceed BIGINT (`TotalOfTopups`: sends only take away).
  - `NoRequestGoesBack`: every step of a request brings it nearer its end, which
    is the safety kernel of `EveryRequestEnds`.
- **Pipeline**: each part behaves as its own module says (`APIImplemented`,
  `OutboxImplemented`, `DeliveryImplemented`), so their theorems hold in the
  whole. What is new is `PartsAgree`: a send is committed exactly if its event
  exists, the copies at the broker are those the relay has counted, a goroutine
  at work has a published copy. From it and the parts' invariants follow
  `OnlyPaidDelivered` (the number of an account's queued messages is bounded by
  what has been taken from it: `BalanceMatchesLedger` and `TotalOfSends`),
  `NothingIsLost` (an event that is published has a copy, and with
  `UnackedIsHeld` and `AckedMeansDecided` a copy is queued, held or its message
  decided), `FailureFreeSentIsAccepted` (`SentIsExplained` and `CopiesArePaidFor`:
  a second copy of a message takes a failure of a relay) and
  **`LifecycleImplemented`: `Spec => ImplementsLifecycle`**, the latter from
  `ClaimOwned`. None of them depends on the limits on the attempts.
- **RateLimiter**: types, `WithinLimit` and `RefusedMeansBusy`, from `EntriesKept`
  (an entry that counts stays until it has left the window, and so does the
  key) and `EntriesJustified` (every entry is some attempt's). The step from
  entries to numbers is an injection between finite sets. `RetryAfterInRange`
  rests on monotony of the rounding up, a fact about division that is proved
  from its definition.
- **Publisher**: types, `NilMeansEnqueued` and `ReaderNeverBlocks`, from
  `AtMostOne` (message or confirmation under way), `OwnAnswer` and
  `NothingLeftOver` (between calls nothing is under way until the context is
  cancelled, and from then on nobody publishes). `WaitersAreAnswered` is the
  converse: on an open channel a waiting call's message or confirmation is under
  way, so the wait ends if broker and library do their steps.
- **Dispatch**: types, `PoolsExact`, `DrainedMeansDone` from `DrainInOrder`, and
  `TrialsBounded` from `TrialsCounted`: a half-open breaker's count of requests
  is exactly the calls of its generation under way and those that have succeeded,
  and fewer than `MaxRequests` have. A breaker that refuses therefore still has
  a call whose end closes or opens it.
- **Listing**: types, `NoDuplicates`, `WalkIsComplete` with `WalkJustified`
  (given out at or above the cursor, missing below it). The least row of a page
  exists by two applications of well-foundedness: the least time, then the
  least id. `PagesAreNew`: a page with a cursor for the next adds exactly
  `limit` new rows to what the client has, so the walk is no longer than the
  listing.

Only model-checked: the liveness properties `EventuallyDecided`,
`AcceptedIsDecided`, `EventuallyPublished`, `EveryRequestEnds`, `WalkEnds`,
`PublishReturns`, `CloseReturns`, `EverySettled`. Their step from "somebody can
go on, and every step brings it nearer" to "it ends" needs fairness and
ENABLED, which the provers do not have. What they rest on at each state is
proved where it could go wrong: `NoRequestGoesBack`,
`WaitersAreAnswered` and `ReaderNeverBlocks`, `NothingIsLost` and
`UnackedIsHeld`, `TrialsBounded`, `PagesAreNew`. Every other property that a
passing run checks is a theorem too.

## 6. Where code and documents disagree

1. `WorkerDuplicateSent`: a redelivered copy may resume a claim that another
   copy holds and record `sent` during the other's operator call. If that call
   fails, the message is lost although it says `sent`. Other ways to the same
   resume: SIGTERM during the operator call, where the release of the claim
   fails because its context is cancelled; an error of `markFailed` after a
   4xx; a crash after the claim and before the call. A second race of
   `claimDelivery` has no run of its own: a goroutine that has read `accepted`
   and inserts its claim only after another copy has decided the message and a
   third has given back the claim row does not read the status again, and calls
   the operator for a decided message. It takes three goroutines; the message can
   be a dead-lettered one, or one that was marked `sent` by taking over its claim
   (`NoCallAfterAnswer` leaves out these two and proves that there is no other),
   while SUBMISSION_EN.md:123 says "Duplicate deliveries are acked without double
   operator calls."
2. `WorkerAttempts`: x-death is never written, so the attempt count stays at
   most 1 and no copy is dead-lettered for any setting above 1.
3. `RelayRepublish`: when the mark fails for good, the next poll publishes again.
4. `SendInFlight`: an in-flight duplicate waits and is answered 202, not 409.

## 7. Plan and what is not modelled

Done: all components in which steps of several actors meet, their composition,
two abstract specifications with proved refinements, and proofs of the safety
of every module.

Left:

1. `EnsureBalance` and `UpsertByTokenHash` of the seed: a read and a write in two
   transactions, which two seeds at once would interleave. Both belong to a tool
   that a developer runs by hand.
2. The mock operator's own race (`Load` before `Store` for one message). In
   production the operator is somebody else's.
3. State-level theorems under the two liveness properties that have none yet:
   that an unpublished event is in the batch of a live relay, or may be claimed,
   or has a lock that runs out (`EventuallyPublished`); and that the library's
   reader and `Close` never wait for each other (`CloseReturns`).

Not modelled: authentication (a lookup by hash and nothing else), validation of
numbers and texts (pure functions of one argument, without state), API routing
and health, configuration, observability, swagger and deployment, which keep no
state that steps of others could disturb. gobreaker, Postgres, RabbitMQ, Redis
and their client libraries are modelled as far as the code relies on them and
marked external.

Abstractions to know of. The operator handles a request before the call to it
returns or not at all; a request that arrives after its client's timeout is left
to the operator's idempotency. Read-only endpoints (`GET` of a message, of the
balance) change nothing and are left out. The AMQP channel of a consumer and
that of `Publish` share the fate of their connection.
