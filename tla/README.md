# A TLA+ project for the job gateway

The repository is an HTTP gateway written with NestJS over PostgreSQL. A client
with an API key posts an image job; the gateway charges one credit, takes one of
the concurrent slots of the client's plan, hands the job to a processing service
(a mock, in the same process), learns the outcome by an internal callback, and
tells the client with a signed webhook. This directory models that program in
TLA+, checks it with TLC on small instances and proves the central results with
TLAPS for every instance.

File names below are relative to `src/src/app` of the repository unless they
start with `common`, `config` or `database` (then to `src/src`).

## 1. The system

### Components

| component | state it keeps | operations | promise |
|---|---|---|---|
| **Job creation** `jobs/services`, `jobs/repositories` | table `jobs`; the position of each `createJob` between its awaits | validate two URLs; transaction: lock the user's row, count active jobs, check credits, deduct, insert; dispatch; on failure refund and mark, in parallel | never more active jobs than the plan allows; one credit per job; a job that could not be dispatched is undone; the answer tells the truth |
| **User credits** `users` | table `users` (`credits`, `plan`) | `refundCredit` (the deduction is a statement of the job transaction) | no credit is created or destroyed |
| **Mock dispatcher** `dispacher` | timers in memory | reject, or arm a timer; draw an outcome; POST one callback | at most one callback per job, and none for a job it rejected |
| **Internal callback** `callback`, `common/guards` | position of each callback; the webhook it started | guard, find the job, update it, start the webhook without waiting | the webhook reports what the row holds; without the secret nothing changes |
| **Idempotency** `idempotency`, `common/interceptors` | table `idempotency_keys`, unique on (user, key), rows expire after 24 h | look up, replay or refuse, run the handler, insert its response | one key, one job, one response |
| **Webhook delivery** `webhook`, `common/http` | the retry loop: attempt, sleep, timestamp | sign once, post up to three times | at most three posts, only after 5xx or network errors; the result says what happened |
| **API keys** `auth`, `common/guards/api-key.guard.ts` | table `api_keys` (`is_active`, `deleted_at`, `webhook_secret`) | look a token up by its hash; find a user's webhook secret | only holders of an active key are served |
| **Job status** `jobs/controller` | none | read a row by id and owner, render it | only the owner reads it, and only what was reported |
| **URL validation** `common/validators`, `jobs/dto` | the two calls in flight | parse, check protocol and host, resolve, refuse private ranges; two URLs at once | a job only for hosts found public; nobody refused for a public address |
| **Connection pool** `database/database.module.ts` | connections in use | take one per transaction or statement, give it back | nobody waits for ever |
| **Configuration** `config` | environment variables | optional secret, read by sender and guard | both sides read one value |
| **Schema and seeders** `database` | tables, indexes, seeded rows | none at run time | the unique index; seeded active jobs hold slots |
| **Exception filter** `common/filters` | none | exception to status code | the code of each answer |

Logging, the health route, Swagger, bootstrap and module wiring hold no state
whose order of changes could matter, and are not modelled. `PROJECT.json` lists
all of it under `components`.

### How they interact

```
client ──POST──> guard ─> interceptor ──> createJob ──tx──> users, jobs
                             │  ^             │
                      idempotency_keys     dispatch ─> timer ─> POST callback
                                              │ rejects            │ guard
                                     refund ∥ mark failed          v
                                        │     │             jobs (update by id)
                                     users   jobs                  │ not awaited
client <──webhook, up to 3 posts── secret lookup (api_keys) <──────┘
client ──GET──> guard ─> jobs (by id and owner)
```

Everything runs on one event loop: between two awaits nothing else runs, at an
await anything may. The tables are shared state; PostgreSQL is READ COMMITTED and
only one statement takes a row lock on purpose (`lockUserRow`, FOR UPDATE), while
every UPDATE of `users` waits for that lock. The timer of the mock and the
webhook are promises or callbacks that nobody awaits.

### What is hard about it

* **Interleaving.** Two requests of one user between count, check and insert; two
  requests with one idempotency key between lookup and insert; callbacks that
  overlap, repeat or contradict each other.
* **Partial failure.** The refund and the mark of a failed dispatch are two
  statements on two connections under `Promise.all`, which rejects without waiting
  for the other one. A statement may take effect although its reply is lost.
* **Restart.** Timers, promises and deliveries are in memory; what PostgreSQL
  already holds may still be executed after the process is gone. A failed lookup
  of the webhook secret is an unhandled rejection, which ends the process.
* **Stale reads.** `user.credits` read under the lock and used after another
  await; an expired row that the lookup does not see and the unique index does;
  the secret and its default; a signature repeated by later attempts.
* **Liveness.** A transaction that never ended would block every request and
  refund of its user.
* **Shared connections.** Transactions that wait for one row hold a connection each;
  the pool has no timeout, so one statement outside of its transaction's connection
  would be enough for everybody to wait for ever.
* **Retries.** A client that repeats a key after a 500, or after a restart, cannot
  know whether the first request was charged: job and response are stored in two
  transactions.
* **Edges.** Address ranges are written as patterns over decimal text.

`PROJECT.json` lists each of them under `hazards` with the line where it bites
and the properties that would notice, or the reason why none does.

## 2. The modules

| module | models | extends / instantiates |
|---|---|---|
| `CreditLedger` | what the gateway promises about money and slots, every operation atomic | |
| `CreditLedgerProofs` | its theorems | `CreditLedger` |
| `JobLifecycle` | `createJob`, its transaction, dispatch, compensation, the mock, the callback, start and end of the webhook, faults and restarts | `Ledger == INSTANCE CreditLedger` |
| `JobLifecycleProofs` | its inductive invariant, its safety theorems, that it implements the ledger, and what it inherits | `JobLifecycle`, `Books == INSTANCE CreditLedgerProofs` |
| `IdempotentService` | what POST /v1/jobs promises to clients with a key, every request served in one step | |
| `Idempotency` | interceptor, service and table around a handler | `Service == INSTANCE IdempotentService` |
| `IdempotencyProofs` | its theorems, for any clients and for those that wait for their answers; that it implements the service | `Idempotency` |
| `Gateway` | POST /v1/jobs as its client sees it: the interceptor around `createJob` | `JobLifecycle`, `Idem == INSTANCE Idempotency` |
| `GatewayProofs` | that the composition implements `Idempotency`, what it inherits from both parts, and what repeating a key costs | `Gateway`, `JobLifecycleProofs`, `Cache == INSTANCE IdempotencyProofs` |
| `ConnectionPool` | the lifecycle with the connections its statements share | `JobLifecycle` |
| `ConnectionPoolProofs` | that it only delays the lifecycle, and what becomes of its connections | `ConnectionPool`, `JobLifecycleProofs` |
| `UrlValidation` | the two URLs of a request: DTO protocols, `validateUrl` twice under `Promise.all`, the patterns | |
| `UrlValidationProofs` | its inductive invariant and safety theorems | `UrlValidation` |
| `JobResults` | callbacks of any caller, API keys, webhook secrets, reads of a job | |
| `JobResultsProofs` | its inductive invariant and safety theorems | `JobResults` |
| `WebhookDelivery` | one delivery: signature, retry loop, sleeps, result | |
| `WebhookDeliveryProofs` | its inductive invariants and safety theorems | `WebhookDelivery` |
| `MC*` | small instances for TLC | the module of the same name |

Definitions have the names of the code where there is one (`LockUserRow`,
`FindJob`, `hashRequestBody`, `GuardSecret`, `buildStatusResponse`). Operators
commented "Mutant:" are variants with a plausible bug; no action uses them. They
document for each property a change of the code that the property would catch.

### JobLifecycle

The tables are `credits` (users), `status` and `errorCode` (jobs) and `lock` (who
holds the row of each user). A job is named by the request that inserts it, since
a request inserts at most one row under a fresh uuid. The process is, for each
request, `pc` (the await its handler is at), `seen` (`user.credits` as read under
the lock), `response`, and the promises and timers it left running: `refund`,
`mark`, `work` with `verdict`, `webhook`. `envSecret` is the environment variable.

| code | actions |
|---|---|
| arrival, `validateUrl` twice | `ValidateUrls` |
| `lockUserRow` | `LockUserRow`, waits while another transaction holds the row |
| count, two comparisons, early returns | `CheckLimits`: 429, 402 or on |
| `deductCredit`, `createJobRecord`, COMMIT | `CommitJob`; `CommitReplyLost` when only the reply is lost |
| any statement that throws | `TransactionFails`: rollback, 500 |
| `dispatch` resolves / rejects | `DispatchJob` (202) / `DispatchRejected` |
| `refundCredit`, `update` under `Promise.all` | `RefundCredit`, `RefundFails`, `MarkFailed`, `MarkFails` |
| `Promise.all` and the throw after it | `AnswerDispatchFailure`: 503 or, early, 500 |
| timer, POST, its loss | `TimerFires`, `CallbackLost` |
| `InternalCallbackGuard` | `CanActivate`, `RejectCallback` |
| `handleCallback` | `FindJob`, `UpdateJob`, `CallbackFails` |
| `deliverWebhook` | `LookupSecret`, `FinishDelivery`, `LookupSecretFails` |
| process ends, Docker restarts it | `Crash` |

The deduction and the insert are one step with COMMIT: other transactions see
neither before, and the only readers of uncommitted rows are statements of the same
transaction. `Die` lets PostgreSQL execute any subset of the refunds that wait
for a row lock, after the process that sent them is gone.

### Idempotency

A key is a (user, key) pair; `savedBy` is the table (a row is known by the request
whose response it stores), `active` the rows not yet expired. `FindExisting`,
`HandlerAccepts`/`HandlerRefuses`/`HandlerBreaks` and `Save` are the three awaits of
`intercept`. `Save` is a plain INSERT that the unique index refuses when any row
exists, expired or not, and so does the column when the key is too long
(`LongKeys`); the interceptor swallows both. `hashRequestBody` is
modelled by what `JSON.stringify` with a list of names keeps: the list filters
nested objects as well. `overlap` says whether clients may repeat a key before it
is answered, so that the same run also shows what a careful client may rely on.
`keyOf`, which requests carry which key, is chosen in `Init`. An error of the handler
after its COMMIT leaves it open whether a job exists (`HandlerBreaks`), and so does a
restart in the middle of it (`Crash`).

`Body` is what the client has sent, not what a DTO made of it: the interceptor runs
before the ValidationPipe, so it looks up, and replays, bodies that the handler would
refuse (`Complete` is a guard of the handler's actions only). That matters for the rows
of the seeder (`SeedRow`, active under `SeedKeys`, expired under `SeedExpired`): the
hash they store is that of a body with an `imageUrl` alone (`SeedBody`). Who sends that
body under such a key is answered with the stored 201 and a job id that is no row of
`jobs`, in place of a 400; `RepliesAreFaithful` says that this is the only answer of
its kind.

### IdempotentService

The promise without the awaits: `Serve(r)` creates a job and keeps its answer, repeats
the answer of the key, refuses, or breaks, in one step. What may go wrong is part of
it, each time with its reason: `MayRun` lets a key that has an answer be looked into
only if clients do not wait (`overlap`), `MayCreate` lets no `Invalid` body create a job,
forgetting an answer takes a fault
(`CreateAndForget`), and so does losing a request (`Lose`). `Idempotency` implements it
under this mapping:

| service | interceptor |
|---|---|
| `first`, `live` | `savedBy`, `active` |
| `made` | `Settled`: jobs of requests that are past the save |
| `fate` | `Fate`: "open" until the request is answered or lost |
| `code`, `reply`, `faults`, `expiries` | the same |

`Invalid` are the incomplete bodies, `Digest` and `SeedDigest` the hashes. A request
counts as served in the step that answers it: `FindExisting` on a hit,
`HandlerAccepts` without key, `HandlerRefuses`, `HandlerBreaks`, `Save`, `SaveFails`. A
job counts as created in that step too, since before it only a restart could tell; a
`Crash` is `Lose`, with the jobs that were about to be saved. Arrivals, misses and the
end of the handler are stutters. `ImplementsService` therefore says that whatever
overlaps, a client can tell the interceptor from an atomic one only by jobs too many
under a key it did not wait for.

### Gateway

`JobLifecycle` and `Idempotency` side by side: `stage` is the interceptor's position,
and while it is "handler" the request takes the steps of `createJob`. When one of
them gives `response` a value, `Return` goes on with the interceptor in the same
step, as the event loop does: a 202 under a key is saved first, anything else is sent.
`Before` and `After` are the actions of `Idempotency` themselves (`Idem!...`); what
the composition adds to them is that the INSERT waits for the row of its user,
which its foreign key shares with `lockUserRow`. `Background` is what `createJob`
leaves running, and `Restart` ends both modules at once.

`Idem` maps the handler's outcome to `Accepted`, the requests that createJob has ended
with a job that is, or after a 500 or a restart may be, charged. ValidationPipe stands
between the two parts: `CreateJob` lets an incomplete body end with a 400 only. `ImplementsIdempotency` says that
the composition takes only steps of `Idempotency` under this mapping: the
abstraction of the handler there allows all that createJob does, its faults
included, which are `FaultElsewhere` when the interceptor does not see them.
`RowHoldersGoOn` is about the wait of the INSERT: whoever has the row is inside its
transaction, not at an INSERT of its own. `EveryoneIsServedAtRest` is what a client may
expect once everything has ended and nothing has failed: an answer, a job for
each credit, a result for each job.

### ConnectionPool

`held` is the set of uses of the pool's connections. `BeginTransaction` takes one
before BEGIN and `RunTransaction` needs it for every statement up to COMMIT,
ROLLBACK or a refusal, which give it back. A refund has one while it waits for the
row. Every other statement waits for nothing but a connection, so it takes and
returns one within its step (`RunStatement`). After a restart the new process has
a fresh pool, while refunds that PostgreSQL still holds for the old one are
`orphans`. All state changes are those of `JobLifecycle`; the module only delays them.

### UrlValidation

A URL is what the checks look at: protocol, whether `new URL` accepts it, whether its
host is on the list. `EarlyRefusal` is the synchronous part of `validateUrl`, `Lookup`
its await and the patterns, `Settle` the `Promise.all` of `createJob`. An address is
its first two octets: `PRIVATE_RANGES` looks at no more of the text. The second octet
of 172 is matched by its digits, as the pattern does, and compared with blocks of
numbers (`Reserved`), which is the reference. The statements are about IPv4; any
other address is one that the patterns do not look at, and the model says so.

### JobResults

`JobLifecycle` has the single callback of the mock. Here any processing service may
call with any body the DTO accepts, about any job, any number of times; an `error`
is `NoError` or a record whose members the DTO does not look at. The dates of a row are
represented by the callback that wrote them, so that a property can say which
callback a column comes from. `WriteResult` leaves columns alone for which the
code passes `undefined`, as TypeORM does; values longer than their column are
refused by PostgreSQL (`UpdateRefused`), and so are ids that are no uuid, which
nothing checks before (`FindsNothing`, `GetJob`).

`Payload` is the body of the webhook, which is built from the callback with defaults of
its own, not from the row, and the two do not say the same: for each empty member of an
error the row gets a default (`Code`, `Message`), while the webhook passes an error on
as it is; without error the row says "Processing failed without details" and the webhook
"Processing failed"; and each has its own reading of the clock, that of the webhook left
out. `DuplicatesAreHarmless` says in what they do agree. `Eligible` is the query for the webhook
secret: `is_active`, whether deleted or not, unlike the guard's query.

### WebhookDelivery

One delivery against an endpoint that may do anything: answer 2xx, 4xx, 5xx,
fail, or process the body without its answer arriving. "4xx" stands for every final
status that is no success, 3xx included. That a 2xx means the body was processed is an
assumption on the endpoint, which redirects, followed by `fetch`, could break. `age`
counts the seconds since the signature, which no retry renews.

## 3. What is checked

| run | states | what it shows |
|---|---|---|
| `lifecycle_safety` | 207,760 | limit, balance, truthful answers, webhook and row, final rows, guard; a gateway at rest without faults owes nothing; every step implements the ledger |
| `lifecycle_liveness` | 57,392 | on a pool of two connections: none leaks, the pool never wedges, no request hangs whatever fails; without faults jobs settle and failed dispatches are undone; the fairness assumed of the lifecycle holds |
| `idempotency_safety` | 1,175,165 | replies are faithful, replays agree until a key expires, sequential clients get one job per key and are told of one more per fault at most; every behaviour is one of `IdempotentService` |
| `gateway` | 660,022 | a client that repeats one key until it is answered pays for one job, and one more per fault; answers are true of the ledger; no circle of waits around a row; at rest without faults everyone was served; the composition implements `Idempotency` |
| `url_validation` | 217,006 | a job needs two URLs found public; the patterns match exactly the blocks they stand for; there is an answer |
| `job_results` | 503,134 | reads show what was reported, never parts of two outcomes; while callbacks repeat one body, row and webhook agree but for what it leaves empty; signing keys |
| `webhook_delivery` | 2,696 | the result is accurate, the signature's age is bounded |
| `partial_refund` | violation | one database error leaves a failed dispatch half undone for ever |
| `unset_secret` | violation | with the optional secret unset no job ever settles |
| `idempotency_overlap` | violation | two overlapping requests with one key create two jobs |
| `idempotency_expiry` | violation | after 24 hours a key never protects a request again |
| `idempotency_options` | violation | bodies that differ in an option have one hash |

The five violations are disagreements between the code and a comment or document of
the repository; `PROJECT.json` quotes each under `findings`. (A sixth needs no run: README.md:162
announces waits of 1, 2 and 4 seconds, and the loop has three attempts and so two
waits, `Delay(1)` and `Delay(2)`.)

### Bounds, and why they are enough

* **Lifecycle.** Three requests, two users. `pro` has two slots of which a seeded
  job, which nothing finishes, holds one; it has one credit and two requests, so both
  the last slot and the last credit are contended. `basic` has one slot and shows
  that users do not disturb each other. Two faults of any kind: two are needed for
  a lost reply followed by a crash, or for both halves of a compensation to fail.
  The secret is set or unset.
* **Pool.** The same instance with two connections: the two requests of `pro` can hold
  both, one of them waiting for the row, while `basic` has a request, a callback or a
  compensation to run; with more connections than transactions nobody would wait.
  One fault, since the properties about undisturbed runs speak of none and
  termination needs to survive one at any point.
* **Idempotency.** Five requests under one key: two may race to create a job, two
  may replay, one carries another body; the first four are symmetric (`Twins`). The
  sixth has the incomplete body of the seeder, under the seeder's active key, under the
  common one or under none, while the fifth has in turn the common key, one too
  long for its column, none, or one of the seeder's two. Refusals are 400 and 429, the
  one an incomplete body gets and one it does not. One fault and one expiry. Keys do
  not interact, so one that fits is enough.
* **Gateway.** Three requests of one user under one key, or two with and one without;
  three credits, so that each can be charged, and two slots, so that the third may be
  refused. One fault and one expiry: enough for a lost answer followed by a retry
  and a replay. `Idempotency` has larger numbers, seeded keys and incomplete bodies,
  which this run has not (the theorems have); here the handler is the real one.
* **URLs.** The octets at both edges of every block, and those whose decimal text
  begins like one of them (100 like 10, 160 like 16), in both URLs at once.
* **Results.** Seven bodies of which any three arrive: enough for a URL of an earlier
  success to outlive a failure and be shown by a later success without URL. One user
  has a key without secret. Equal
  callbacks are symmetric (`Twins`), since no property distinguishes them. One read,
  one change of a key, one fault.
* **Delivery.** The constants of the code: three attempts, 1 s, 10 s.

`MaxFaults`, `MaxExpiries`, `MaxCalls`, `MaxKeyChanges` and `PoolSize` are the only bounds on
behaviour. `CHECK_DEADLOCK` is never switched off: each module has a `Quiescent`
(`Rest`, `Done`) step that is enabled only when nothing is left to do.

### Fairness

`FairSpec` of `JobLifecycle` assumes weak fairness of each request's next step, of
each pending refund and mark, of each callback and of each delivery. The event loop
runs every continuation that is ready; PostgreSQL answers a statement it has
accepted, and gives a row lock that becomes free to a waiter. For `LockUserRow`
and `RefundCredit` weak fairness is enough in these runs only because a user has
finitely many requests, each of which takes the lock once; with an endless stream
the queue of PostgreSQL would have to be modelled. Nothing is assumed of arrivals,
of faults, or of how a dispatch or a job ends.

The liveness run checks this assumption in place of making it: `FairPoolSpec` assumes
only that the pool serves a caller for whom connections stay free, and that a step
that has its connection, and its row, is taken; `LifecycleStaysFair` then says that
every action of `JobLifecycle`'s `Fairness` is still taken in the end. It fails as soon as
one statement of a transaction needs a second connection. `UrlValidation` assumes that
the resolver ends each lookup, well or not.

`JobsSettle` and `FailedDispatchesAreUndone` allow for a fault, because the code has
no recovery; `partial_refund` shows that the second is false without that clause.

## 4. What is proved

All theorems are checked by TLAPS for arbitrary values of the constants: any users,
requests, jobs, keys, bodies, limits, credits and numbers of faults, any pool, any octets,
any endpoint. Every safety invariant of the passing runs is among them except two:
`PoolNeverWedges` and, beyond eight attempts, `SignatureStaysFresh` (both below). The
hypotheses are the named assumptions of the modules, which TLC evaluates for its
instances:

| assumption | says |
|---|---|
| `LifecycleAssumption` | finitely many seeded jobs, distinct from requests; every job has an owner; limits are positive; credits are natural numbers; the seeded active jobs respect the limits |
| `IdempotencyAssumption` | `NoKey`, `NoRequest` and `SeedRow` are no keys and no requests; the handler may refuse with 400; a refusal is neither 201, 202 nor 422 nor "no code yet"; requests carry keys of the table or none |
| `GatewayAssumption` | the same for the keys that meet `createJob`, whose refusals are 400, 402, 429, 503 |
| `PoolAssumption` | a pool has at least one connection |
| `AddressAssumption` | octets are below 256, and the two tokens are no IPv4 addresses |
| `ResultsAssumption` | seeded rows have their six columns with values of these, a body has a final status, and no error or one with two members, `NoKey` and `Unknown` are no key and no job |
| `DeliveryAssumption` | at least one attempt; delay and timeout are natural numbers |

**CreditLedgerProofs.** `LedgerIsSafe`: the ledger respects limits, accounts for
every credit, and delivers only jobs that are paid for. The invariant adds to
these that the sets are finite, since `Cardinality` says nothing of infinite ones.

**JobLifecycleProofs.** `Invariance` establishes `IInv`, the conjunction of

* `TypeOK` and the finiteness of the set of rows;
* `LockInv`: a row lock is held exactly by the transaction of that user that is
  between its SELECT and its COMMIT — without it nothing is known about two
  transactions of one user;
* `CheckedInv`: what was read or compared under the lock still holds at COMMIT,
  the fact the code relies on when it uses `user.credits` after another await, and
  which needs that a refund waits for the lock and that callbacks only lower
  the number of active jobs;
* `RequestInv`: per request, what its row may hold at each point (`RowInv`), that
  compensation and processing exclude each other and each writes the row at most
  once (`BranchInv`), what an answer implies (`AnswerInv`), and that a refused
  callback has no effect (`GuardInv`).

`NothingStaysOwed` adds `CalmInv`, which holds while nothing has failed: no promise,
webhook or request is lost, a request that was answered and has a row has a
compensation or a timer, and a callback that ended where the guard lets it in has started
a webhook. At rest each of these has come to its end, so every job is finished or
undone: the part of `JobsSettle` and `FailedDispatchesAreUndone` that is safety. That
rest is reached is left to TLC.

From `IInv` alone follow `TypeCorrect`, `RefundedNeverRun`, `AnswersAreTrue`, `WebhooksAreTrue`,
`RefusedCallbacksAreHarmless` and the action property `FinalRowsStay`.

The second half of the module is `LifecycleImplementsLedger`: under the mapping

| ledger | lifecycle |
|---|---|
| `balance` | `credits` |
| `issued` | rows that exist |
| `open` | rows in `queued` or `processing` |
| `charged` | rows of requests whose refund has not taken effect |
| `delivered` | rows that are completed or failed by the processing service |

`CommitJob` and `CommitReplyLost` are `Admit`; `RefundCredit`, and `RefundFails` when
only the reply was lost, are `Refund`; `MarkFailed`/`MarkFails` likewise `Void`;
`UpdateJob`/`CallbackFails` are `Deliver`; everything else, the crash included, is a
stutter. Hence `LimitNeverExceeded` and `NobodyOvercharged`: the two promises of the
repository's README are inherited from `LedgerIsSafe` through the instance `Books`,
not proved a second time.

**UrlValidationProofs.** `PatternsAreBlocks` is the heart: on any two octets, the
patterns, which match digits, and the blocks, which compare numbers, agree. The
invariant adds what each call has found at each step (`Findings`), that a job needs
both to have ended well and that both start together (`Verdict`), and that the pipe
refuses only what has not started (`Exclusion`). Hence `UrlTypeCorrect`,
`PublicHostsOnly` and `RefusalsAreFounded`.

**IdempotencyProofs.** Everything rests on one fact about the table: a row is written once
(`RowsStay`; no run asks it of TLC, where `ImplementsService` implies it), and what it
stores is the hash of a request's body or of the seeder's. `SafeInv` adds to the types what a stage of the interceptor says of the request
(`StageInv`: it has a key when it looks one up, and a job when it saves), what a
row is about (`TableInv`), and that an answer agrees with the row it was taken from
(`ReplyInv`). An answer is given once and rows stay, so the agreement lasts: hence
`RepliesStayFaithful` and `ReplaysAlwaysAgree`, however requests overlap, fail or, for the
first, expire. `ReplaysAgree` is claimed until a key expires: that afterwards the expired
row still blocks the table is the defect of `idempotency_expiry`, not a promise.
For clients that wait for their answers, `OrderInv` adds `PatientInv` (one
request of a key at a time, `AloneInv`; while a request is with its handler or
its save, its key has no active row, `AbsentInv`) and `LiveInv` (as long as nothing has expired, a row that exists is
found, unless it was seeded expired). Together they give `MissInv`, a handler runs only where
the key has no row (`RowsAreFound`), and with `StoredInv`, a job is saved by the
request that created it as long as nothing has failed, `SequentialClientsStaySafe`.

`RequestsAreServedAtOnce` is the refinement of `IdempotentService`: `StepsAreHidden` for
the steps that are stutters there, then one lemma for each step that answers
(`LookupsRefine`, `HandlersRefine`, `SavesRefine`, `CrashRefines`). The hard part is
`MayCreate`: that a patient client's handler runs only where the service may create a job is
`AbsentInv`, which no single await shows and which must survive the expiry of rows. `FewJobsAreEverTold` counts what a
client was told of under a key: the answers that name no row of the table (`Astray`) each
took a fault, and all others name the one row.

**GatewayProofs.** The two parts share a step: when `createJob` sets `response`, the
interceptor goes on at once. `GatewayInv` is `IInv` of the lifecycle and `SafeInv` of
the interceptor, under the mapping of `Accepted`, with `LinkInv`, how far one part is
when the other is at a given stage and which `response` stands behind a code;
`StoreInv`, only an accepted request is stored; `PipeInv`, an incomplete body has no row
in `jobs`; and `HurtInv`, a compensation that
failed has taken a fault. With it, `GatewayImplementsIdempotency` goes step by step:
`createJob` is the handler that `Idempotency` assumes, its background work is
invisible or, as a refund that failed, a `FaultElsewhere`, a restart is a `Crash`. So
all theorems about either part hold at the door: `AnswersAlwaysMatch` relates what a
client is told, first hand or replayed, to what was charged, and
`GatewayKeepsTheBooks` inherits limit and balance from the ledger.
`RetriesAlwaysCostFaults` is the most demanding: of the jobs charged under a key of an
orderly client, one is stored or under way, and every other was lost sight of
(`Wasted`: its request has ended, or its compensation has failed, without a row). A
step adds at most one of these and then takes a fault (`Spent`), or adds none
(`Spared`), so their number never exceeds the faults (`WasteInv`), whatever the number
of retries.
`GatewayServesAtOnce` composes the refinements: with `createJob` as handler the gateway still
implements `IdempotentService`. `RowHoldersAlwaysGoOn` needs `LockInv` of one part and the stage of
the other; `EveryoneWasServed` carries `CalmInv` to the door, where a request that got its
answer from the table never enters `createJob`, and follows the job named by an answer
to its webhook.

**ConnectionPoolProofs.** `PoolRefinesLifecycle`: every step on the pool is a step of
`JobLifecycle` or changes nothing in it, so all of `JobLifecycleProofs` holds for a pool of any
size; `PoolKeepsThePromises` states the most important ones. `PoolInv` adds which connections are in use (`HeldInv`) and whose they are (`ClaimInv`:
past BEGIN one has a connection; a connection, or a refund left to PostgreSQL, belongs to
work that is not done). `ConnectionsStayOwned` follows, and `ConnectionsComeBack`: at rest, whatever has failed, the pool
is full again. `SomebodyGoesOn` is
the reason why the pool does not wedge: while a connection is in use, some request that
holds one satisfies the guards of its next step, for whoever holds the row has a
connection already.

**JobResultsProofs.** `IInv` says of every call what it has found (`CallInv`); of every row
that its columns come from callbacks of this job, which for the URL need not be the last
one (`RowInv`); of every webhook that the row was written, by its own callback or
a later one (`WrittenInv`); and of every read that what it returned was reported
then, which later callbacks cannot undo (`ReadInv`). Hence `ViewsAreAlwaysReported`
and `SignaturesAreOwned` for any callbacks, and `DuplicatesStayHarmless` where all
callbacks of a job carry one body: row and webhook then agree in status, in the URL, and
in the code and the message of an error as far as the body has them. Messages of a body
without error and dates are not claimed to agree, and do not.

**WebhookDeliveryProofs.** `ReportsAreAccurate` holds for any number of attempts: the loop
counter is one more than the answers so far, all of which are retried (`LoopInv`).
`SignaturesStayFresh` needs the sum of the delays, `BaseDelay * (2^n - 1)`. That powers
double is an induction over data; the proof therefore takes the powers up to eight as
numbers, which the prover computes, and assumes `MaxRetries <= ManyRetries`, that is 8;
the code has 3. The type of `age`, and so `DeliveryTypeCorrect`, shares the hypothesis.

**Only model-checked.**

* Liveness, which is beyond the prover: `RequestsTerminate`, `JobsSettle`,
  `FailedDispatchesAreUndone`, `LifecycleStaysFair`, `ValidationEnds`.
* `PoolNeverWedges`, which speaks of ENABLED. `SomebodyGoesOn` proves it with the guards of
  the actions in the place of ENABLED.
* The age of a signature beyond eight attempts.
* The five violations: one behaviour refutes each.

## 5. What is not modelled

* How a URL is parsed, and the second resolution of a webhook's host when it is
  posted: nothing promises that it gives the same address.
* The order in which pg serves its callers, the connections of reads and of the
  API-key lookups (single statements like those of `RunStatement`), and the
  idempotency INSERT in the pool (it waits for a row with one connection, as a refund
  does; its wait for the row is in `Gateway`).
* SHA-256, HMAC, header names, the layout of bodies, the wording of error answers and log lines. Hashes
  are taken as injective, so what goes into them is modelled instead.
* Validation of DTOs beyond the protocols of URLs and the two members that a job needs (400
  before any handler), and of environment variables at start: refusals that change nothing.
* Members of a callback's error that are no strings: CallbackDto accepts them, and what
  PostgreSQL makes of them is a conversion.
* The `last_used_at` stamp of API keys, which nothing reads; `deductCredit` of the
  users repository, `create` and `countActiveJobs` of the jobs repository, which
  nothing calls.
* Authentication of POST /v1/jobs: a request of `JobLifecycle`, `Idempotency` and `Gateway` is
  one that the guard has accepted. The guard is modelled for reads.
* Migrations, seeding as a process, logging, the health route, Swagger.

## 6. Plan

Built so far, most important behaviour first: the ledger and the lifecycle,
idempotency, results and reads, webhook delivery, their composition
(`Gateway`), the connection pool and URL validation; each with its proofs, and four
refinements proved: `JobLifecycle` implements `CreditLedger`, `Idempotency` implements
`IdempotentService`, `Gateway` implements `Idempotency` and so `IdempotentService`, and
`ConnectionPool` implements `JobLifecycle`.

What is left:

1. **Gateway liveness**: every client is answered, with the INSERT waiting for the row.
   `EveryoneWasServed` and `RowHoldersAlwaysGoOn` are its safety half.
2. **Interceptor and pool at once**: the INSERT as one more holder of a connection.
3. **Signatures beyond eight attempts**, once an induction over the delays can be stated.
