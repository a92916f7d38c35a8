---------------------------- MODULE JobLifecycle ----------------------------
(***************************************************************************)
(* The life of a job, from POST /v1/jobs to the webhook: JobsService and   *)
(* its transaction on PostgreSQL, the mock dispatcher, and the internal    *)
(* callback.  The state is two tables (the columns of "users" and "jobs"   *)
(* that matter), the row locks PostgreSQL holds, and what the Node process *)
(* keeps in memory for each request: the point its handler has reached and *)
(* the promises, timers and webhook deliveries it left running.            *)
(*                                                                         *)
(* Between two awaits anything else may run, so every await is a step.     *)
(* A request inserts at most one row, under a fresh uuid, so the job is    *)
(* named by the request that creates it.                                   *)
(***************************************************************************)
EXTENDS Naturals, FiniteSets

CONSTANTS
    Users,              \* rows of "users"
    Requests,           \* authenticated POST /v1/jobs calls
    SeedJobs,           \* jobs the seeder inserts; nothing processes them
    Owner,              \* the user of each request and of each seeded job
    Plan,               \* users.plan, which no code updates
    ConcurrencyLimits,  \* CONCURRENCY_LIMITS, by plan
    InitialCredits,     \* users.credits at the start
    SeedStatus,         \* jobs.status of the seeded rows
    EnvSecrets,         \* values INTERNAL_CALLBACK_SECRET may have, or NotSet
    FaultKinds,         \* what may fail: "database", "network", "crash"
    MaxFaults,          \* bound on injected faults
    NoRequest           \* not a request: the row lock is free

NotSet == "undefined"   \* what fetch sends for a header that is undefined

Jobs == Requests \cup SeedJobs
ActiveStatus == {"queued", "processing"}
JobStatus == ActiveStatus \cup {"completed", "failed"}
Limit == [u \in Users |-> ConcurrencyLimits[Plan[u]]]
InitialOpen == {j \in SeedJobs : SeedStatus[j] \in ActiveStatus}

ASSUME LifecycleAssumption ==
    /\ IsFiniteSet(SeedJobs)
    /\ Requests \cap SeedJobs = {}
    /\ NoRequest \notin Requests
    /\ Owner \in [Jobs -> Users]
    /\ Limit \in [Users -> Nat \ {0}]
    /\ InitialCredits \in [Users -> Nat]
    /\ SeedStatus \in [SeedJobs -> JobStatus]
    /\ MaxFaults \in Nat
    /\ \A u \in Users :
          Cardinality({j \in InitialOpen : Owner[j] = u}) <= Limit[u]

VARIABLES
    \* PostgreSQL
    credits,    \* users.credits
    status,     \* jobs.status, or "absent" while there is no row
    errorCode,  \* jobs.error_code, or "null"
    lock,       \* the transaction that holds the row of each user
    \* the Node process
    envSecret,  \* INTERNAL_CALLBACK_SECRET, the same after a restart
    pc,         \* how far createJob has gone for each request
    seen,       \* user.credits as read under the lock, 0 outside of it
    response,   \* HTTP status sent to the client, 0 before it is sent
    refund,     \* the refundCredit promise
    mark,       \* the promise that marks the job as failed
    work,       \* the mock's timer and its callback
    verdict,    \* the outcome the mock chose when its timer fired
    webhook,    \* the delivery the callback started
    faults      \* faults injected so far

tables == <<credits, status, errorCode>>
handler == <<pc, seen, response, lock>>
promises == <<refund, mark>>
processing == <<work, verdict, webhook>>
calm == <<envSecret, faults>>
vars == <<tables, handler, promises, processing, calm>>

\* Statement outcomes: "unconfirmed" took effect but its reply was lost;
\* "lost" was never executed because the process died first.
PromiseState == {"none", "pending", "applied", "unconfirmed", "failed", "lost"}

TypeOK ==
    /\ credits \in [Users -> Nat]
    /\ status \in [Jobs -> JobStatus \cup {"absent"}]
    /\ errorCode \in [Jobs -> {"null", "DISPATCH_FAILED", "PROCESSING_FAILED",
                             "PROCESSING_ERROR"}]
    /\ lock \in [Users -> Requests \cup {NoRequest}]
    /\ envSecret \in EnvSecrets
    /\ pc \in [Requests -> {"idle", "validated", "locked", "admitted",
                            "created", "compensating", "answered", "lost"}]
    /\ seen \in [Requests -> Nat]
    /\ response \in [Requests -> {0, 202, 400, 402, 429, 500, 503}]
    /\ refund \in [Requests -> PromiseState]
    /\ mark \in [Requests -> PromiseState]
    /\ work \in [Requests -> {"none", "timer", "calling", "found", "ended"}]
    /\ verdict \in [Requests -> {"none", "completed", "failed"}]
    /\ webhook \in [Requests -> {"none", "lookup", "sending", "done", "lost"}]
    /\ faults \in 0..MaxFaults

ActiveJobs(u) == {j \in Jobs : Owner[j] = u /\ status[j] \in ActiveStatus}
Refunded == {r \in Requests : refund[r] \in {"applied", "unconfirmed"}}
Created == {r \in Requests : status[r] # "absent"}

-----------------------------------------------------------------------------
Init ==
    /\ credits = InitialCredits
    /\ status = [j \in Jobs |-> IF j \in SeedJobs THEN SeedStatus[j] ELSE "absent"]
    /\ errorCode = [j \in Jobs |-> IF status[j] = "failed" THEN "PROCESSING_ERROR" ELSE "null"]
    /\ lock = [u \in Users |-> NoRequest]
    /\ envSecret \in EnvSecrets
    /\ pc = [r \in Requests |-> "idle"]
    /\ seen = [r \in Requests |-> 0]
    /\ response = [r \in Requests |-> 0]
    /\ refund = [r \in Requests |-> "none"]
    /\ mark = [r \in Requests |-> "none"]
    /\ work = [r \in Requests |-> "none"]
    /\ verdict = [r \in Requests |-> "none"]
    /\ webhook = [r \in Requests |-> "none"]
    /\ faults = 0

Fault(kind) ==
    /\ kind \in FaultKinds
    /\ faults < MaxFaults
    /\ faults' = faults + 1
    /\ UNCHANGED envSecret

Goto(r, step) == pc' = [pc EXCEPT ![r] = step]

Answer(r, code) ==
    /\ Goto(r, "answered")
    /\ response' = [response EXCEPT ![r] = code]

\* COMMIT and ROLLBACK release the row, and the values read under it die.
EndTransaction(r) ==
    /\ lock' = [u \in Users |-> IF lock[u] = r THEN NoRequest ELSE lock[u]]
    /\ seen' = [seen EXCEPT ![r] = 0]

-----------------------------------------------------------------------------
(***************************************************************************)
(* createJob, up to the end of its transaction.                            *)
(***************************************************************************)

\* A request arrives; both URLs are resolved and checked, or it is refused.
ValidateUrls(r) ==
    /\ pc[r] = "idle"
    /\ \/ Goto(r, "validated") /\ UNCHANGED response
       \/ Answer(r, 400)
    /\ UNCHANGED <<tables, seen, lock, promises, processing, calm>>

\* Mutant: the row is read without FOR UPDATE.
LockUserRowNoLock(r) ==
    /\ pc[r] = "validated"
    /\ seen' = [seen EXCEPT ![r] = credits[Owner[r]]]
    /\ Goto(r, "locked")
    /\ UNCHANGED <<tables, lock, response, promises, processing, calm>>

\* SELECT ... FOR UPDATE waits for the row and reads it once it has it.
LockUserRow(r) ==
    /\ pc[r] = "validated"
    /\ lock[Owner[r]] = NoRequest
    /\ lock' = [lock EXCEPT ![Owner[r]] = r]
    /\ seen' = [seen EXCEPT ![r] = credits[Owner[r]]]
    /\ Goto(r, "locked")
    /\ UNCHANGED <<tables, response, promises, processing, calm>>

\* Mutant: a refusal leaves the transaction open.
RefuseNoCommit(r, code) == Answer(r, code) /\ UNCHANGED <<lock, seen>>

\* A refusal returns from the transaction, which commits, and is thrown.
Refuse(r, code) == Answer(r, code) /\ EndTransaction(r)

Admit(r) == Goto(r, "admitted") /\ UNCHANGED <<lock, seen, response>>

\* The two refusals, in the order of the code.
Decide(r, full, broke) ==
    /\ pc[r] = "locked"
    /\ \/ full /\ Refuse(r, 429)
       \/ ~full /\ broke /\ Refuse(r, 402)
       \/ ~full /\ ~broke /\ Admit(r)
    /\ UNCHANGED <<tables, promises, processing, calm>>

Full(r) == Cardinality(ActiveJobs(Owner[r])) >= Limit[Owner[r]]

\* Mutant: the count forgets the jobs in status "processing".
CheckLimitsQueuedOnly(r) ==
    Decide(r, Cardinality({j \in ActiveJobs(Owner[r]) : status[j] = "queued"})
                >= Limit[Owner[r]], seen[r] < 1)

\* Mutant: the credits read under the lock are not looked at.
CheckLimitsNoCredits(r) == Decide(r, Full(r), FALSE)

CheckLimits(r) == Decide(r, Full(r), seen[r] < 1)

\* UPDATE ... WHERE credits >= 1 and INSERT, seen by others at COMMIT.
DeductAndInsert(r) ==
    LET u == Owner[r]
    IN  /\ credits' = [credits EXCEPT ![u] = IF @ >= 1 THEN @ - 1 ELSE @]
        /\ status' = [status EXCEPT ![r] = "queued"]
        /\ EndTransaction(r)
        /\ UNCHANGED errorCode

CommitJob(r) ==
    /\ pc[r] = "admitted"
    /\ DeductAndInsert(r)
    /\ Goto(r, "created")
    /\ UNCHANGED <<response, promises, processing, calm>>

\* COMMIT is executed but the connection breaks before its reply: createJob
\* throws past the dispatch and past the compensation.
CommitReplyLost(r) ==
    /\ pc[r] = "admitted"
    /\ Fault("database")
    /\ DeductAndInsert(r)
    /\ Answer(r, 500)
    /\ UNCHANGED <<promises, processing>>

\* Mutant: the deduction runs outside the transaction that is rolled back.
TransactionFailsKeepsDeduction(r) ==
    /\ pc[r] = "admitted"
    /\ Fault("database")
    /\ credits' = [credits EXCEPT ![Owner[r]] = @ - 1]
    /\ EndTransaction(r)
    /\ Answer(r, 500)
    /\ UNCHANGED <<status, errorCode, promises, processing>>

\* A statement or the connection fails: ROLLBACK, and the filter answers 500.
TransactionFails(r) ==
    /\ pc[r] \in {"validated", "locked", "admitted"}
    /\ Fault("database")
    /\ EndTransaction(r)
    /\ Answer(r, 500)
    /\ UNCHANGED <<tables, promises, processing>>

-----------------------------------------------------------------------------
(***************************************************************************)
(* createJob, the dispatch and its compensation.                           *)
(***************************************************************************)

\* The mock arms its timer and createJob answers 202.
DispatchJob(r) ==
    /\ pc[r] = "created"
    /\ work' = [work EXCEPT ![r] = "timer"]
    /\ Answer(r, 202)
    /\ UNCHANGED <<tables, seen, lock, promises, verdict, webhook, calm>>

Compensate(r, timer) ==
    /\ pc[r] = "created"
    /\ refund' = [refund EXCEPT ![r] = "pending"]
    /\ mark' = [mark EXCEPT ![r] = "pending"]
    /\ work' = [work EXCEPT ![r] = timer]
    /\ Goto(r, "compensating")
    /\ UNCHANGED <<tables, seen, lock, response, verdict, webhook, calm>>

\* Mutant: the mock rejects after it has armed its timer.
DispatchRejectedLate(r) == Compensate(r, "timer")

\* The mock rejects before it arms a timer.  Promise.all starts the refund
\* and the update of the row together.
DispatchRejected(r) == Compensate(r, "none")

AddCredit(r) ==
    /\ lock[Owner[r]] = NoRequest
    /\ credits' = [credits EXCEPT ![Owner[r]] = @ + 1]

\* UPDATE users SET credits = credits + 1 waits for the row like any writer.
RefundCredit(r) ==
    /\ refund[r] = "pending"
    /\ AddCredit(r)
    /\ refund' = [refund EXCEPT ![r] = "applied"]
    /\ UNCHANGED <<status, errorCode, handler, mark, processing, calm>>

RefundFails(r) ==
    /\ refund[r] = "pending"
    /\ Fault("database")
    /\ \/ /\ refund' = [refund EXCEPT ![r] = "failed"]
          /\ UNCHANGED credits
       \/ /\ refund' = [refund EXCEPT ![r] = "unconfirmed"]
          /\ AddCredit(r)
    /\ UNCHANGED <<status, errorCode, handler, mark, processing>>

\* Mutant: the row is closed without its error code.
WriteDispatchFailedNoCode(r) ==
    /\ status' = [status EXCEPT ![r] = "failed"]
    /\ UNCHANGED errorCode

WriteDispatchFailed(r) ==
    /\ status' = [status EXCEPT ![r] = "failed"]
    /\ errorCode' = [errorCode EXCEPT ![r] = "DISPATCH_FAILED"]

MarkFailed(r) ==
    /\ mark[r] = "pending"
    /\ WriteDispatchFailed(r)
    /\ mark' = [mark EXCEPT ![r] = "applied"]
    /\ UNCHANGED <<credits, handler, refund, processing, calm>>

MarkFails(r) ==
    /\ mark[r] = "pending"
    /\ Fault("database")
    /\ \/ /\ mark' = [mark EXCEPT ![r] = "failed"]
          /\ UNCHANGED <<status, errorCode>>
       \/ /\ mark' = [mark EXCEPT ![r] = "unconfirmed"]
          /\ WriteDispatchFailed(r)
    /\ UNCHANGED <<credits, handler, refund, processing>>

\* Mutant: Promise.all is not awaited.
AnswerDispatchFailureAtOnce(r) ==
    /\ pc[r] = "compensating"
    /\ Answer(r, 503)
    /\ UNCHANGED <<tables, seen, lock, promises, processing, calm>>

\* Promise.all resolves when both have, and rejects as soon as one does: the
\* 500 does not wait for the other statement.
AnswerDispatchFailure(r) ==
    /\ pc[r] = "compensating"
    /\ \/ /\ refund[r] = "applied" /\ mark[r] = "applied"
          /\ Answer(r, 503)
       \/ /\ {refund[r], mark[r]} \cap {"failed", "unconfirmed"} # {}
          /\ Answer(r, 500)
    /\ UNCHANGED <<tables, seen, lock, promises, processing, calm>>

-----------------------------------------------------------------------------
(***************************************************************************)
(* The mock's timer, the callback and the webhook it starts.               *)
(***************************************************************************)

\* Mutant: the callback is sent before the outcome is drawn.
TimerFiresUndecided(r) ==
    /\ work[r] = "timer"
    /\ work' = [work EXCEPT ![r] = "calling"]
    /\ UNCHANGED <<tables, handler, promises, verdict, webhook, calm>>

\* The outcome is drawn when the timer fires, and POSTed once.
TimerFires(r) ==
    /\ work[r] = "timer"
    /\ work' = [work EXCEPT ![r] = "calling"]
    /\ \E v \in {"completed", "failed"} : verdict' = [verdict EXCEPT ![r] = v]
    /\ UNCHANGED <<tables, handler, promises, webhook, calm>>

\* The POST never reaches the handler; sendCallback only logs it.
CallbackLost(r) ==
    /\ work[r] = "calling"
    /\ Fault("network")
    /\ work' = [work EXCEPT ![r] = "ended"]
    /\ UNCHANGED <<tables, handler, promises, verdict, webhook>>

\* The guard falls back to a default that the sender does not know of.
GuardSecret ==
    IF envSecret \in {NotSet, ""} THEN "default-internal-secret" ELSE envSecret

CanActivate == envSecret # "" /\ envSecret = GuardSecret

\* 403: logged by the sender, and the job is not looked at.
RejectCallback(r) ==
    /\ work[r] = "calling"
    /\ ~CanActivate
    /\ work' = [work EXCEPT ![r] = "ended"]
    /\ UNCHANGED <<tables, handler, promises, verdict, webhook, calm>>

Find(r, guard, hook) ==
    /\ work[r] = "calling"
    /\ guard
    /\ status[r] # "absent"
    /\ work' = [work EXCEPT ![r] = "found"]
    /\ webhook' = [webhook EXCEPT ![r] = hook]
    /\ UNCHANGED <<tables, handler, promises, verdict, calm>>

\* Mutant: the route is not guarded.
FindJobUnguarded(r) == Find(r, TRUE, "none")

\* Mutant: the webhook is started before the row is updated.
FindJobAndNotify(r) == Find(r, CanActivate, "lookup")

FindJob(r) == Find(r, CanActivate, "none")

\* UPDATE jobs by id, whatever status the row has by now.
WriteVerdict(r) ==
    /\ status' = [status EXCEPT ![r] = verdict[r]]
    /\ errorCode' = [errorCode EXCEPT
                       ![r] = IF verdict[r] = "failed" THEN "PROCESSING_FAILED" ELSE @]

FinishCallback(r, step, notify) ==
    /\ work[r] = "found"
    /\ WriteVerdict(r)
    /\ work' = [work EXCEPT ![r] = step]
    /\ webhook' = [webhook EXCEPT ![r] = IF notify THEN "lookup" ELSE @]
    /\ UNCHANGED <<credits, handler, promises, verdict, calm>>

\* Mutant: setInterval in place of setTimeout.
UpdateJobInterval(r) == FinishCallback(r, "timer", TRUE)

\* Mutant: only completed jobs are notified.
UpdateJobSilentFailure(r) == FinishCallback(r, "ended", verdict[r] = "completed")

\* The update is awaited; the webhook is started and not awaited.
UpdateJob(r) == FinishCallback(r, "ended", TRUE)

\* findById or the update throws; an update whose reply is lost has written
\* the row.  Either way the handler ends before it starts the webhook.
CallbackFails(r) ==
    /\ work[r] \in {"calling", "found"}
    /\ CanActivate
    /\ Fault("database")
    /\ work' = [work EXCEPT ![r] = "ended"]
    /\ \/ UNCHANGED <<status, errorCode>>
       \/ work[r] = "found" /\ WriteVerdict(r)
    /\ UNCHANGED <<credits, handler, promises, verdict, webhook>>

\* findWebhookSecretByUserId; a missing secret is replaced by ''.
LookupSecret(r) ==
    /\ webhook[r] = "lookup"
    /\ webhook' = [webhook EXCEPT ![r] = "sending"]
    /\ UNCHANGED <<tables, handler, promises, work, verdict, calm>>

\* WebhookService.deliver never rejects: success or failure is logged.
FinishDelivery(r) ==
    /\ webhook[r] = "sending"
    /\ webhook' = [webhook EXCEPT ![r] = "done"]
    /\ UNCHANGED <<tables, handler, promises, work, verdict, calm>>

-----------------------------------------------------------------------------
(***************************************************************************)
(* The process dies and Docker restarts it.  Transactions roll back and    *)
(* nothing in memory survives.  A refund PostgreSQL already holds, waiting *)
(* for the row, is executed all the same; "kept" are those requests.       *)
(***************************************************************************)
Die(cause) ==
    /\ Fault(cause)
    /\ lock' = [u \in Users |-> NoRequest]
    /\ seen' = [r \in Requests |-> 0]
    /\ pc' = [r \in Requests |->
                IF pc[r] \in {"idle", "answered"} THEN pc[r] ELSE "lost"]
    /\ \E kept \in SUBSET {r \in Requests : refund[r] = "pending"} :
          refund' = [r \in Requests |->
             IF refund[r] = "pending" /\ r \notin kept THEN "lost" ELSE refund[r]]
    /\ mark' = [r \in Requests |-> IF mark[r] = "pending" THEN "lost" ELSE mark[r]]
    /\ work' = [r \in Requests |-> IF work[r] = "none" THEN "none" ELSE "ended"]
    /\ webhook' = [r \in Requests |->
                     IF webhook[r] \in {"lookup", "sending"} THEN "lost" ELSE webhook[r]]
    /\ UNCHANGED <<tables, response, verdict>>

Crash == Die("crash")

\* The query for the secret throws inside a promise nobody awaits: Node ends
\* the process on an unhandled rejection.
LookupSecretFails(r) == webhook[r] = "lookup" /\ Die("database")

-----------------------------------------------------------------------------
\* Nothing is left to do: every request was answered, nothing is running.
AtRest ==
    \A r \in Requests :
        /\ pc[r] \in {"answered", "lost"}
        /\ refund[r] # "pending" /\ mark[r] # "pending"
        /\ work[r] \in {"none", "ended"}
        /\ webhook[r] \in {"none", "done", "lost"}

Quiescent == AtRest /\ UNCHANGED vars

HandleRequest(r) ==
    \/ LockUserRow(r) \/ CheckLimits(r) \/ CommitJob(r)
    \/ DispatchJob(r) \/ DispatchRejected(r) \/ AnswerDispatchFailure(r)

Callback(r) == TimerFires(r) \/ RejectCallback(r) \/ FindJob(r) \/ UpdateJob(r)

DeliverWebhook(r) == LookupSecret(r) \/ FinishDelivery(r)

Failure(r) ==
    \/ TransactionFails(r) \/ CommitReplyLost(r) \/ RefundFails(r) \/ MarkFails(r)
    \/ CallbackLost(r) \/ CallbackFails(r) \/ LookupSecretFails(r)

Next ==
    \/ \E r \in Requests :
          \/ ValidateUrls(r) \/ HandleRequest(r)
          \/ RefundCredit(r) \/ MarkFailed(r)
          \/ Callback(r) \/ DeliverWebhook(r)
          \/ Failure(r)
    \/ Crash
    \/ Quiescent

Spec == Init /\ [][Next]_vars

\* The event loop runs every continuation that is ready, and PostgreSQL
\* serves the waiters of a row: once a request has arrived, none of its
\* steps is postponed for ever.  Arrivals and faults are not fair.
Fairness ==
    \A r \in Requests :
        /\ WF_vars(HandleRequest(r))
        /\ WF_vars(RefundCredit(r))
        /\ WF_vars(MarkFailed(r))
        /\ WF_vars(Callback(r))
        /\ WF_vars(DeliverWebhook(r))

FairSpec == Spec /\ Fairness

-----------------------------------------------------------------------------
(***************************************************************************)
(* Properties.                                                             *)
(***************************************************************************)

\* README: the pessimistic lock guarantees the concurrency limit is never
\* exceeded, whatever requests of one user, callbacks and crashes interleave.
WithinConcurrencyLimit ==
    \A u \in Users : Cardinality(ActiveJobs(u)) <= Limit[u]

\* README: nobody is overcharged.  The credits of a user and the user's jobs
\* that were not refunded always add up to the initial credits: each row was
\* paid by exactly one credit, and no credit came back twice.
CreditsBalance ==
    \A u \in Users :
        credits[u] + Cardinality({r \in Created \ Refunded : Owner[r] = u})
          = InitialCredits[u]

\* A job whose credit is given back is never processed: no timer, no result,
\* no webhook, even though the refund and the mark are not one transaction.
RefundedJobsNeverRun ==
    \A r \in Requests : refund[r] # "none" =>
        /\ work[r] = "none"
        /\ webhook[r] = "none"
        /\ errorCode[r] # "PROCESSING_FAILED"
        /\ status[r] # "completed"

\* What the client was told is true and stays true: a 503 promises that the
\* credit has been refunded and the job closed, a 202 that the job was paid
\* for and dispatched, a 4xx that there is no job at all.
ResponsesAreTruthful ==
    \A r \in Requests :
        /\ response[r] = 503 =>
              refund[r] = "applied" /\ errorCode[r] = "DISPATCH_FAILED"
        /\ response[r] = 202 =>
              r \in Created \ Refunded /\ errorCode[r] # "DISPATCH_FAILED"
        /\ response[r] \in {400, 402, 429} => status[r] = "absent"

\* The webhook says what GET /v1/jobs/:id says: it is not sent before the row
\* is written, and the row does not change after it.
WebhookReflectsRow ==
    \A r \in Requests : webhook[r] # "none" => status[r] = verdict[r]

\* Where the guard refuses every callback, the callback endpoint changes no
\* row and starts no webhook: a 403 is decided before any handler runs.
RefusedCallbacksChangeNothing ==
    ~CanActivate => \A r \in Requests :
        /\ webhook[r] = "none"
        /\ work[r] # "none" => status[r] = "queued" /\ errorCode[r] = "null"

\* A client that has read a final status can rely on it: a step never changes
\* the status or the error of a row that is completed or failed.
TerminalRowsAreFinal ==
    [][\A j \in Jobs : status[j] \in {"completed", "failed"} =>
          status'[j] = status[j] /\ errorCode'[j] = errorCode[j]]_vars

\* The lifecycle implements the ledger: what several statements on several
\* connections do is, seen from the tables, one atomic operation at a time.
Ledger == INSTANCE CreditLedger WITH
    balance <- credits,
    issued <- {j \in Jobs : status[j] # "absent"},
    open <- {j \in Jobs : status[j] \in ActiveStatus},
    charged <- Created \ Refunded,
    delivered <- {r \in Requests : \/ status[r] = "completed"
                                   \/ errorCode[r] = "PROCESSING_FAILED"},
    InitialBalance <- InitialCredits,
    InitialJobs <- SeedJobs

ImplementsLedger == Ledger!Spec

\* No request hangs: whatever faults occur, one that arrived is answered or
\* dies with the process; in particular no row lock is kept for ever.
RequestsTerminate ==
    \A r \in Requests : pc[r] = "validated" ~> pc[r] \in {"answered", "lost"}

\* Without faults, and with a secret both sides know, a dispatched job
\* reaches a final status and its webhook is attempted: the slot comes back.
Settled(r) == status[r] \notin ActiveStatus /\ webhook[r] = "done"

JobsSettle ==
    \A r \in Requests : work[r] = "timer" ~> Settled(r) \/ faults > 0

\* Without faults both halves of the compensation happen, although they are
\* two statements on two connections.
Undone(r) == errorCode[r] = "DISPATCH_FAILED" /\ r \in Refunded

FailedDispatchesAreUndone ==
    \A r \in Requests : pc[r] = "compensating" ~> Undone(r) \/ faults > 0

\* A gateway at rest owes nothing: when everything has come to its end and
\* nothing has failed, each job that was charged has its result and its
\* webhook, or was undone; no promise, timer or callback got lost on the way.
NothingIsOwedAtRest ==
    AtRest /\ faults = 0 =>
        \A r \in Created : Undone(r) \/ (CanActivate => Settled(r))

\* The comment in createJob: if the dispatch fails, the job is marked FAILED
\* and the credit is refunded.
DispatchFailuresAreRefunded ==
    \A r \in Requests : pc[r] = "compensating" ~> Undone(r)
=============================================================================
