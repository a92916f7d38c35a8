------------------------------ MODULE Gateway ------------------------------
(***************************************************************************)
(* POST /v1/jobs as its client sees it: the interceptor of Idempotency     *)
(* around the createJob of JobLifecycle.  The interceptor keeps, for each  *)
(* request, a stage of its own; while that is "handler" the request takes  *)
(* the steps of createJob, and when createJob has an answer, the same turn *)
(* of the event loop goes on with the interceptor.                         *)
(*                                                                         *)
(* "response" is what createJob answers; "code" and "reply" are what the   *)
(* client gets.  ApiKeyGuard comes before the interceptor and has accepted *)
(* every request; ValidationPipe comes after it, refuses incomplete bodies *)
(* and perhaps others, and its 400 is counted with those of createJob.     *)
(***************************************************************************)
EXTENDS JobLifecycle

CONSTANTS
    Keys, KeyChoices, LongKeys, SeedKeys, SeedExpired, SeedRow, SeedBody, Body, NoKey,
    Overlap,      \* as in Idempotency
    MaxExpiries   \* bound on keys that outlive their 24 hours

ASSUME GatewayAssumption ==
    /\ NoKey \notin Keys
    /\ SeedRow \notin Requests \cup {NoRequest}
    /\ KeyChoices \subseteq [Requests -> Keys \cup {NoKey}]
    /\ LongKeys \cup SeedKeys \cup SeedExpired \subseteq Keys
    /\ SeedKeys \cap SeedExpired = {}
    /\ Overlap \subseteq BOOLEAN
    /\ MaxExpiries \in Nat

VARIABLES
    keyOf, overlap,   \* as in Idempotency
    savedBy, active,  \* the table idempotency_keys
    stage,            \* how far the interceptor has gone for each request
    code, reply,      \* what the client was answered
    expiries

table == <<savedBy, active>>
client == <<stage, code, reply>>
interceptor == <<keyOf, overlap, table, client, expiries>>
lifecycle == vars
gatewayVars == <<lifecycle, interceptor>>

\* Requests whose createJob has ended, by an answer or with the process, and
\* has charged a job.
Accepted == {r \in Requests :
                \/ response[r] = 202
                \/ (response[r] = 500 \/ stage[r] = "lost") /\ status[r] # "absent"}

Idem == INSTANCE Idempotency WITH
    pc <- stage, jobs <- Accepted, Refusals <- {400, 402, 429, 503}

-----------------------------------------------------------------------------
GatewayInit ==
    /\ Init
    /\ keyOf \in KeyChoices
    /\ overlap \in Overlap
    /\ savedBy = [k \in Keys |-> IF k \in SeedKeys \cup SeedExpired
                                THEN SeedRow ELSE NoRequest]
    /\ active = SeedKeys
    /\ stage = [r \in Requests |-> "idle"]
    /\ code = [r \in Requests |-> 0]
    /\ reply = [r \in Requests |-> NoRequest]
    /\ expiries = 0

\* The interceptor's own steps: none of them touches users or jobs.
Before(r) ==
    /\ UNCHANGED <<tables, handler, promises, processing>>
    /\ \/ (Idem!Arrive(r) \/ Idem!FindExisting(r)) /\ UNCHANGED <<faults, envSecret>>
       \/ Idem!FindExistingFails(r) /\ UNCHANGED envSecret

\* The foreign key of idempotency_keys makes an INSERT wait for the user's row.
After(r) ==
    /\ UNCHANGED <<tables, handler, promises, processing>>
    /\ \/ /\ Idem!Save(r) /\ UNCHANGED <<faults, envSecret>>
          /\ Idem!TableRefuses(keyOf[r]) \/ lock[Owner[r]] = NoRequest
       \/ Idem!SaveFails(r) /\ UNCHANGED envSecret

Send(r, answer, job) ==
    /\ stage' = [stage EXCEPT ![r] = "answered"]
    /\ code' = [code EXCEPT ![r] = answer]
    /\ reply' = [reply EXCEPT ![r] = job]

\* Mutant: only 200 is taken for a success.
ReturnOnlyOk(r, answer) == Send(r, answer, IF answer = 202 THEN r ELSE NoRequest)

\* Mutant: an error is caught and saved like a success.
ReturnErrorsToo(r, answer) ==
    IF keyOf[r] = NoKey THEN Send(r, answer, IF answer = 202 THEN r ELSE NoRequest)
    ELSE stage' = [stage EXCEPT ![r] = "save"] /\ UNCHANGED <<code, reply>>

\* switchMap sees a success only; with a key it is saved before it is sent.
Return(r, answer) ==
    \/ /\ answer = 202 /\ keyOf[r] # NoKey
       /\ stage' = [stage EXCEPT ![r] = "save"]
       /\ UNCHANGED <<code, reply>>
    \/ answer = 202 /\ keyOf[r] = NoKey /\ Send(r, 202, r)
    \/ answer # 202 /\ Send(r, answer, NoRequest)

\* ValidationPipe lets complete bodies pass only.
CreateJob(r) ==
    \/ ValidateUrls(r) /\ (Idem!Complete(Body[r]) \/ response'[r] = 400)
    \/ HandleRequest(r)
    \/ TransactionFails(r) \/ CommitReplyLost(r)

\* Mutant: the handler is started while the key is still looked up.
HandlerAtOnce(r) ==
    /\ stage[r] \in {"lookup", "handler"}
    /\ CreateJob(r)
    /\ IF response'[r] = 0 THEN UNCHANGED client ELSE Return(r, response'[r])
    /\ UNCHANGED <<keyOf, overlap, table, expiries>>

\* next.handle(): a step of createJob, and with the last one its return.
Handler(r) ==
    /\ stage[r] = "handler"
    /\ CreateJob(r)
    /\ IF response'[r] = 0 THEN UNCHANGED client ELSE Return(r, response'[r])
    /\ UNCHANGED <<keyOf, overlap, table, expiries>>

\* What createJob leaves running: promises, timer, callback, webhook.
Background(r) ==
    /\ \/ RefundCredit(r) \/ MarkFailed(r) \/ Callback(r) \/ DeliverWebhook(r)
       \/ RefundFails(r) \/ MarkFails(r) \/ CallbackLost(r) \/ CallbackFails(r)
    /\ UNCHANGED interceptor

\* The process dies with all its requests, whatever stage they are at.
Restart ==
    /\ Crash \/ \E r \in Requests : LookupSecretFails(r)
    /\ stage' = [r \in Requests |->
                   IF stage[r] \in {"idle", "answered"} THEN stage[r] ELSE "lost"]
    /\ UNCHANGED <<keyOf, overlap, table, code, reply, expiries>>

Expire(k) == UNCHANGED lifecycle /\ Idem!Expire(k)

GatewayAtRest ==
    \A r \in Requests :
        /\ stage[r] \in {"answered", "lost"}
        /\ refund[r] # "pending" /\ mark[r] # "pending"
        /\ work[r] \in {"none", "ended"}
        /\ webhook[r] \in {"none", "done", "lost"}

Rest == GatewayAtRest /\ UNCHANGED gatewayVars

GatewayNext ==
    \/ \E r \in Requests : Before(r) \/ Handler(r) \/ After(r) \/ Background(r)
    \/ \E k \in Keys : Expire(k)
    \/ Restart
    \/ Rest

GatewaySpec == GatewayInit /\ [][GatewayNext]_gatewayVars

-----------------------------------------------------------------------------
(***************************************************************************)
(* Properties.                                                             *)
(***************************************************************************)
Charged == Created \ Refunded

\* A client that repeats one key until it has an answer, and waits for each
\* answer, or for the end of the process, before it repeats, pays for one job,
\* and for at most one more with each fault: a 500 or a restart may hide a
\* job that was charged, but no retry is charged without such a reason.
RetriesCostFaults ==
    ~overlap /\ expiries = 0 =>
        \A k \in Keys \ (LongKeys \cup SeedExpired) :
            Cardinality({r \in Charged : keyOf[r] = k}) <= 1 + faults

\* Whatever the client is told, first hand or from the table, is true of the
\* ledger: a 202 names a job that is paid for and was dispatched, however
\* long ago, and a refusal means that this request has cost nothing.
AnswersMatchCharges ==
    \A r \in Requests :
        /\ code[r] = 202 =>
              /\ reply[r] \in Charged
              /\ errorCode[reply[r]] # "DISPATCH_FAILED"
        /\ code[r] \in {400, 402, 422, 429, 503} => r \notin Charged

\* The INSERT of a response waits for the row of its user, and so does a
\* refund; whoever has that row is inside the transaction of createJob, where
\* nothing is waited for, and has not yet gone on to an INSERT of its own.
RowHoldersGoOn ==
    \A u \in Users : lock[u] # NoRequest =>
        /\ stage[lock[u]] = "handler"
        /\ pc[lock[u]] \in {"locked", "admitted"}

\* When everything has come to its end and nothing has failed, every client
\* has an answer, whoever has paid for a job was told of that job, and each
\* job a client was told of, first hand or from the table, has its result
\* and its webhook.
EveryoneIsServedAtRest ==
    GatewayAtRest /\ faults = 0 =>
        /\ \A r \in Requests : code[r] # 0
        /\ \A r \in Charged : code[r] = 202 /\ reply[r] = r
        /\ CanActivate => \A r \in Requests : code[r] = 202 => Settled(reply[r])

\* The composition keeps the promises of its parts: with createJob as the
\* handler, the interceptor takes only steps that Idempotency allows.
ImplementsIdempotency == Idem!Spec
=============================================================================
