----------------------------- MODULE JobResults -----------------------------
(***************************************************************************)
(* How the result of a job comes in and goes out: CallbackService behind   *)
(* POST /v1/internal/callback, the webhook it sends, and what              *)
(* GET /v1/jobs/:id shows to the holder of an API key.  JobLifecycle has   *)
(* the one callback of the mock dispatcher; here any processing service    *)
(* may call, about any job, late, twice, or with another result.           *)
(*                                                                         *)
(* Every caller knows the internal secret, and every body is one that      *)
(* CallbackDto accepts; it does not look into an error, whose members are  *)
(* taken to be strings, null or absent.  A date of a row is the callback   *)
(* that wrote it.  The date of a webhook is a second reading of the clock, *)
(* made later, and nothing is said about it.                               *)
(***************************************************************************)
EXTENDS Naturals, FiniteSets

CONSTANTS
    Jobs,           \* rows of "jobs"
    Owner,          \* jobs.user_id
    InitialRow,     \* the columns that results are written to, at the start
    Keys,           \* rows of "api_keys"
    KeyUser,        \* api_keys.user_id
    Secretless,     \* keys whose webhook_secret is null
    NoKey,          \* a token that is no key, well-formed or not
    Callbacks,      \* POST /v1/internal/callback calls
    Body,           \* the CallbackDto of each
    Unknown,        \* an id that is no row, and perhaps no uuid either
    Reads,          \* GET /v1/jobs/:id calls
    MaxCalls,       \* bound on callbacks that arrive
    MaxKeyChanges,  \* bound on keys that are revoked or deleted
    MaxFaults       \* bound on database errors and process restarts

Undefined == "undefined"  \* an absent member
Null == "null"            \* NULL in SQL, null in JSON
TooLong == "too long"     \* longer than its varchar(2048), (50) or (500)
Falsy == {Undefined, Null, ""}

\* dto.error is absent or null; dto.error?.code of it is undefined.  An empty
\* object, which is no such error, has the other two members only.
NoError == [absent |-> TRUE, code |-> Undefined, message |-> Undefined]

Final == {"completed", "failed"}
Statuses == {"queued", "processing"} \cup Final

Columns(job) ==
    [status |-> job.status, resultUrl |-> job.resultUrl, completedAt |-> job.completedAt,
     errorCode |-> job.errorCode, errorMessage |-> job.errorMessage,
     failedAt |-> job.failedAt]

ASSUME ResultsAssumption ==
    /\ \A c \in Callbacks :
          /\ Body[c].status \in Final
          /\ Body[c].error \in {NoError, [code |-> Body[c].error.code,
                                         message |-> Body[c].error.message]}
    /\ InitialRow = [j \in Jobs |-> Columns(InitialRow[j])]
    /\ \A j \in Jobs :
          /\ InitialRow[j].status \in Statuses
          /\ {InitialRow[j].resultUrl, InitialRow[j].errorCode, InitialRow[j].errorMessage}
                \cap {Undefined, TooLong} = {}
    /\ NoKey \notin Keys
    /\ Unknown \notin Jobs
    /\ Secretless \subseteq Keys
    /\ MaxCalls \in Nat
    /\ MaxKeyChanges \in Nat
    /\ MaxFaults \in Nat

VARIABLES
    row,      \* the Columns of each job
    keys,     \* "active", "revoked" (is_active is false) or "deleted" (deleted_at is set)
    call,     \* how far each callback has gone, or how it was answered
    webhook,  \* the delivery it started
    signer,   \* the key whose secret signs that, NoKey for the secret ''
    read,     \* how far each GET has gone, or how it was answered
    asked,    \* [token, job] of its request, once the token is accepted
    view,     \* the body of its answer, NoView before
    keyChanges, faults

vars == <<row, keys, call, webhook, signer, read, asked, view, keyChanges, faults>>

NoView == [status |-> Undefined]
NotAsked == [token |-> NoKey, job |-> Unknown]

TypeOK ==
    /\ \A j \in Jobs :
          /\ row[j].status \in Statuses
          /\ {row[j].resultUrl, row[j].errorCode, row[j].errorMessage}
                \cap {Undefined, TooLong} = {}
    /\ keys \in [Keys -> {"active", "revoked", "deleted"}]
    /\ call \in [Callbacks -> {"idle", "found", "ok", "not found", "error", "lost"}]
    /\ webhook \in [Callbacks -> {"none", "lookup", "sent", "lost"}]
    /\ signer \in [Callbacks -> Keys \cup {NoKey}]
    /\ read \in [Reads -> {"idle", "authenticated", "ok", "unauthorized",
                           "not found", "error", "lost"}]
    /\ asked \in [Reads -> [token : Keys \cup {NoKey}, job : Jobs \cup {Unknown}]]
    /\ \A r \in Reads : view[r] # NoView <=> read[r] = "ok"
    /\ keyChanges \in 0..MaxKeyChanges
    /\ faults \in 0..MaxFaults

Init ==
    /\ row = InitialRow
    /\ keys = [k \in Keys |-> "active"]
    /\ call = [c \in Callbacks |-> "idle"]
    /\ webhook = [c \in Callbacks |-> "none"]
    /\ signer = [c \in Callbacks |-> NoKey]
    /\ read = [r \in Reads |-> "idle"]
    /\ asked = [r \in Reads |-> NotAsked]
    /\ view = [r \in Reads |-> NoView]
    /\ keyChanges = 0
    /\ faults = 0

Fault == faults < MaxFaults /\ faults' = faults + 1

-----------------------------------------------------------------------------
(***************************************************************************)
(* handleCallback and deliverWebhook.                                      *)
(***************************************************************************)
Handle(c, from, to, hook) ==
    /\ call[c] = from
    /\ call' = [call EXCEPT ![c] = to]
    /\ webhook' = [webhook EXCEPT ![c] = hook]
    /\ UNCHANGED <<keys, signer, read, asked, view, keyChanges>>

Known(c) == Body[c].jobId \in Jobs
Arrives(c) == Cardinality({b \in Callbacks \ {c} : call[b] # "idle"}) < MaxCalls

\* No row has this id; for an id that is no uuid the query is refused: 500.
FindsNothing(c) ==
    /\ ~Known(c)
    /\ Handle(c, "idle", "not found", "none") \/ Handle(c, "idle", "error", "none")

\* Mutant: the webhook is started before the row is updated.
FindJobAndNotify(c) ==
    /\ Arrives(c)
    /\ \/ Known(c) /\ Handle(c, "idle", "found", "lookup")
       \/ FindsNothing(c)
    /\ UNCHANGED <<row, faults>>

FindJob(c) ==
    /\ Arrives(c)
    /\ \/ Known(c) /\ Handle(c, "idle", "found", "none")
       \/ FindsNothing(c)
    /\ UNCHANGED <<row, faults>>

\* What the row gets of an error: a default for each member that is falsy.
Code(dto) == IF dto.error.code \in Falsy THEN "PROCESSING_FAILED" ELSE dto.error.code
Message(dto) == IF dto.error.message \in Falsy
                THEN "Processing failed without details" ELSE dto.error.message

\* Mutant: an absent URL is written as it is.
WriteResultAssigns(c) ==
    row' = [row EXCEPT ![Body[c].jobId] =
        IF Body[c].status = "completed"
        THEN [@ EXCEPT !.status = "completed", !.completedAt = c,
                       !.resultUrl = Body[c].resultUrl]
        ELSE [@ EXCEPT !.status = "failed", !.failedAt = c, !.errorCode = Code(Body[c]),
                       !.errorMessage = Message(Body[c])]]

\* TypeORM leaves a column alone whose value is undefined, and the columns
\* that only the other branch writes.
WriteResult(c) ==
    LET dto == Body[c]
        job == row[dto.jobId]
    IN  row' = [row EXCEPT ![dto.jobId] =
            IF dto.status = "completed"
            THEN [status |-> "completed", completedAt |-> c,
                  resultUrl |-> IF dto.resultUrl = Undefined
                                THEN job.resultUrl ELSE dto.resultUrl,
                  errorCode |-> job.errorCode, errorMessage |-> job.errorMessage,
                  failedAt |-> job.failedAt]
            ELSE [status |-> "failed", failedAt |-> c,
                  errorCode |-> Code(dto), errorMessage |-> Message(dto),
                  resultUrl |-> job.resultUrl, completedAt |-> job.completedAt]]

\* Whether PostgreSQL takes what the branch of the body writes.
Fits(c) == IF Body[c].status = "completed"
           THEN Body[c].resultUrl # TooLong
           ELSE TooLong \notin {Body[c].error.code, Body[c].error.message}

\* Whatever status the row has; the webhook is started, not awaited.  Every
\* job has the webhookUrl that this depends on: CreateJobDto requires one.
UpdateJob(c) ==
    /\ Fits(c)
    /\ Handle(c, "found", "ok", "lookup")
    /\ WriteResult(c)
    /\ UNCHANGED faults

\* A value too long for its column: 500, each time the caller repeats it.
UpdateRefused(c) ==
    /\ ~Fits(c)
    /\ Handle(c, "found", "error", "none")
    /\ UNCHANGED <<row, faults>>

\* findById or the update throws; the reply of an update may be lost after
\* it has written the row.
CallbackFails(c) ==
    /\ Fault
    /\ \/ Arrives(c) /\ Handle(c, "idle", "error", "none") /\ UNCHANGED row
       \/ Handle(c, "found", "error", "none") /\ UNCHANGED row
       \/ Fits(c) /\ Handle(c, "found", "error", "none") /\ WriteResult(c)

\* findActiveByUserId: any key of the user with is_active, deleted or not.
Eligible(c) == {k \in Keys : KeyUser[k] = Owner[Body[c].jobId] /\ keys[k] # "revoked"}

Sign(c, ks) ==
    /\ webhook[c] = "lookup"
    /\ webhook' = [webhook EXCEPT ![c] = "sent"]
    /\ \/ /\ ks = {}
          /\ UNCHANGED signer
       \/ \E k \in ks :
             signer' = [signer EXCEPT ![c] = IF k \in Secretless THEN NoKey ELSE k]
    /\ UNCHANGED <<row, keys, call, read, asked, view, keyChanges, faults>>

\* Mutant: keys are looked up by deleted_at in place of is_active.
LookupSecretLive(c) ==
    Sign(c, {k \in Keys : KeyUser[k] = Owner[Body[c].jobId] /\ keys[k] # "deleted"})

LookupSecret(c) == Sign(c, Eligible(c))

\* What the webhook says is taken from the body, not from the row: an error
\* as it came, whatever it lacks, and if there is none a default whose message
\* is not the one of the row.
Payload(c) ==
    IF Body[c].status = "completed"
    THEN [status |-> "completed", resultUrl |-> Body[c].resultUrl]
    ELSE [status |-> "failed",
          error |-> IF Body[c].error = NoError
                    THEN [code |-> "PROCESSING_FAILED", message |-> "Processing failed"]
                    ELSE Body[c].error]

-----------------------------------------------------------------------------
(***************************************************************************)
(* GET /v1/jobs/:id: the guard, then getJob.                               *)
(***************************************************************************)
Answer(r, from, to) ==
    /\ read[r] = from
    /\ read' = [read EXCEPT ![r] = to]
    /\ UNCHANGED <<row, keys, call, webhook, signer, keyChanges>>

\* validateApiKey: neither revoked nor deleted, at this moment.
Authenticate(r, token, job) ==
    /\ \/ /\ token \in Keys /\ keys[token] = "active"
          /\ Answer(r, "idle", "authenticated")
          /\ asked' = [asked EXCEPT ![r] = [token |-> token, job |-> job]]
       \/ /\ token \in Keys => keys[token] # "active"
          /\ Answer(r, "idle", "unauthorized")
          /\ UNCHANGED asked
    /\ UNCHANGED <<view, faults>>

\* Mutant: both dates are taken from one column.
buildStatusResponseOneDate(job) ==
    CASE job.status = "completed" ->
            [status |-> "completed", resultUrl |-> job.resultUrl, completedAt |-> job.completedAt]
      [] job.status = "failed" ->
            [status |-> "failed", failedAt |-> job.completedAt,
             error |-> [code |-> job.errorCode, message |-> job.errorMessage]]
      [] OTHER -> [status |-> job.status]

buildStatusResponse(job) ==
    CASE job.status = "completed" ->
            [status |-> "completed", resultUrl |-> job.resultUrl, completedAt |-> job.completedAt]
      [] job.status = "failed" ->
            [status |-> "failed", failedAt |-> job.failedAt,
             error |-> [code |-> job.errorCode, message |-> job.errorMessage]]
      [] OTHER -> [status |-> job.status]

\* findJobs looks for the id among the jobs of the user; nothing has checked
\* that it is a uuid.
GetJob(r) ==
    LET job == asked[r].job
        user == KeyUser[asked[r].token]
    IN  /\ read[r] = "authenticated"
        /\ \/ /\ job \in Jobs /\ Owner[job] = user
              /\ Answer(r, "authenticated", "ok")
              /\ view' = [view EXCEPT ![r] = buildStatusResponse(row[job])]
           \/ /\ job \in Jobs => Owner[job] # user
              /\ Answer(r, "authenticated", "not found")
              /\ UNCHANGED view
           \/ /\ job = Unknown
              /\ Answer(r, "authenticated", "error")
              /\ UNCHANGED view
        /\ UNCHANGED <<asked, faults>>

ReadFails(r) ==
    /\ Fault
    /\ Answer(r, "idle", "error") \/ Answer(r, "authenticated", "error")
    /\ UNCHANGED <<asked, view>>

-----------------------------------------------------------------------------
\* An administrator revokes a key, or deletes it; no code does.
ChangeKey(k, to) ==
    /\ keys[k] = "active"
    /\ keyChanges < MaxKeyChanges
    /\ keyChanges' = keyChanges + 1
    /\ keys' = [keys EXCEPT ![k] = to]
    /\ UNCHANGED <<row, call, webhook, signer, read, asked, view, faults>>

Die ==
    /\ Fault
    /\ call' = [c \in Callbacks |-> IF call[c] = "found" THEN "lost" ELSE call[c]]
    /\ webhook' = [c \in Callbacks |-> IF webhook[c] = "lookup" THEN "lost" ELSE webhook[c]]
    /\ read' = [r \in Reads |-> IF read[r] = "authenticated" THEN "lost" ELSE read[r]]
    /\ UNCHANGED <<row, keys, signer, asked, view, keyChanges>>

\* The query for the secret throws in a promise nobody awaits.
LookupSecretFails(c) == webhook[c] = "lookup" /\ Die

Quiescent ==
    /\ \A c \in Callbacks :
          /\ call[c] = "idle" => ~Arrives(c)
          /\ call[c] # "found" /\ webhook[c] # "lookup"
    /\ \A r \in Reads : read[r] \notin {"idle", "authenticated"}
    /\ UNCHANGED vars

Next ==
    \/ \E c \in Callbacks :
          \/ FindJob(c) \/ UpdateJob(c) \/ UpdateRefused(c) \/ LookupSecret(c)
          \/ CallbackFails(c) \/ LookupSecretFails(c)
    \/ \E r \in Reads :
          \/ \E token \in Keys \cup {NoKey}, job \in Jobs \cup {Unknown} :
                Authenticate(r, token, job)
          \/ GetJob(r) \/ ReadFails(r)
    \/ \E k \in Keys : ChangeKey(k, "revoked") \/ ChangeKey(k, "deleted")
    \/ Die
    \/ Quiescent

Spec == Init /\ [][Next]_vars

-----------------------------------------------------------------------------
(***************************************************************************)
(* Properties.                                                             *)
(***************************************************************************)
Named(j) == {c \in Callbacks : Body[c].jobId = j /\ call[c] \notin {"idle", "not found"}}

\* A final status comes with what was reported: its date is that of a
\* callback about this job with this outcome (or of the row as it was at the
\* start), both members of its error are those of that very callback, where it
\* had any, and its URL is the callback's own unless the callback left it out,
\* and then an earlier one.
Reported(j, v) ==
    \/ v = buildStatusResponse(InitialRow[j])
    \/ \E c \in Named(j) :
          /\ Body[c].status = v.status
          /\ \/ /\ v.status = "failed" /\ v.failedAt = c
                /\ {v.error.code, v.error.message} \cap Falsy = {}
                /\ Body[c].error.code \in {v.error.code} \cup Falsy
                /\ Body[c].error.message \in {v.error.message} \cup Falsy
             \/ /\ v.status = "completed" /\ v.completedAt = c
                /\ \/ v.resultUrl = Body[c].resultUrl
                   \/ /\ Body[c].resultUrl = Undefined
                      /\ v.resultUrl \in {Body[b].resultUrl : b \in Named(j)}
                                            \cup {InitialRow[j].resultUrl}

\* Whatever callbacks arrive, overlap and fail, a client reads a status that
\* one of them reported, and never parts of two outcomes; and it reads it
\* with a key of the job's owner.
ViewsAreReported ==
    \A r \in Reads : read[r] = "ok" =>
        /\ Reported(asked[r].job, view[r])
        /\ KeyUser[asked[r].token] = Owner[asked[r].job]

\* A processing service may repeat itself: while all the callbacks a job has
\* received carry one body, every webhook that was started agrees with the
\* row, and so with what the client reads from then on: in the status, in the
\* URL unless it is absent, and in the members of an error unless they are
\* empty, for the webhook passes those on.  A body without error is told with
\* one code, but with two messages: "Processing failed" by the webhook,
\* "Processing failed without details" by the row.  Nor do the dates agree.
DuplicatesAreHarmless ==
    \A c \in Callbacks :
        webhook[c] # "none" /\ (\A b \in Named(Body[c].jobId) : Body[b] = Body[c]) =>
            LET job == row[Body[c].jobId]
                sent == Payload(c)
            IN  /\ job.status = sent.status
                /\ sent.status = "completed" =>
                      sent.resultUrl \in {job.resultUrl, Undefined}
                /\ sent.status = "failed" =>
                      /\ sent.error.code \in {job.errorCode} \cup Falsy
                      /\ \/ Body[c].error = NoError
                         \/ sent.error.message \in {job.errorMessage} \cup Falsy

\* A webhook is signed with the secret of a key of the job's owner; the empty
\* secret is used only if one of the owner's keys has no secret, or if every
\* one of them has been revoked.
UnsignedOnlyWithoutKeys ==
    \A c \in Callbacks : webhook[c] = "sent" =>
        LET own == {k \in Keys : KeyUser[k] = Owner[Body[c].jobId]}
        IN  \/ signer[c] \in own \ Secretless
            \/ /\ signer[c] = NoKey
               /\ own \cap Secretless # {} \/ \A k \in own : keys[k] = "revoked"
=============================================================================
