---------------------------- MODULE Idempotency ----------------------------
(***************************************************************************)
(* IdempotencyInterceptor, IdempotencyService and the idempotency_keys     *)
(* table around POST /v1/jobs.  The interceptor looks the key up, runs the *)
(* handler on a miss, and inserts the response when the handler is done:   *)
(* three awaits, between which other requests with the same key may run.   *)
(*                                                                         *)
(* A key here is the pair (user_id, idempotency_key) of the unique index.  *)
(* A row is known by the request whose response it stores: request_hash    *)
(* and response_body are that request's.  The handler is JobLifecycle's    *)
(* createJob, of which only the outcome matters here.                      *)
(***************************************************************************)
EXTENDS Naturals, FiniteSets

CONSTANTS
    Keys,         \* (user, Idempotency-Key) pairs
    Requests,     \* POST /v1/jobs calls of authenticated users
    KeyChoices,   \* ways clients may choose the key of each request, NoKey
                  \* for a request without the header
    LongKeys,     \* keys of more than 255 characters, too long for their column
    SeedKeys,     \* keys for which the seeder inserts a row
    SeedExpired,  \* keys for which it inserts one that has expired
    SeedRow,      \* what such a row names: a job that is no row of jobs
    SeedBody,     \* the body of which such a row stores the hash, by its key
    Body,         \* the JSON body of each request, as the client has sent it
    Refusals,     \* the error answers of createJob that leave nothing charged
    NoKey,        \* not a key
    NoRequest,    \* not a request
    Overlap,      \* whether clients may repeat a key that is in flight: the
                  \* set of the answers considered, a subset of BOOLEAN
    MaxFaults,    \* bound on database errors and process restarts
    MaxExpiries   \* bound on keys that outlive their 24 hours

\* JSON.stringify(body, Object.keys(body).sort()): the list of keys filters
\* the nested objects as well, so an option is kept only if it is named like
\* a member of the body itself.  SHA-256 is taken as injective.
hashRequestBody(body) ==
    [k \in DOMAIN body |->
        IF k = "options"
        THEN [o \in DOMAIN body.options \cap DOMAIN body |-> body.options[o]]
        ELSE body[k]]

\* What CreateJobDto requires.  The interceptor runs before ValidationPipe:
\* it looks up any body, and only the handler refuses one that lacks these.
Complete(body) == {"imageUrl", "webhookUrl"} \subseteq DOMAIN body

ASSUME IdempotencyAssumption ==
    /\ NoKey \notin Keys
    /\ NoRequest \notin Requests
    /\ SeedRow \notin Requests \cup {NoRequest}
    /\ KeyChoices \subseteq [Requests -> Keys \cup {NoKey}]
    /\ LongKeys \cup SeedKeys \cup SeedExpired \subseteq Keys
    /\ SeedKeys \cap SeedExpired = {}
    /\ 400 \in Refusals /\ Refusals \cap {0, 201, 202, 422} = {}
    /\ Overlap \subseteq BOOLEAN
    /\ MaxFaults \in Nat
    /\ MaxExpiries \in Nat

VARIABLES
    keyOf,     \* the key of each request
    overlap,   \* may clients repeat a key before they have an answer to it?
    savedBy,   \* the row of each key: the request it was saved by, SeedRow, or
               \* NoRequest if none
    active,    \* the rows whose expires_at is in the future
    pc,        \* how far the interceptor has gone for each request
    jobs,      \* the requests whose handler created a job that was charged
    code,      \* HTTP status answered, 0 before
    reply,     \* the job named by the answered body, SeedRow if it is the
               \* seeder's, NoRequest if none
    faults,
    expiries

calm == <<keyOf, overlap, faults, expiries>>
vars == <<savedBy, active, pc, jobs, code, reply, calm>>

TypeOK ==
    /\ keyOf \in KeyChoices
    /\ overlap \in Overlap
    /\ savedBy \in [Keys -> Requests \cup {SeedRow, NoRequest}]
    /\ active \in SUBSET Keys
    /\ pc \in [Requests -> {"idle", "lookup", "handler", "save", "answered", "lost"}]
    /\ jobs \in SUBSET Requests
    /\ code \in [Requests -> {0, 201, 202, 422, 500} \cup Refusals]
    /\ reply \in [Requests -> Requests \cup {SeedRow, NoRequest}]
    /\ faults \in 0..MaxFaults
    /\ expiries \in 0..MaxExpiries

Hash(r) == hashRequestBody(Body[r])
InFlight(r) == pc[r] \in {"lookup", "handler", "save"}

-----------------------------------------------------------------------------
Init ==
    /\ keyOf \in KeyChoices
    /\ overlap \in Overlap
    /\ savedBy = [k \in Keys |-> IF k \in SeedKeys \cup SeedExpired
                                THEN SeedRow ELSE NoRequest]
    /\ active = SeedKeys
    /\ pc = [r \in Requests |-> "idle"]
    /\ jobs = {}
    /\ code = [r \in Requests |-> 0]
    /\ reply = [r \in Requests |-> NoRequest]
    /\ faults = 0
    /\ expiries = 0

Fault ==
    /\ faults < MaxFaults
    /\ faults' = faults + 1
    /\ UNCHANGED <<keyOf, overlap, expiries>>

Goto(r, step) == pc' = [pc EXCEPT ![r] = step]

Answer(r, status, job) ==
    /\ Goto(r, "answered")
    /\ code' = [code EXCEPT ![r] = status]
    /\ reply' = [reply EXCEPT ![r] = job]

\* A request arrives; without the header the handler runs unprotected.
Arrive(r) ==
    /\ pc[r] = "idle"
    /\ overlap \/ \A s \in Requests : keyOf[s] = keyOf[r] => ~InFlight(s)
    /\ Goto(r, IF keyOf[r] = NoKey THEN "handler" ELSE "lookup")
    /\ UNCHANGED <<savedBy, active, jobs, code, reply, calm>>

Found(r) == keyOf[r] \in active /\ savedBy[keyOf[r]] # NoRequest

\* request_hash and response_status_code of the row of a key.
SavedHash(k) == hashRequestBody(IF savedBy[k] = SeedRow THEN SeedBody[k] ELSE Body[savedBy[k]])
SavedStatus(k) == IF savedBy[k] = SeedRow THEN 201 ELSE 202

\* Mutant: a conflict is answered with 409, as a duplicate is elsewhere.
RecallConflict(r, same) ==
    LET k == keyOf[r]
    IN  \/ same /\ Answer(r, SavedStatus(k), savedBy[k])
        \/ ~same /\ Answer(r, 409, NoRequest)

\* The end of a lookup that found an active row: same hash, or conflict.
Recall(r, same) ==
    LET k == keyOf[r]
    IN  \/ same /\ Answer(r, SavedStatus(k), savedBy[k])
        \/ ~same /\ Answer(r, 422, NoRequest)

\* Mutant: the hash of the body is not compared.
FindExistingAnyBody(r) ==
    /\ pc[r] = "lookup"
    /\ \/ Found(r) /\ Recall(r, TRUE)
       \/ ~Found(r) /\ Goto(r, "handler") /\ UNCHANGED <<code, reply>>
    /\ UNCHANGED <<savedBy, active, jobs, calm>>

\* Mutant: the lookup misses rows that are there.
FindExistingMisses(r) ==
    /\ pc[r] = "lookup"
    /\ Goto(r, "handler")
    /\ UNCHANGED <<savedBy, active, jobs, code, reply, calm>>

\* findActiveByUserAndKey filters on expires_at; a hit is answered at once.
FindExisting(r) ==
    /\ pc[r] = "lookup"
    /\ \/ Found(r) /\ Recall(r, Hash(r) = SavedHash(keyOf[r]))
       \/ ~Found(r) /\ Goto(r, "handler") /\ UNCHANGED <<code, reply>>
    /\ UNCHANGED <<savedBy, active, jobs, calm>>

FindExistingFails(r) ==
    /\ pc[r] = "lookup"
    /\ Fault
    /\ Answer(r, 500, NoRequest)
    /\ UNCHANGED <<savedBy, active, jobs>>

\* createJob succeeds: the job exists and is charged.
HandlerAccepts(r) ==
    /\ pc[r] = "handler"
    /\ Complete(Body[r])
    /\ jobs' = jobs \cup {r}
    /\ \/ keyOf[r] # NoKey /\ Goto(r, "save") /\ UNCHANGED <<code, reply>>
       \/ keyOf[r] = NoKey /\ Answer(r, 202, r)
    /\ UNCHANGED <<savedBy, active, calm>>

\* ValidationPipe or createJob throws: the exception goes past switchMap, and
\* nothing is cached.
HandlerRefuses(r) ==
    /\ pc[r] = "handler"
    /\ \E status \in Refusals :
          /\ Complete(Body[r]) \/ status = 400
          /\ Answer(r, status, NoRequest)
    /\ UNCHANGED <<savedBy, active, jobs, calm>>

\* A statement of createJob fails, now or in an earlier step of it.  The 500
\* does not say whether its transaction was committed.
HandlerBreaks(r) ==
    /\ pc[r] = "handler"
    /\ Complete(Body[r])
    /\ (Fault \/ (faults > 0 /\ UNCHANGED calm))
    /\ jobs' \in {jobs, jobs \cup {r}}
    /\ Answer(r, 500, NoRequest)
    /\ UNCHANGED <<savedBy, active>>

\* Something fails that no interceptor sees: a callback, say.
FaultElsewhere == Fault /\ UNCHANGED <<savedBy, active, pc, jobs, code, reply>>

\* Mutant: expires_at is the time of the INSERT.
SaveStale(r) ==
    /\ pc[r] = "save"
    /\ savedBy' = [savedBy EXCEPT ![keyOf[r]] = IF @ = NoRequest THEN r ELSE @]
    /\ Answer(r, 202, r)
    /\ UNCHANGED <<active, jobs, calm>>

\* Mutant: the refusal of the table is not caught.
SaveUncaught(r) ==
    /\ pc[r] = "save"
    /\ \/ /\ savedBy[keyOf[r]] = NoRequest /\ keyOf[r] \notin LongKeys
          /\ savedBy' = [savedBy EXCEPT ![keyOf[r]] = r]
          /\ active' = active \cup {keyOf[r]}
          /\ Answer(r, 202, r)
       \/ /\ savedBy[keyOf[r]] # NoRequest \/ keyOf[r] \in LongKeys
          /\ Answer(r, 500, NoRequest)
          /\ UNCHANGED <<savedBy, active>>
    /\ UNCHANGED <<jobs, calm>>

\* Mutant: the INSERT is an upsert, and the last response wins.
SaveOverwrites(r) ==
    /\ pc[r] = "save"
    /\ savedBy' = [savedBy EXCEPT ![keyOf[r]] = r]
    /\ active' = active \cup {keyOf[r]}
    /\ Answer(r, 202, r)
    /\ UNCHANGED <<jobs, calm>>

\* The unique index refuses a second row of a key, whether the first is
\* active or expired, and the column refuses a key that is too long.
TableRefuses(k) == savedBy[k] # NoRequest \/ k \in LongKeys

\* A plain INSERT; when the table refuses it, that is only logged.
Save(r) ==
    /\ pc[r] = "save"
    /\ \/ /\ ~TableRefuses(keyOf[r])
          /\ savedBy' = [savedBy EXCEPT ![keyOf[r]] = r]
          /\ active' = active \cup {keyOf[r]}
       \/ /\ TableRefuses(keyOf[r])
          /\ UNCHANGED <<savedBy, active>>
    /\ Answer(r, 202, r)
    /\ UNCHANGED <<jobs, calm>>

\* The INSERT fails for another reason; that is only logged too.  When only
\* its reply is lost, the outcome is Save's.
SaveFails(r) ==
    /\ pc[r] = "save"
    /\ Fault
    /\ Answer(r, 202, r)
    /\ UNCHANGED <<savedBy, active, jobs>>

\* 24 hours pass.  The row stays: no code deletes it.
Expire(k) ==
    /\ k \in active
    /\ expiries < MaxExpiries
    /\ expiries' = expiries + 1
    /\ active' = active \ {k}
    /\ UNCHANGED <<keyOf, overlap, savedBy, pc, jobs, code, reply, faults>>

\* The process restarts: requests in flight are never answered, though their
\* handlers may have committed a job.
Crash ==
    /\ Fault
    /\ pc' = [r \in Requests |-> IF InFlight(r) THEN "lost" ELSE pc[r]]
    /\ \E orphans \in SUBSET {r \in Requests : pc[r] = "handler" /\ Complete(Body[r])} :
          jobs' = jobs \cup orphans
    /\ UNCHANGED <<savedBy, active, code, reply>>

Quiescent ==
    /\ \A r \in Requests : pc[r] \in {"answered", "lost"}
    /\ UNCHANGED vars

Next ==
    \/ \E r \in Requests :
          \/ Arrive(r) \/ FindExisting(r) \/ FindExistingFails(r)
          \/ HandlerAccepts(r) \/ HandlerRefuses(r) \/ HandlerBreaks(r)
          \/ Save(r) \/ SaveFails(r)
    \/ \E k \in Keys : Expire(k)
    \/ FaultElsewhere
    \/ Crash
    \/ Quiescent

Spec == Init /\ [][Next]_vars

-----------------------------------------------------------------------------
(***************************************************************************)
(* Properties.                                                             *)
(***************************************************************************)

SameKey(r, s) == keyOf[r] # NoKey /\ keyOf[r] = keyOf[s]
SeedsKey(r) == keyOf[r] \in SeedKeys

\* A 202 names a job that exists, was created under the same key and for a
\* body with the same hash; a 422 is only sent for a key whose row has another
\* hash, a request's or the seeder's.  The one answer that names a job which
\* does not exist is the 201 of the seeder's rows, and only a request under
\* such a key whose body has the stored hash is given it.  Whatever fails or
\* overlaps, no client is given the job of somebody else.
RepliesAreFaithful ==
    \A r \in Requests :
        /\ code[r] = 202 =>
              /\ reply[r] \in jobs
              /\ reply[r] # r => SameKey(reply[r], r) /\ Hash(reply[r]) = Hash(r)
        /\ code[r] = 201 =>
              /\ reply[r] = SeedRow /\ SeedsKey(r)
              /\ Hash(r) = hashRequestBody(SeedBody[keyOf[r]])
        /\ code[r] = 422 =>
              \/ \E s \in jobs : SameKey(s, r) /\ Hash(s) # Hash(r)
              \/ SeedsKey(r) /\ Hash(r) # hashRequestBody(SeedBody[keyOf[r]])

\* As long as no key expires, all replays under a key name one job, however
\* many jobs a race has created: the INSERT that comes second is refused, and
\* does not replace a response that somebody may have been given already.
ReplaysAgree ==
    expiries = 0 =>
        \A r, s \in Requests :
            /\ SameKey(r, s)
            /\ code[r] \in {201, 202} /\ reply[r] # r
            /\ code[s] \in {201, 202} /\ reply[s] # s
            => reply[r] = reply[s]

\* A client that waits for each answer before it repeats a key gets what the
\* comment on the interceptor says, as long as nothing fails or expires and
\* the key fits its column and has no expired row: one key creates one job,
\* and its response is stored for later requests.
SequentialClientsAreSafe ==
    ~overlap /\ faults = 0 /\ expiries = 0 =>
        \A r \in jobs : keyOf[r] \in Keys \ (LongKeys \cup SeedExpired) =>
            /\ \A s \in jobs : SameKey(r, s) => r = s
            /\ pc[r] = "answered" => savedBy[keyOf[r]] = r

\* A job counts as created when its request is answered: before that only a
\* restart could tell, and then it counts as created by the restart.
Settled == {r \in jobs : pc[r] # "save"}
Fate == [r \in Requests |-> IF pc[r] \in {"answered", "lost"} THEN pc[r] ELSE "open"]

Service == INSTANCE IdempotentService WITH
    first <- savedBy, live <- active, made <- Settled, fate <- Fate,
    Digest <- [r \in Requests |-> Hash(r)],
    SeedDigest <- [k \in Keys |-> hashRequestBody(SeedBody[k])],
    Invalid <- {r \in Requests : ~Complete(Body[r])}

\* The interceptor behaves as if each request were served in one step: clients
\* that wait find no trace of its awaits, the others only jobs too many.
ImplementsService == Service!Spec

\* A client that waits is told of one job under a key, and of at most one more
\* with each fault.
FewJobsAreTold == Service!FewJobsAreTold

\* The comment on the interceptor: with a key, the handler is not executed
\* again, so one key creates at most one job.
OneJobPerKey ==
    \A r, s \in jobs : SameKey(r, s) => r = s

\* The same comment: on a miss the response is stored for later requests
\* with the same key.
AcceptedAreStored ==
    \A r \in jobs :
        code[r] = 202 /\ keyOf[r] # NoKey => savedBy[keyOf[r]] = r

\* The comment before the 422: a key that was used with a different body is
\* a conflict, so a replay only ever answers an identical body.
ReplaysHaveSameBody ==
    \A r \in Requests : code[r] = 202 => Body[reply[r]] = Body[r]
=============================================================================
