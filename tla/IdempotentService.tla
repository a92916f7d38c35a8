------------------------- MODULE IdempotentService -------------------------
(***************************************************************************)
(* What POST /v1/jobs promises to clients that send an Idempotency-Key,    *)
(* with nothing of how it keeps the promise: every request is served in    *)
(* one step, and a key that has been answered is answered like that again. *)
(* IdempotencyInterceptor takes three awaits for a request; Idempotency is *)
(* shown to implement this module, where there are none.                   *)
(*                                                                         *)
(* What may go wrong is part of the promise, each time with its reason: a  *)
(* fault, a key that has expired or cannot be stored, or a client that     *)
(* does not wait for its answer.                                           *)
(***************************************************************************)
EXTENDS Naturals, FiniteSets

CONSTANTS
    Keys,         \* (user, Idempotency-Key) pairs
    Requests,     \* the requests that clients may send
    LongKeys,     \* keys that cannot be stored
    SeedKeys,     \* keys answered before the start, with SeedRow,
    SeedExpired,  \* and those of them that have expired
    SeedRow,
    Digest,       \* what is compared of the body of each request,
    SeedDigest,   \* and of the body the seeder has answered, by key
    Invalid,      \* requests that must not create a job
    Refusals,     \* answers that create nothing
    NoKey,        \* not a key
    NoRequest     \* not a request

VARIABLES
    keyOf,     \* the key of each request, or NoKey
    overlap,   \* may clients repeat a key before they have an answer to it?
    first,     \* the request whose answer a key repeats, NoRequest if none
    live,      \* the keys that do repeat it
    made,      \* the requests for which a job was created
    fate,      \* "open", "answered" or, when nobody will answer it, "lost"
    code,      \* HTTP status answered, 0 before
    reply,     \* the job named by the answer, NoRequest if none
    faults, expiries

calm == <<keyOf, overlap, faults, expiries>>
vars == <<first, live, made, fate, code, reply, calm>>

-----------------------------------------------------------------------------
Init ==
    /\ keyOf \in [Requests -> Keys \cup {NoKey}]
    /\ overlap \in BOOLEAN
    /\ first = [k \in Keys |-> IF k \in SeedKeys \cup SeedExpired THEN SeedRow ELSE NoRequest]
    /\ live = SeedKeys
    /\ made = {}
    /\ fate = [r \in Requests |-> "open"]
    /\ code = [r \in Requests |-> 0]
    /\ reply = [r \in Requests |-> NoRequest]
    /\ faults = 0
    /\ expiries = 0

Fault == faults' = faults + 1 /\ UNCHANGED <<keyOf, overlap, expiries>>

Answer(r, status, job) ==
    /\ code' = [code EXCEPT ![r] = status]
    /\ reply' = [reply EXCEPT ![r] = job]

\* A request is looked into only if its key has no answer to repeat, unless
\* the client did not wait for that; then a valid one may create a job.
MayRun(r) == overlap \/ keyOf[r] \notin live
MayCreate(r) == r \notin Invalid /\ MayRun(r)

\* The first answer of a key is the one it keeps.
Keep(r) ==
    LET k == keyOf[r]
    IN  \/ /\ k \in Keys \ LongKeys /\ first[k] = NoRequest
           /\ first' = [first EXCEPT ![k] = r]
           /\ live' = live \cup {k}
       \/ /\ k \notin Keys \ LongKeys \/ first[k] # NoRequest
          /\ UNCHANGED <<first, live>>

Create(r) ==
    /\ MayCreate(r)
    /\ made' = made \cup {r}
    /\ Answer(r, 202, r)
    /\ Keep(r) /\ UNCHANGED calm

\* A fault may make the service forget its answer, but not give none.
CreateAndForget(r) ==
    /\ MayCreate(r)
    /\ made' = made \cup {r}
    /\ Answer(r, 202, r)
    /\ Fault /\ UNCHANGED <<first, live>>

Matches(r) ==
    Digest[r] = IF first[keyOf[r]] = SeedRow THEN SeedDigest[keyOf[r]] ELSE Digest[first[keyOf[r]]]

\* The seeder's answer has the seeder's status.
Replay(r) ==
    /\ keyOf[r] \in live /\ Matches(r)
    /\ Answer(r, IF first[keyOf[r]] = SeedRow THEN 201 ELSE 202, first[keyOf[r]])
    /\ UNCHANGED <<first, live, made, calm>>

Conflict(r) ==
    /\ keyOf[r] \in live /\ ~Matches(r)
    /\ Answer(r, 422, NoRequest)
    /\ UNCHANGED <<first, live, made, calm>>

Refuse(r) ==
    /\ MayRun(r)
    /\ \E status \in Refusals :
          /\ r \in Invalid => status = 400
          /\ Answer(r, status, NoRequest)
    /\ UNCHANGED <<first, live, made, calm>>

\* After a fault a 500 may hide a job.
Break(r) ==
    /\ Fault \/ (faults > 0 /\ UNCHANGED calm)
    /\ made' = made \/ (MayCreate(r) /\ made' = made \cup {r})
    /\ Answer(r, 500, NoRequest)
    /\ UNCHANGED <<first, live>>

\* A request is served at once, in one of these ways.
Serve(r) ==
    /\ fate[r] = "open"
    /\ fate' = [fate EXCEPT ![r] = "answered"]
    /\ \/ Create(r) \/ CreateAndForget(r) \/ Replay(r) \/ Conflict(r)
       \/ Refuse(r) \/ Break(r)

\* Requests are lost, with or without a job, but no two of one key whose
\* clients wait.
Lose ==
    /\ Fault
    /\ \E lost \in SUBSET {r \in Requests : fate[r] = "open"} :
          /\ overlap \/ \A r, s \in lost : keyOf[r] = keyOf[s] => r = s
          /\ fate' = [r \in Requests |-> IF r \in lost THEN "lost" ELSE fate[r]]
          /\ \E created \in SUBSET {r \in lost : MayCreate(r)} : made' = made \cup created
    /\ UNCHANGED <<first, live, code, reply>>

FaultElsewhere == Fault /\ UNCHANGED <<first, live, made, fate, code, reply>>

\* A key that has expired repeats its answer no longer, and keeps no other.
Expire(k) ==
    /\ live' = live \ {k}
    /\ expiries' = expiries + 1
    /\ UNCHANGED <<keyOf, overlap, faults, first, made, fate, code, reply>>

Next ==
    \/ \E r \in Requests : Serve(r)
    \/ \E k \in live : Expire(k)
    \/ Lose
    \/ FaultElsewhere

Spec == Init /\ [][Next]_vars

-----------------------------------------------------------------------------
(***************************************************************************)
(* What follows for a client.                                              *)
(***************************************************************************)
Told(k) == {reply[r] : r \in {s \in Requests : keyOf[s] = k /\ code[s] \in {201, 202}}}

\* Clients that wait for their answers are told of one job under a key, and
\* of at most one more with each fault, until the key expires.
FewJobsAreTold ==
    ~overlap /\ expiries = 0 =>
        \A k \in Keys \ (LongKeys \cup SeedExpired) : Cardinality(Told(k)) <= 1 + faults
=============================================================================
