---------------------------- MODULE MCJobResults ----------------------------
(***************************************************************************)
(* A small instance of JobResults: two users with a job each, who may ask  *)
(* for each other's; the key of the second one has no secret.              *)
(***************************************************************************)
EXTENDS JobResults, TLC

CONSTANTS alice, bob, open, over, unknown, k1, kb, none,
          c1, c2, c3, c4, c5, c6, c7, g1, seed

MCOwner == (open :> alice) @@ (over :> bob)
MCKeyUser == (k1 :> alice) @@ (kb :> bob)

\* A queued job, and one the seeder has inserted as failed.
MCInitialRow ==
    LET new == [status |-> "queued", resultUrl |-> Null, completedAt |-> Null,
                errorCode |-> Null, errorMessage |-> Null, failedAt |-> Null]
    IN  (open :> new) @@
        (over :> [new EXCEPT !.status = "failed", !.errorCode = "PROCESSING_ERROR",
                             !.errorMessage = "Simulated processing failure",
                             !.failedAt = seed])

Done(job, url) == [jobId |-> job, status |-> "completed", resultUrl |-> url, error |-> NoError]
Broken(job, error) == [jobId |-> job, status |-> "failed", resultUrl |-> Undefined, error |-> error]
Error(code, message) == [code |-> code, message |-> message]

\* Two equal results, one without URL, and a failure with an empty message;
\* for the job that is over, a failure with too long a code and one without
\* error; and a result for no job.
\* Three of them arrive: enough for a URL to outlive a failure.
MCBody ==
    (c1 :> Done(open, "url")) @@ (c2 :> Done(open, "url")) @@ (c3 :> Done(open, Undefined))
    @@ (c4 :> Broken(open, Error("CODE", ""))) @@ (c5 :> Broken(over, Error(TooLong, "why")))
    @@ (c6 :> Done(unknown, "url")) @@ (c7 :> Broken(over, NoError))

\* c1 and c2 differ in nothing.
Twins == Permutations({c1, c2})
=============================================================================
