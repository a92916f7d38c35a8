-------------------------- MODULE WebhookDelivery --------------------------
(***************************************************************************)
(* One webhook, from CallbackService.deliverWebhook to its end:            *)
(* WebhookService.deliver signs the body once, and                         *)
(* HttpService.requestWithRetry posts it until an answer is final or the   *)
(* attempts are used up.  The client's endpoint is the environment: it may *)
(* answer anything, or process the body without its answer arriving.       *)
(*                                                                         *)
(* Time is counted in seconds since the signature, which no retry renews.  *)
(***************************************************************************)
EXTENDS Naturals, Sequences

CONSTANTS
    MaxRetries,  \* MAX_RETRIES: attempts in all, not retries
    BaseDelay,   \* BASE_DELAY_MS, in seconds
    Timeout      \* TIMEOUT_MS, in seconds

ASSUME DeliveryAssumption ==
    /\ MaxRetries \in Nat \ {0}
    /\ BaseDelay \in Nat
    /\ Timeout \in Nat \ {0}

VARIABLES
    pc,        \* "request", "sleep" or "returned"
    attempt,   \* the loop counter
    age,       \* seconds since X-Timestamp
    answers,   \* what each attempt ended with, in order
    received,  \* how often the endpoint has processed the body
    result     \* [success, attempts] once returned

vars == <<pc, attempt, age, answers, received, result>>

\* How a post ends, once fetch has followed any redirects: "4xx" stands for
\* every status that is final without being a success, so for 304 as well, and
\* "error" for a fetch that throws: refused, reset, timed out.
Answers == {"2xx", "4xx", "5xx", "error"}
Pending == [success |-> FALSE, attempts |-> 0]

\* retryOnStatusCodes of deliver, and the catch of the loop.
Retryable(a) == a \in {"5xx", "error"}

Delay(n) == BaseDelay * 2^(n - 1)

TypeOK ==
    /\ pc \in {"request", "sleep", "returned"}
    /\ attempt \in 1..MaxRetries
    /\ age \in Nat
    /\ answers \in Seq(Answers)
    /\ received \in 0..MaxRetries
    /\ result \in [success : BOOLEAN, attempts : 0..MaxRetries]

Init ==
    /\ pc = "request"
    /\ attempt = 1
    /\ age = 0
    /\ answers = <<>>
    /\ received = 0
    /\ result = Pending

\* One request: it takes up to Timeout seconds, and a lost or failed answer
\* says nothing of whether the endpoint has processed the body.  That a 2xx
\* says so is taken of the endpoint: one that redirects the POST to a page
\* which a GET finds would make a success of nothing.
Post(a, took, processed) ==
    /\ took \in 0..Timeout
    /\ a = "2xx" => processed = 1
    /\ age' = age + took
    /\ answers' = Append(answers, a)
    /\ received' = received + processed

Return(success) ==
    /\ pc' = "returned"
    /\ result' = [success |-> success, attempts |-> attempt]
    /\ UNCHANGED attempt

\* Mutant: an error thrown by fetch leaves the loop.
RequestNoCatch(a, took, processed) ==
    /\ pc = "request"
    /\ Post(a, took, processed)
    /\ \/ a # "5xx" /\ Return(a = "2xx")
       \/ a = "5xx" /\ attempt = MaxRetries /\ Return(FALSE)
       \/ /\ a = "5xx" /\ attempt < MaxRetries
          /\ pc' = "sleep"
          /\ UNCHANGED <<attempt, result>>

\* Mutant: the loop runs once more than MAX_RETRIES says.
RequestOneMore(a, took, processed) ==
    /\ pc = "request"
    /\ Post(a, took, processed)
    /\ \/ ~Retryable(a) /\ Return(a = "2xx")
       \/ Retryable(a) /\ attempt > MaxRetries /\ Return(FALSE)
       \/ /\ Retryable(a) /\ attempt <= MaxRetries
          /\ pc' = "sleep"
          /\ UNCHANGED <<attempt, result>>

\* The body of the loop: success and final answers return, the last failure
\* returns without a sleep, any other failure sleeps.
Request(a, took, processed) ==
    /\ pc = "request"
    /\ Post(a, took, processed)
    /\ \/ ~Retryable(a) /\ Return(a = "2xx")
       \/ Retryable(a) /\ attempt = MaxRetries /\ Return(FALSE)
       \/ /\ Retryable(a) /\ attempt < MaxRetries
          /\ pc' = "sleep"
          /\ UNCHANGED <<attempt, result>>

Wake(seconds) ==
    /\ pc = "sleep"
    /\ age' = age + seconds
    /\ attempt' = attempt + 1
    /\ pc' = "request"
    /\ UNCHANGED <<answers, received, result>>

\* Mutant: the exponent is the attempt, not the attempt less one.
SleepLonger == Wake(BaseDelay * 2^attempt)

Sleep == Wake(Delay(attempt))

Done == pc = "returned" /\ UNCHANGED vars

Next ==
    \/ \E a \in Answers, took \in 0..Timeout, processed \in 0..1 :
          Request(a, took, processed)
    \/ Sleep
    \/ Done

Spec == Init /\ [][Next]_vars

-----------------------------------------------------------------------------
(***************************************************************************)
(* Properties.                                                             *)
(***************************************************************************)

\* What deliverWebhook logs is what happened: every post is counted, a
\* success was processed by the client, only 5xx and network errors were
\* followed by another post, and a failure is reported only once an answer
\* was final or every attempt was used.
ReportIsAccurate ==
    LET last == answers[Len(answers)]
    IN  pc = "returned" =>
            /\ result.attempts = Len(answers)
            /\ \A i \in 1..Len(answers) - 1 : Retryable(answers[i])
            /\ result.success <=> last = "2xx"
            /\ result.success => received > 0
            /\ last # "2xx" => last = "4xx" \/ Len(answers) = MaxRetries

\* Retries repeat the first X-Timestamp, so a client that refuses old
\* timestamps must allow for this many seconds before the last post starts.
OldestSignature ==
    (MaxRetries - 1) * Timeout + BaseDelay * (2^(MaxRetries - 1) - 1)

\* No post starts with an older signature than that.
SignatureStaysFresh == pc = "request" => age <= OldestSignature
=============================================================================
