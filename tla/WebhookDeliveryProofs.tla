----------------------- MODULE WebhookDeliveryProofs -----------------------
(***************************************************************************)
(* WebhookDelivery for any number of attempts, delay and timeout: what is  *)
(* reported is what happened, and no post starts with a signature older    *)
(* than the documented schedule makes it.                                  *)
(***************************************************************************)
EXTENDS WebhookDelivery, TLAPS

\* The loop counter, seen from the answers: all but the current attempt have
\* ended, every one of them in a failure that is retried.
Failures == \A i \in 1..Len(answers) : Retryable(answers[i])

LoopInv ==
    /\ pc = "request" => Len(answers) = attempt - 1 /\ Failures
    /\ pc = "sleep" => Len(answers) = attempt /\ attempt < MaxRetries /\ Failures
    /\ pc = "returned" => Len(answers) = attempt
    /\ received <= Len(answers)

\* TypeOK but for the clock, whose steps are powers of two.
LoopTypeOK ==
    /\ pc \in {"request", "sleep", "returned"}
    /\ attempt \in 1..MaxRetries
    /\ answers \in Seq(Answers)
    /\ received \in 0..MaxRetries
    /\ result \in [success : BOOLEAN, attempts : 0..MaxRetries]

IInv == LoopTypeOK /\ LoopInv /\ ReportIsAccurate

LEMMA InitEstablishes == Init => IInv
BY DeliveryAssumption
DEF Init, IInv, LoopTypeOK, LoopInv, ReportIsAccurate, Failures, Pending

\* One more answer leaves the earlier ones alone.
LEMMA PostAppends ==
    ASSUME LoopTypeOK, NEW a \in Answers, NEW took \in 0..Timeout,
           NEW processed \in 0..1, Post(a, took, processed)
    PROVE  /\ answers' \in Seq(Answers)
           /\ Len(answers') = Len(answers) + 1
           /\ answers'[Len(answers) + 1] = a
           /\ \A i \in 1..Len(answers) : answers'[i] = answers[i]
BY DeliveryAssumption DEF LoopTypeOK, Post

LEMMA RequestPreserves ==
    ASSUME IInv, NEW a \in Answers, NEW took \in 0..Timeout,
           NEW processed \in 0..1, Request(a, took, processed)
    PROVE  IInv'
<1> DEFINE n == Len(answers)
<1> USE DEF IInv
<1>1. /\ answers' \in Seq(Answers) /\ Len(answers') = n + 1 /\ answers'[n + 1] = a
      /\ \A i \in 1..n : answers'[i] = answers[i]
  BY PostAppends DEF Request
<1>2. /\ n \in Nat /\ attempt = n + 1 /\ attempt \in 1..MaxRetries
      /\ received <= n /\ received \in Nat
      /\ \A i \in 1..n : Retryable(answers[i])
  BY DeliveryAssumption DEF Request, LoopInv, LoopTypeOK, Failures
<1>3. /\ attempt' = attempt /\ received' = received + processed
      /\ \A i \in 1..n : Retryable(answers'[i])
  BY <1>1, <1>2 DEF Request, Post, Return
<1> HIDE DEF n
<1>4. received' \in 0..MaxRetries /\ received' <= n + 1
  BY <1>2, <1>3, DeliveryAssumption
<1>5. CASE Return(a = "2xx") /\ ~Retryable(a)
  <2>1. /\ pc' = "returned" /\ result'.attempts = n + 1
        /\ result' = [success |-> (a = "2xx"), attempts |-> n + 1]
        /\ result'.success <=> a = "2xx"
    BY <1>2, <1>5 DEF Return
  <2>2. a \in {"2xx", "4xx"} /\ (a = "2xx" => received' > 0)
    BY <1>2, <1>5 DEF Retryable, Answers, Request, Post
  <2>3. LoopTypeOK'
    BY <1>1, <1>2, <1>3, <1>4, <2>1 DEF LoopTypeOK
  <2> QED
    BY <1>1, <1>2, <1>3, <1>4, <2>1, <2>2, <2>3 DEF LoopInv, ReportIsAccurate
<1>6. CASE Return(FALSE) /\ Retryable(a) /\ attempt = MaxRetries
  <2>1. /\ pc' = "returned"
        /\ result' = [success |-> FALSE, attempts |-> n + 1]
    BY <1>2, <1>6 DEF Return
  <2>2. a # "2xx"
    BY <1>6 DEF Retryable
  <2>3. LoopTypeOK'
    BY <1>1, <1>2, <1>3, <1>4, <2>1 DEF LoopTypeOK
  <2> QED
    BY <1>1, <1>2, <1>3, <1>4, <1>6, <2>1, <2>2, <2>3 DEF LoopInv, ReportIsAccurate
<1>7. CASE Retryable(a) /\ attempt < MaxRetries /\ pc' = "sleep" /\ UNCHANGED result
  <2>1. Failures'
    BY <1>1, <1>2, <1>3, <1>7 DEF Failures
  <2> QED
    BY <1>1, <1>2, <1>3, <1>4, <1>7, <2>1 DEF LoopInv, ReportIsAccurate, LoopTypeOK
<1> QED
  BY <1>5, <1>6, <1>7 DEF Request

LEMMA NextPreserves == IInv /\ [Next]_vars => IInv'
<1> SUFFICES ASSUME IInv, [Next]_vars PROVE IInv'
  OBVIOUS
<1>1. CASE Sleep
  BY <1>1, DeliveryAssumption
  DEF Sleep, Wake, IInv, LoopTypeOK, LoopInv, ReportIsAccurate, Failures
<1>2. CASE UNCHANGED vars
  BY <1>2 DEF vars, IInv, LoopTypeOK, LoopInv, ReportIsAccurate, Failures
<1> QED
  BY <1>1, <1>2, RequestPreserves DEF Next, Done

\* Every reachable state of a delivery fits together like this.
THEOREM Invariance == Spec => []IInv
BY InitEstablishes, NextPreserves, PTL DEF Spec

\* Whatever the endpoint answers, and however many attempts are allowed, the
\* log says what happened, and the loop gives up only when it may.
THEOREM ReportsAreAccurate == Spec => []ReportIsAccurate
<1>1. IInv => ReportIsAccurate
  BY DEF IInv
<1> QED
  BY <1>1, Invariance, PTL

-----------------------------------------------------------------------------
(***************************************************************************)
(* Time.  The provers know the powers of two as numbers, not by a law, so  *)
(* what follows is for MAX_RETRIES up to ManyRetries.  The code has 3.     *)
(***************************************************************************)
ManyRetries == 8

LEMMA PowersOfTwo ==
    ASSUME NEW n \in 0..ManyRetries - 1
    PROVE  2^n \in Nat \ {0} /\ 2^(n + 1) = 2 * 2^n
<1>1. n \in {0, 1, 2, 3, 4, 5, 6, 7}
  BY DEF ManyRetries
<1>2. CASE n = 0 BY <1>2
<1>3. CASE n = 1 BY <1>3
<1>4. CASE n = 2 BY <1>4
<1>5. CASE n = 3 BY <1>5
<1>6. CASE n = 4 BY <1>6
<1>7. CASE n = 5 BY <1>7
<1>8. CASE n = 6 BY <1>8
<1>9. CASE n = 7 BY <1>9
<1> QED
  BY <1>1, <1>2, <1>3, <1>4, <1>5, <1>6, <1>7, <1>8, <1>9

\* The oldest a signature is when attempt n + 1 is posted.
Oldest(n) == n * Timeout + BaseDelay * (2^n - 1)

\* Another attempt, with the sleep before it, and no later one, makes the
\* signature older by at most this.
LEMMA OldestGrows ==
    ASSUME NEW n \in 0..ManyRetries - 1
    PROVE  /\ Oldest(n) \in Nat /\ BaseDelay * 2^n \in Nat
           /\ Oldest(n + 1) = Oldest(n) + Timeout + BaseDelay * 2^n
<1> DEFINE p == 2^n
<1>1. p \in Nat \ {0} /\ 2^(n + 1) = 2 * p
  BY PowersOfTwo
<1> HIDE DEF p
<1>2. /\ n * Timeout \in Nat /\ BaseDelay * (p - 1) \in Nat /\ BaseDelay * p \in Nat
      /\ BaseDelay * (2 * p - 1) = BaseDelay * (p - 1) + BaseDelay * p
      /\ (n + 1) * Timeout = n * Timeout + Timeout
  <2>1. /\ BaseDelay \in Nat /\ Timeout \in Nat /\ n \in Nat
    BY DeliveryAssumption
  <2> QED
    BY <1>1, <2>1
<1>3. 2^n = p
  BY DEF p
<1> QED
  BY <1>1, <1>2, <1>3, DeliveryAssumption DEF Oldest

LEMMA OldestIsMonotone ==
    ASSUME NEW m \in 0..ManyRetries, NEW n \in 0..ManyRetries, m <= n
    PROVE  Oldest(m) \in Nat /\ Oldest(n) \in Nat /\ Oldest(m) <= Oldest(n)
<1> DEFINE f == [k \in 0..ManyRetries |-> Oldest(k)]
<1>1. \A k \in 0..ManyRetries - 1 : f[k] \in Nat /\ f[k] <= f[k + 1] /\ f[k + 1] \in Nat
  <2> SUFFICES ASSUME NEW k \in 0..ManyRetries - 1
               PROVE  f[k] \in Nat /\ f[k] <= f[k + 1] /\ f[k + 1] \in Nat
    OBVIOUS
  <2>1. f[k] = Oldest(k) /\ f[k + 1] = Oldest(k + 1)
    BY DEF ManyRetries
  <2> HIDE DEF f
  <2> QED
    BY <2>1, OldestGrows, DeliveryAssumption
<1>2. f[m] = Oldest(m) /\ f[n] = Oldest(n)
  OBVIOUS
<1> HIDE DEF f
<1>3. /\ f[0] <= f[1] /\ f[1] <= f[2] /\ f[2] <= f[3] /\ f[3] <= f[4]
      /\ f[4] <= f[5] /\ f[5] <= f[6] /\ f[6] <= f[7] /\ f[7] <= f[8]
      /\ \A k \in 0..8 : f[k] \in Nat
  BY <1>1 DEF ManyRetries
<1>4. f[m] \in Nat /\ f[n] \in Nat /\ f[m] <= f[n]
  BY <1>3 DEF ManyRetries
<1> QED
  BY <1>2, <1>4

\* The signature is no older than the attempts and the sleeps so far allow.
AgeInv ==
    /\ age \in Nat
    /\ pc = "request" => age <= Oldest(attempt - 1)
    /\ pc = "sleep" => age <= Oldest(attempt - 1) + Timeout

LEMMA AgeInit == Init => AgeInv
<1>1. Oldest(0) \in Nat
  BY OldestIsMonotone DEF ManyRetries
<1> QED
  BY <1>1 DEF Init, AgeInv

LEMMA AgeNext ==
    ASSUME MaxRetries <= ManyRetries, IInv, AgeInv, [Next]_vars
    PROVE  AgeInv'
<1> DEFINE n == attempt - 1
<1>1. n \in 0..ManyRetries - 1 /\ n \in Nat /\ attempt = n + 1
  BY DeliveryAssumption DEF IInv, LoopTypeOK, ManyRetries
<1>2. /\ Oldest(n) \in Nat /\ BaseDelay * 2^n \in Nat
      /\ Oldest(attempt) = Oldest(n) + Timeout + BaseDelay * 2^n
  BY <1>1, OldestGrows
<1>3. CASE Sleep
  <2>1. /\ age \in Nat /\ age <= Oldest(n) + Timeout /\ age' = age + BaseDelay * 2^n
        /\ pc' = "request" /\ attempt' = attempt + 1
    BY <1>3 DEF Sleep, Wake, Delay, AgeInv
  <2>2. Oldest(attempt' - 1) = Oldest(attempt)
    BY <1>1, <2>1
  <2>3. age' \in Nat /\ age' <= Oldest(attempt)
    BY <1>2, <2>1, DeliveryAssumption
  <2>4. (Oldest(attempt - 1))' = Oldest(attempt' - 1)
    BY DEF Oldest
  <2> QED
    BY <2>1, <2>2, <2>3, <2>4 DEF AgeInv
<1>4. ASSUME NEW a \in Answers, NEW took \in 0..Timeout, NEW processed \in 0..1,
             Request(a, took, processed)
      PROVE  AgeInv'
  <2>1. /\ age \in Nat /\ age <= Oldest(n) /\ age' = age + took
        /\ pc' \in {"sleep", "returned"} /\ attempt' = attempt
    BY <1>4 DEF Request, Post, Return, AgeInv
  <2>2. (Oldest(attempt - 1))' = Oldest(n)
    BY <2>1 DEF Oldest
  <2>3. age' \in Nat /\ age' <= Oldest(n) + Timeout
    BY <1>2, <2>1, DeliveryAssumption
  <2> QED
    BY <2>1, <2>2, <2>3 DEF AgeInv
<1>5. CASE UNCHANGED vars
  BY <1>5 DEF vars, AgeInv, Oldest
<1> QED
  BY <1>3, <1>4, <1>5 DEF Next, Done

LEMMA AgeInvariance ==
    ASSUME MaxRetries <= ManyRetries
    PROVE  Spec => [](IInv /\ AgeInv)
<1>1. IInv /\ AgeInv /\ [Next]_vars => AgeInv'
  BY AgeNext
<1> QED
  BY <1>1, AgeInit, Invariance, PTL DEF Spec

\* TypeOK holds in every reachable state.
THEOREM DeliveryTypeCorrect ==
    ASSUME MaxRetries <= ManyRetries
    PROVE  Spec => []TypeOK
<1>1. IInv /\ AgeInv => TypeOK
  BY DEF IInv, LoopTypeOK, AgeInv, TypeOK
<1> QED
  BY <1>1, AgeInvariance, PTL

\* For any base delay and timeout, no post starts with an older X-Timestamp
\* than the sum of the timeouts and the delays before it.
THEOREM SignaturesStayFresh ==
    ASSUME MaxRetries <= ManyRetries
    PROVE  Spec => []SignatureStaysFresh
<1>1. IInv /\ AgeInv => SignatureStaysFresh
  <2> SUFFICES ASSUME IInv, AgeInv, pc = "request" PROVE age <= OldestSignature
    BY DEF SignatureStaysFresh
  <2>1. /\ attempt - 1 \in 0..ManyRetries /\ MaxRetries - 1 \in 0..ManyRetries
        /\ attempt - 1 <= MaxRetries - 1
    BY DeliveryAssumption DEF IInv, LoopTypeOK, ManyRetries
  <2>2. /\ Oldest(attempt - 1) \in Nat /\ Oldest(MaxRetries - 1) \in Nat
        /\ Oldest(attempt - 1) <= Oldest(MaxRetries - 1)
    BY <2>1, OldestIsMonotone
  <2>3. OldestSignature = Oldest(MaxRetries - 1)
    BY DEF OldestSignature, Oldest
  <2> QED
    BY <2>2, <2>3 DEF AgeInv
<1> QED
  BY <1>1, AgeInvariance, PTL
=============================================================================
