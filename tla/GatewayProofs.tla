---------------------------- MODULE GatewayProofs ----------------------------
(***************************************************************************)
(* Theorems about Gateway, for any constants: what is proved of the        *)
(* lifecycle and of the interceptor apart holds when they are put          *)
(* together, and what a client pays for follows from both.                 *)
(***************************************************************************)
EXTENDS Gateway, JobLifecycleProofs

\* Idempotency with its proofs, under the mapping of Gateway.
Cache == INSTANCE IdempotencyProofs WITH
    pc <- stage, jobs <- Accepted, Refusals <- {400, 402, 429, 503}

LEMMA CacheAssumption == Cache!IdempotencyAssumption
BY GatewayAssumption, LifecycleAssumption DEF Cache!IdempotencyAssumption

-----------------------------------------------------------------------------
\* Idem, the instance the model checker uses, is the same specification.
LEMMA SameSteps ==
    ASSUME NEW r
    PROVE  /\ Idem!Arrive(r) <=> Cache!Arrive(r)
           /\ Idem!FindExisting(r) <=> Cache!FindExisting(r)
           /\ Idem!FindExistingFails(r) <=> Cache!FindExistingFails(r)
           /\ Idem!HandlerAccepts(r) <=> Cache!HandlerAccepts(r)
           /\ Idem!HandlerRefuses(r) <=> Cache!HandlerRefuses(r)
           /\ Idem!HandlerBreaks(r) <=> Cache!HandlerBreaks(r)
           /\ Idem!Save(r) <=> Cache!Save(r)
           /\ Idem!SaveFails(r) <=> Cache!SaveFails(r)
<1>1. /\ Idem!Fault <=> Cache!Fault
      /\ \A http, job : Idem!Answer(r, http, job) <=> Cache!Answer(r, http, job)
      /\ \A step : Idem!Goto(r, step) <=> Cache!Goto(r, step)
      /\ Idem!calm = Cache!calm /\ Idem!calm' = Cache!calm'
  BY DEF Idem!Fault, Cache!Fault, Idem!Answer, Cache!Answer, Idem!Goto, Cache!Goto,
         Idem!calm, Cache!calm
<1>2. /\ \A s : Idem!InFlight(s) <=> Cache!InFlight(s)
      /\ \A s : Idem!Hash(s) = Cache!Hash(s)
  BY DEF Idem!InFlight, Cache!InFlight, Idem!Hash, Cache!Hash,
         Idem!hashRequestBody, Cache!hashRequestBody
<1>3. /\ \A k : Idem!SavedHash(k) = Cache!SavedHash(k)
      /\ \A k : Idem!SavedStatus(k) = Cache!SavedStatus(k)
      /\ \A body : Idem!Complete(body) <=> Cache!Complete(body)
  BY DEF Idem!SavedHash, Cache!SavedHash, Idem!SavedStatus, Cache!SavedStatus,
         Idem!hashRequestBody, Cache!hashRequestBody, Idem!Complete, Cache!Complete
<1>4. \A same : Idem!Recall(r, same) <=> Cache!Recall(r, same)
  BY <1>1, <1>3 DEF Idem!Recall, Cache!Recall
<1>5. Idem!Arrive(r) <=> Cache!Arrive(r)
  BY <1>1, <1>2 DEF Idem!Arrive, Cache!Arrive
<1>6. Idem!FindExisting(r) <=> Cache!FindExisting(r)
  BY <1>1, <1>2, <1>3, <1>4 DEF Idem!FindExisting, Cache!FindExisting, Idem!Found, Cache!Found
<1>7. Idem!FindExistingFails(r) <=> Cache!FindExistingFails(r)
  BY <1>1 DEF Idem!FindExistingFails, Cache!FindExistingFails
<1>8. Idem!HandlerAccepts(r) <=> Cache!HandlerAccepts(r)
  BY <1>1, <1>3 DEF Idem!HandlerAccepts, Cache!HandlerAccepts
<1>9. Idem!HandlerRefuses(r) <=> Cache!HandlerRefuses(r)
  BY <1>1, <1>3 DEF Idem!HandlerRefuses, Cache!HandlerRefuses
<1>10. Idem!HandlerBreaks(r) <=> Cache!HandlerBreaks(r)
  BY <1>1, <1>3 DEF Idem!HandlerBreaks, Cache!HandlerBreaks
<1>11. Idem!Save(r) <=> Cache!Save(r)
  BY <1>1 DEF Idem!Save, Cache!Save, Idem!TableRefuses, Cache!TableRefuses
<1>12. Idem!SaveFails(r) <=> Cache!SaveFails(r)
  BY <1>1 DEF Idem!SaveFails, Cache!SaveFails
<1> QED
  BY <1>5, <1>6, <1>7, <1>8, <1>9, <1>10, <1>11, <1>12

LEMMA SameIdem ==
    /\ Idem!Init <=> Cache!Init
    /\ [Idem!Next]_Idem!vars <=> [Cache!Next]_Cache!vars
<1>1. Idem!Init <=> Cache!Init
  BY DEF Idem!Init, Cache!Init
<1>2. \A k : Idem!Expire(k) <=> Cache!Expire(k)
  BY DEF Idem!Expire, Cache!Expire
<1>3. /\ Idem!FaultElsewhere <=> Cache!FaultElsewhere
      /\ Idem!Crash <=> Cache!Crash
  BY DEF Idem!FaultElsewhere, Cache!FaultElsewhere, Idem!Crash, Cache!Crash,
         Idem!Fault, Cache!Fault, Idem!InFlight, Cache!InFlight, Idem!Complete, Cache!Complete
<1>4. Idem!vars = Cache!vars /\ Idem!vars' = Cache!vars'
  BY DEF Idem!vars, Cache!vars, Idem!calm, Cache!calm
<1>5. Idem!Quiescent <=> Cache!Quiescent
  BY <1>4 DEF Idem!Quiescent, Cache!Quiescent
<1>6. Idem!Next <=> Cache!Next
  BY SameSteps, <1>2, <1>3, <1>5 DEF Idem!Next, Cache!Next
<1> QED
  BY <1>1, <1>4, <1>6

-----------------------------------------------------------------------------
\* The interceptor and createJob agree on how far a request is, and on what
\* its answer was.
Refused == {400, 402, 429, 503}

Linked(r) ==
    /\ stage[r] \in {"idle", "lookup"} => pc[r] = "idle"
    /\ stage[r] = "handler" => response[r] = 0
    /\ stage[r] = "save" => response[r] = 202
    /\ stage[r] \in {"answered", "lost"} => pc[r] \in {"idle", "answered", "lost"}
    /\ stage[r] = "answered" <=> code[r] # 0
    /\ stage[r] = "answered" /\ response[r] = 202 => code[r] = 202 /\ reply[r] = r
    /\ code[r] \in Refused => response[r] = code[r]
    /\ code[r] = 422 => pc[r] = "idle"
    /\ code[r] = 202 => reply[r] \in Requests /\ response[reply[r]] = 202

\* ValidationPipe has let nothing else through.
PipeInv ==
    \A r \in Requests : ~Idem!Complete(Body[r]) =>
        /\ pc[r] \in {"idle", "answered", "lost"} /\ response[r] \in {0, 400}
        /\ status[r] = "absent"

LinkInv == \A r \in Requests : Linked(r)

\* Only what createJob has accepted is stored.
StoreInv == \A k \in Keys : savedBy[k] \in Requests => response[savedBy[k]] = 202

\* A statement of a compensation has failed, or its reply was lost.
Hurt(r) == {refund[r], mark[r]} \cap {"failed", "unconfirmed"} # {}

HurtInv == \A r \in Requests : Hurt(r) => faults > 0

GatewayInv == IInv /\ Cache!SafeInv /\ LinkInv /\ StoreInv /\ HurtInv /\ PipeInv

LEMMA GatewayStarts == GatewayInit => GatewayInv /\ Idem!Init
<1> SUFFICES ASSUME GatewayInit PROVE GatewayInv /\ Idem!Init
  OBVIOUS
<1>1. IInv
  BY TypeInit, RowsInit, LockInit, CheckedInit, RequestInit DEF IInv, GatewayInit
<1>2. Idem!Init
  <2>1. Accepted = {}
    BY DEF GatewayInit, Init, Accepted
  <2> QED
    BY <2>1 DEF GatewayInit, Init, Idem!Init
<1>3. Cache!SafeInv
  BY <1>2, SameIdem, CacheAssumption, Cache!SafeInit
<1>4. LinkInv /\ StoreInv /\ HurtInv
  BY GatewayAssumption, LifecycleAssumption
  DEF GatewayInit, Init, LinkInv, Linked, StoreInv, HurtInv, Hurt, Refused
<1>5. PipeInv
  BY Constants DEF GatewayInit, Init, PipeInv
<1> QED
  BY <1>1, <1>2, <1>3, <1>4, <1>5 DEF GatewayInv

-----------------------------------------------------------------------------
\* createJob changes nothing of other requests.
LEMMA CreateJobIsLocal ==
    ASSUME IInv, NEW r \in Requests, CreateJob(r), NEW s \in Requests, s # r
    PROVE  /\ pc'[s] = pc[s] /\ response'[s] = response[s]
           /\ status'[s] = status[s]
           /\ refund'[s] = refund[s] /\ mark'[s] = mark[s]
<1> USE Constants DEF IInv, TypeOK, Answer, Goto, tables, promises
<1>1. CASE ValidateUrls(r) \/ LockUserRow(r) \/ CheckLimits(r)
  BY <1>1 DEF ValidateUrls, LockUserRow, CheckLimits, Decide, Refuse, Admit
<1>2. CASE CommitJob(r) \/ CommitReplyLost(r) \/ TransactionFails(r)
  BY <1>2 DEF CommitJob, CommitReplyLost, DeductAndInsert, TransactionFails
<1>3. CASE DispatchJob(r) \/ DispatchRejected(r) \/ AnswerDispatchFailure(r)
  BY <1>3 DEF DispatchJob, DispatchRejected, Compensate, AnswerDispatchFailure
<1> QED
  BY <1>1, <1>2, <1>3 DEF CreateJob, HandleRequest

\* What createJob may have done to its own request: it goes on, accepts,
\* refuses with nothing charged, or breaks, which takes a fault.
Continues(r) ==
    /\ response'[r] = 0 /\ UNCHANGED calm

Accepts(r) ==
    /\ response'[r] = 202 /\ UNCHANGED <<calm, status, promises>>

Refuses(r) ==
    /\ response'[r] \in Refused /\ UNCHANGED <<calm, status, promises>>

Breaks(r) ==
    /\ response'[r] = 500
    /\ \/ Fault("database")
       \/ Hurt(r) /\ UNCHANGED <<calm, status, promises>>

LEMMA CreateJobOutcome ==
    ASSUME IInv, NEW r \in Requests, response[r] = 0, CreateJob(r)
    PROVE  Continues(r) \/ Accepts(r) \/ Refuses(r) \/ Breaks(r)
<1> USE DEF IInv, TypeOK, Continues, Accepts, Refuses, Breaks, Refused, tables, Answer, Goto
<1>1. CASE ValidateUrls(r) \/ LockUserRow(r) \/ CheckLimits(r) \/ CommitJob(r)
  BY <1>1 DEF ValidateUrls, LockUserRow, CheckLimits, Decide, Refuse, Admit, CommitJob,
              DeductAndInsert
<1>2. CASE DispatchJob(r) \/ DispatchRejected(r)
  BY <1>2 DEF DispatchJob, DispatchRejected, Compensate
<1>3. CASE AnswerDispatchFailure(r)
  BY <1>3 DEF AnswerDispatchFailure, Hurt
<1>4. CASE TransactionFails(r) \/ CommitReplyLost(r)
  BY <1>4 DEF TransactionFails, CommitReplyLost
<1> QED
  BY <1>1, <1>2, <1>3, <1>4 DEF CreateJob, HandleRequest

\* The requests Idempotency counts as charged, after a step of createJob.
LEMMA AcceptedNext ==
    ASSUME GatewayInv, NEW r \in Requests, Handler(r)
    PROVE  /\ Continues(r) => Accepted' = Accepted
           /\ Accepts(r) => Accepted' = Accepted \cup {r}
           /\ Refuses(r) => Accepted' = Accepted
           /\ Breaks(r) => Accepted' \in {Accepted, Accepted \cup {r}}
<1>0. /\ stage[r] = "handler" /\ response[r] = 0 /\ CreateJob(r) /\ IInv
      /\ DOMAIN stage = Requests
  BY DEF GatewayInv, LinkInv, Linked, Handler, Cache!SafeInv, Cache!TypeOK
<1>1. /\ stage'[r] \in {"handler", "save", "answered"}
      /\ \A s \in Requests \ {r} : stage'[s] = stage[s]
  BY <1>0 DEF Handler, Return, Send, client
<1>2. \A s \in Requests \ {r} : s \in Accepted' <=> s \in Accepted
  BY <1>0, <1>1, CreateJobIsLocal DEF Accepted
<1>3. r \notin Accepted /\ Accepted \subseteq Requests /\ Accepted' \subseteq Requests
  BY <1>0 DEF Accepted
<1>4. /\ response'[r] \in Refused \cup {0} => r \notin Accepted'
      /\ response'[r] = 202 => r \in Accepted'
  BY <1>1 DEF Accepted, Refused
<1> QED
  BY <1>2, <1>3, <1>4 DEF Continues, Accepts, Refuses, Breaks
\* What createJob leaves running answers nobody and removes no row.
LEMMA BackgroundIsSilent ==
    ASSUME IInv, NEW r \in Requests, Background(r)
    PROVE  /\ UNCHANGED <<handler, interceptor>>
           /\ \A s \in Requests : status'[s] = "absent" <=> status[s] = "absent"
           /\ UNCHANGED calm \/ \E kind \in FaultKinds : Fault(kind)
<1> USE Constants DEF IInv, TypeOK, Background, RequestInv, SafeRequest, BranchInv, Outstanding
<1>1. CASE RefundCredit(r) \/ RefundFails(r)
  BY <1>1 DEF RefundCredit, RefundFails, Fault
<1>2. CASE MarkFailed(r) \/ MarkFails(r)
  BY <1>2 DEF MarkFailed, MarkFails, WriteDispatchFailed, Fault
<1>3. CASE UpdateJob(r) \/ CallbackFails(r)
  BY <1>3 DEF UpdateJob, FinishCallback, CallbackFails, WriteVerdict, Fault
<1>4. CASE TimerFires(r) \/ RejectCallback(r) \/ FindJob(r) \/ CallbackLost(r)
  BY <1>4 DEF TimerFires, RejectCallback, FindJob, Find, CallbackLost, Fault, tables
<1>5. CASE DeliverWebhook(r)
  BY <1>5 DEF DeliverWebhook, LookupSecret, FinishDelivery, tables
<1> QED
  BY <1>1, <1>2, <1>3, <1>4, <1>5 DEF Callback

LEMMA BackgroundAcceptsNothing ==
    ASSUME IInv, NEW r \in Requests, Background(r)
    PROVE  Accepted' = Accepted
BY BackgroundIsSilent DEF Accepted, handler, interceptor, client

\* A restart is a crash, of which only the cause differs.
LEMMA RestartIsCrash == Restart => \E cause : Die(cause)
BY DEF Restart, Crash, LookupSecretFails

\* An incomplete body goes no further than ValidationPipe.
LEMMA IncompleteIsRefused ==
    ASSUME GatewayInv, NEW r \in Requests, Handler(r), ~Idem!Complete(Body[r])
    PROVE  pc'[r] = "answered" /\ response'[r] = 400 /\ UNCHANGED <<calm, status, promises>>
<1>1. /\ pc[r] \in {"idle", "answered", "lost"} /\ CreateJob(r)
      /\ DOMAIN pc = Requests
  BY DEF GatewayInv, IInv, TypeOK, PipeInv, Handler
<1>2. ~HandleRequest(r) /\ ~TransactionFails(r) /\ ~CommitReplyLost(r)
  BY <1>1
  DEF HandleRequest, LockUserRow, CheckLimits, Decide, CommitJob, DispatchJob, DispatchRejected,
      Compensate, AnswerDispatchFailure, TransactionFails, CommitReplyLost
<1>3. ValidateUrls(r) /\ response'[r] = 400
  BY <1>1, <1>2 DEF CreateJob
<1>4. response[r] # 400
  BY DEF GatewayInv, LinkInv, Linked, Handler
<1> QED
  BY <1>1, <1>3, <1>4 DEF ValidateUrls, Goto, Answer, tables

-----------------------------------------------------------------------------
\* createJob is the handler that Idempotency assumes.
LEMMA HandlerRefines ==
    ASSUME GatewayInv, NEW r \in Requests, Handler(r)
    PROVE  Idem!Next \/ UNCHANGED Idem!vars
<1> USE DEF calm, Idem!calm, Idem!Answer, Idem!Goto
<1>1. /\ stage[r] = "handler" /\ response[r] = 0 /\ CreateJob(r) /\ IInv
      /\ UNCHANGED <<keyOf, overlap, table, expiries>>
      /\ response'[r] = 0 => UNCHANGED client
      /\ response'[r] # 0 => Return(r, response'[r])
  BY DEF GatewayInv, LinkInv, Linked, Handler
<1>2. CASE Continues(r)
  BY <1>1, <1>2, AcceptedNext DEF Continues, table, client, Idem!vars
<1>3. CASE Accepts(r)
  <2>1. Idem!HandlerAccepts(r)
    BY <1>1, <1>3, AcceptedNext, IncompleteIsRefused DEF Accepts, Return, Send, table, Idem!HandlerAccepts
  <2> QED
    BY <2>1 DEF Idem!Next
<1>4. CASE Refuses(r)
  <2>1. Send(r, response'[r], NoRequest) /\ response'[r] \in {400, 402, 429, 503}
    BY <1>1, <1>4 DEF Refuses, Refused, Return
  <2>2. Idem!Answer(r, response'[r], NoRequest)
    BY <2>1 DEF Send
  <2>3. UNCHANGED <<savedBy, active, Accepted, Idem!calm>>
    BY <1>1, <1>4, AcceptedNext DEF Refuses, table
  <2> HIDE DEF Idem!Answer, Idem!Goto, Idem!calm
  <2>4. Idem!HandlerRefuses(r)
    BY <1>1, <2>1, <2>2, <2>3, IncompleteIsRefused DEF Idem!HandlerRefuses
  <2> QED
    BY <2>4 DEF Idem!Next
<1>5. CASE Breaks(r)
  <2>1. Send(r, 500, NoRequest)
    BY <1>1, <1>5 DEF Breaks, Return
  <2>2. Fault("database") => Idem!Fault
    BY <1>1 DEF Fault, Idem!Fault
  <2>3. Idem!HandlerBreaks(r)
    BY <1>1, <1>5, <2>1, <2>2, AcceptedNext, IncompleteIsRefused
    DEF Breaks, Send, table, Idem!HandlerBreaks, GatewayInv, HurtInv
  <2> QED
    BY <2>3 DEF Idem!Next
<1> QED
  BY <1>1, <1>2, <1>3, <1>4, <1>5, CreateJobOutcome

\* Whatever the lifecycle and the interceptor do together is something the
\* interceptor does alone, with some handler.
LEMMA IdemNext == GatewayInv /\ [GatewayNext]_gatewayVars => [Idem!Next]_Idem!vars
<1> SUFFICES ASSUME GatewayInv, [GatewayNext]_gatewayVars
             PROVE  Idem!Next \/ UNCHANGED Idem!vars
  OBVIOUS
<1>0. IInv
  BY DEF GatewayInv
<1>1. ASSUME NEW r \in Requests, Before(r) \/ After(r) PROVE Idem!Next
  BY <1>1 DEF Before, After, Idem!Next
<1>2. ASSUME NEW r \in Requests, Background(r) PROVE Idem!Next \/ UNCHANGED Idem!vars
  <2>1. Accepted' = Accepted /\ UNCHANGED interceptor
    BY <1>0, <1>2, BackgroundAcceptsNothing, BackgroundIsSilent
  <2>2. CASE UNCHANGED calm
    BY <2>1, <2>2 DEF interceptor, table, client, calm, Idem!vars, Idem!calm
  <2>3. CASE \E kind \in FaultKinds : Fault(kind)
    <3>1. Idem!FaultElsewhere
      BY <2>1, <2>3 DEF interceptor, table, client, Fault, Idem!FaultElsewhere, Idem!Fault
    <3> QED
      BY <3>1 DEF Idem!Next
  <2> QED
    BY <1>0, <1>2, <2>2, <2>3, BackgroundIsSilent
<1>3. ASSUME Restart PROVE Idem!Next
  <2>1. UNCHANGED <<tables, response>> /\ \E cause : Fault(cause)
    BY <1>3, RestartIsCrash DEF Die
  <2>2. \E orphans \in SUBSET {r \in Requests : stage[r] = "handler" /\ Idem!Complete(Body[r])} :
          Accepted' = Accepted \cup orphans
    <3> DEFINE orphans == {r \in Requests : stage[r] = "handler" /\ status[r] # "absent"}
    <3>1. \A r \in Requests : stage[r] = "handler" /\ status[r] # "absent" => Idem!Complete(Body[r])
      BY DEF GatewayInv, PipeInv
    <3>2. \A r \in Requests : /\ stage[r] = "lookup" => status[r] = "absent"
                              /\ stage[r] = "save" => response[r] = 202
      BY DEF GatewayInv, LinkInv, Linked, IInv, RequestInv, SafeRequest, RowInv
    <3>3. \A r \in Requests : stage'[r] = IF stage[r] \in {"idle", "answered"} THEN stage[r] ELSE "lost"
      BY <1>3 DEF Restart
    <3>4. \A r \in Requests :
            stage[r] \in {"idle", "lookup", "handler", "save", "answered", "lost"}
      BY DEF GatewayInv, Cache!SafeInv, Cache!TypeOK
    <3>5. Accepted' = Accepted \cup orphans
      BY <2>1, <3>2, <3>3, <3>4 DEF Accepted, tables
    <3> QED
      BY <3>1, <3>5
  <2>3. stage \in [Requests -> {"idle", "lookup", "handler", "save", "answered", "lost"}]
    BY DEF GatewayInv, Cache!SafeInv, Cache!TypeOK
  <2>4. stage' = [r \in Requests |-> IF Idem!InFlight(r) THEN "lost" ELSE stage[r]]
    BY <1>3, <2>3 DEF Restart, Idem!InFlight
  <2>5. Idem!Crash
    BY <1>3, <2>1, <2>2, <2>4 DEF Restart, table, Fault, Idem!Crash, Idem!Fault
  <2> QED
    BY <2>5 DEF Idem!Next
<1>4. ASSUME NEW k \in Keys, Expire(k) PROVE Idem!Next
  BY <1>4 DEF Expire, Idem!Next
<1>5. CASE Rest \/ UNCHANGED gatewayVars
  <2>1. UNCHANGED gatewayVars
    BY <1>5 DEF Rest
  <2> QED
    BY <2>1 DEF gatewayVars, lifecycle, vars, tables, handler, calm, interceptor, table,
                client, Accepted, Idem!vars, Idem!calm
<1> QED
  BY <1>1, <1>2, <1>3, <1>4, <1>5, HandlerRefines DEF GatewayNext
-----------------------------------------------------------------------------
(***************************************************************************)
(* The invariants.  A statement of the interceptor may fail, and counts as *)
(* a fault; for the rest the lifecycle takes only steps of its own.        *)
(***************************************************************************)
Untouched == UNCHANGED <<tables, handler, promises, processing, envSecret>>

LEMMA LifecycleSteps ==
    ASSUME GatewayInv, [GatewayNext]_gatewayVars
    PROVE  [Next]_vars \/ (Untouched /\ faults' \in faults..MaxFaults)
<1>0. faults \in 0..MaxFaults /\ MaxFaults \in Nat
  BY LifecycleAssumption DEF GatewayInv, IInv, TypeOK
<1>1. ASSUME NEW r \in Requests, Before(r) \/ After(r)
      PROVE  Untouched /\ faults' \in faults..MaxFaults
  BY <1>0, <1>1
  DEF Before, After, Untouched, Idem!FindExistingFails, Idem!SaveFails, Idem!Fault
<1>2. ASSUME NEW r \in Requests, Handler(r) \/ Background(r) PROVE Next
  BY <1>2 DEF Handler, CreateJob, Background, Next, Failure
<1>3. CASE Restart
  BY <1>3 DEF Restart, Next, Failure
<1>4. CASE Rest \/ (\E k \in Keys : Expire(k)) \/ UNCHANGED gatewayVars
  BY <1>4 DEF Rest, Expire, gatewayVars, lifecycle
<1> QED
  BY <1>1, <1>2, <1>3, <1>4 DEF GatewayNext

\* The number of faults is all that the invariant does not depend on.
LEMMA LifecycleKeeps ==
    ASSUME GatewayInv, [GatewayNext]_gatewayVars
    PROVE  IInv'
<1>1. CASE [Next]_vars
  BY <1>1, TypeNext, RowsNext, LockNext, CheckedNext, RequestNext DEF GatewayInv, IInv
<1>2. CASE Untouched /\ faults' \in faults..MaxFaults
  <2>0. faults' \in 0..MaxFaults
    BY <1>2, LifecycleAssumption DEF GatewayInv, IInv, TypeOK
  <2> USE <1>2, <2>0 DEF GatewayInv, IInv, Untouched, tables, handler, promises, processing
  <2>1. TypeOK'
    BY DEF TypeOK
  <2>2. Rows' = Rows /\ \A u : ActiveJobs(u)' = ActiveJobs(u)
    BY DEF Rows, ActiveJobs
  <2>3. LockInv' /\ CheckedInv'
    BY <2>2 DEF LockInv, CheckedInv
  <2>4. CanActivate' = CanActivate
    BY DEF CanActivate, GuardSecret
  <2>5. ASSUME NEW r \in Requests PROVE SafeRequest(r)'
    <3>1. SafeRequest(r)
      BY DEF RequestInv
    <3> QED
      BY <2>4, <3>1 DEF SafeRequest, RowInv, BranchInv, AnswerInv, GuardInv
  <2>6. RequestInv'
    BY <2>5 DEF RequestInv
  <2> QED
    BY <2>1, <2>2, <2>3, <2>6
<1> QED
  BY <1>1, <1>2, LifecycleSteps

LEMMA CacheKeeps ==
    ASSUME GatewayInv, [GatewayNext]_gatewayVars
    PROVE  Cache!SafeInv' /\ [Cache!Next]_Cache!vars
BY IdemNext, SameIdem, CacheAssumption, Cache!SafeNext DEF GatewayInv

\* A request that is not with createJob does not move in createJob.
LEMMA HurtNext ==
    ASSUME GatewayInv, [GatewayNext]_gatewayVars
    PROVE  HurtInv'
<1> USE DEF GatewayInv, HurtInv, Hurt, promises
<1>0. faults \in Nat /\ IInv
  BY DEF IInv, TypeOK
<1>1. ASSUME UNCHANGED promises, faults' = faults \/ faults' = faults + 1 PROVE HurtInv'
  BY <1>0, <1>1
<1>2. ASSUME NEW kind, Fault(kind) PROVE HurtInv'
  BY <1>0, <1>2 DEF Fault
<1>3. ASSUME NEW r \in Requests, Before(r) \/ After(r) PROVE HurtInv'
  BY <1>1, <1>3 DEF Before, After, Idem!FindExistingFails, Idem!SaveFails, Idem!Fault
<1>4. ASSUME NEW r \in Requests, CreateJob(r) PROVE HurtInv'
  <2>1. CASE DispatchRejected(r)
    BY <1>0, <2>1 DEF DispatchRejected, Compensate, IInv, TypeOK, calm
  <2>2. CASE ~DispatchRejected(r)
    BY <1>1, <1>2, <1>4, <2>2
    DEF CreateJob, HandleRequest, ValidateUrls, LockUserRow, CheckLimits, Decide, CommitJob,
        DispatchJob, AnswerDispatchFailure, TransactionFails, CommitReplyLost, calm
  <2> QED
    BY <2>1, <2>2
<1>5. ASSUME NEW r \in Requests, Background(r) PROVE HurtInv'
  <2>1. CASE RefundCredit(r) \/ MarkFailed(r)
    BY <1>0, <2>1 DEF RefundCredit, MarkFailed, IInv, TypeOK, calm
  <2>2. CASE ~RefundCredit(r) /\ ~MarkFailed(r)
    BY <1>1, <1>2, <1>5, <2>2
    DEF Background, Callback, TimerFires, RejectCallback, FindJob, Find, UpdateJob,
        FinishCallback, DeliverWebhook, LookupSecret, FinishDelivery, RefundFails, MarkFails,
        CallbackLost, CallbackFails, calm
  <2> QED
    BY <2>1, <2>2
<1>6. CASE Restart
  BY <1>2, <1>6, RestartIsCrash DEF Die
<1>7. CASE Rest \/ (\E k \in Keys : Expire(k)) \/ UNCHANGED gatewayVars
  BY <1>1, <1>7 DEF Rest, Expire, gatewayVars, lifecycle, vars, calm
<1> QED
  BY <1>3, <1>4, <1>5, <1>6, <1>7 DEF GatewayNext, Handler
\* createJob answers once.
LEMMA ResponsesStay ==
    ASSUME GatewayInv, [GatewayNext]_gatewayVars, NEW s \in Requests, response[s] # 0
    PROVE  response'[s] = response[s]
<1>1. ASSUME NEW r \in Requests, Handler(r) PROVE response'[s] = response[s]
  <2>1. response[r] = 0 /\ CreateJob(r) /\ IInv
    BY <1>1 DEF GatewayInv, LinkInv, Linked, Handler
  <2> QED
    BY <2>1, CreateJobIsLocal
<1>2. ASSUME NEW r \in Requests, Before(r) \/ After(r) \/ Background(r)
      PROVE  response'[s] = response[s]
  BY <1>2, BackgroundIsSilent DEF Before, After, handler, GatewayInv
<1>3. CASE Restart
  BY <1>3, RestartIsCrash DEF Die
<1>4. CASE Rest \/ (\E k \in Keys : Expire(k)) \/ UNCHANGED gatewayVars
  BY <1>4 DEF Rest, Expire, gatewayVars, lifecycle, vars, handler
<1> QED
  BY <1>1, <1>2, <1>3, <1>4 DEF GatewayNext

LEMMA StoreNext ==
    ASSUME GatewayInv, [GatewayNext]_gatewayVars
    PROVE  StoreInv'
<1>1. CASE UNCHANGED savedBy
  <2> SUFFICES ASSUME NEW k \in Keys, savedBy[k] \in Requests
               PROVE  response'[savedBy[k]] = 202
    BY <1>1 DEF StoreInv
  <2>1. response[savedBy[k]] = 202
    BY DEF GatewayInv, StoreInv
  <2> QED
    BY <2>1, ResponsesStay
<1>2. ASSUME NEW r \in Requests, Idem!Save(r), UNCHANGED handler PROVE StoreInv'
  <2>1. response[r] = 202 /\ keyOf[r] \in Keys
    BY <1>2 DEF Idem!Save, GatewayInv, LinkInv, Linked, Cache!SafeInv, Cache!StageInv
  <2>2. savedBy' = [savedBy EXCEPT ![keyOf[r]] = r] \/ UNCHANGED savedBy
    BY <1>2 DEF Idem!Save
  <2>3. savedBy \in [Keys -> Requests \cup {SeedRow, NoRequest}]
    BY DEF GatewayInv, Cache!SafeInv, Cache!TypeOK
  <2> QED
    BY <1>2, <2>1, <2>2, <2>3 DEF GatewayInv, StoreInv, handler
<1>3. ASSUME NEW r \in Requests,
             Before(r) \/ Handler(r) \/ Background(r) \/ (After(r) /\ ~Idem!Save(r))
      PROVE  UNCHANGED savedBy
  BY <1>3, BackgroundIsSilent
  DEF Before, Handler, After, Idem!Arrive, Idem!FindExisting, Idem!FindExistingFails,
      Idem!SaveFails, GatewayInv, interceptor, table
<1>4. ASSUME Restart \/ Rest \/ (\E k \in Keys : Expire(k)) \/ UNCHANGED gatewayVars
      PROVE  UNCHANGED savedBy
  BY <1>4 DEF Restart, Rest, Expire, Idem!Expire, gatewayVars, interceptor, table
<1> QED
  BY <1>1, <1>2, <1>3, <1>4 DEF GatewayNext, After

\* No other request comes in, and none of them moves once it has been refused.
LEMMA PipeNext ==
    ASSUME GatewayInv, [GatewayNext]_gatewayVars
    PROVE  PipeInv'
<1> SUFFICES ASSUME NEW s \in Requests, ~Idem!Complete(Body[s])
             PROVE  /\ pc'[s] \in {"idle", "answered", "lost"} /\ response'[s] \in {0, 400}
                    /\ status'[s] = "absent"
  BY DEF PipeInv, Idem!Complete
<1>0. /\ pc[s] \in {"idle", "answered", "lost"} /\ response[s] \in {0, 400}
      /\ status[s] = "absent" /\ IInv
  BY DEF GatewayInv, PipeInv
<1>1. ASSUME NEW r \in Requests, Handler(r)
      PROVE  /\ pc'[s] \in {"idle", "answered", "lost"} /\ response'[s] \in {0, 400}
             /\ status'[s] = "absent"
  <2>1. CASE r = s
    BY <1>0, <1>1, <2>1, IncompleteIsRefused
  <2>2. CASE r # s
    BY <1>0, <1>1, <2>2, CreateJobIsLocal DEF Handler
  <2> QED
    BY <2>1, <2>2
<1>2. ASSUME NEW r \in Requests, Before(r) \/ After(r)
      PROVE  UNCHANGED <<pc, response, status>>
  BY <1>2 DEF Before, After, handler, tables
<1>3. ASSUME NEW r \in Requests, Background(r)
      PROVE  UNCHANGED <<pc, response>> /\ status'[s] = "absent"
  BY <1>0, <1>3, BackgroundIsSilent DEF handler
<1>4. CASE Restart
  <2>1. /\ UNCHANGED <<response, status>>
        /\ pc'[s] = IF pc[s] \in {"idle", "answered"} THEN pc[s] ELSE "lost"
    BY <1>4, RestartIsCrash DEF Die, tables
  <2> QED
    BY <1>0, <2>1
<1>5. CASE Rest \/ (\E k \in Keys : Expire(k)) \/ UNCHANGED gatewayVars
  BY <1>0, <1>5 DEF Rest, Expire, gatewayVars, lifecycle, vars, handler, tables
<1> QED
  BY <1>0, <1>1, <1>2, <1>3, <1>4, <1>5 DEF GatewayNext

ClientTypes ==
    /\ stage \in [Requests -> {"idle", "lookup", "handler", "save", "answered", "lost"}]
    /\ DOMAIN code = Requests
    /\ reply \in [Requests -> Requests \cup {SeedRow, NoRequest}]

\* What was said before, and what createJob has said, stays.
LEMMA LinkStays ==
    ASSUME GatewayInv, [GatewayNext]_gatewayVars, NEW s \in Requests,
           stage'[s] = stage[s], code'[s] = code[s], reply'[s] = reply[s],
           pc'[s] = pc[s], response'[s] = response[s]
    PROVE  Linked(s)'
<1>1. Linked(s)
  BY DEF GatewayInv, LinkInv, Linked
<1>2. code[s] = 202 => response'[reply[s]] = 202
  BY <1>1, ResponsesStay DEF Linked
<1> QED
  BY <1>1, <1>2 DEF Linked

LEMMA BeforeLinks ==
    ASSUME GatewayInv, ClientTypes, NEW r \in Requests, Before(r)
    PROVE  Linked(r)'
<1>1. /\ Linked(r) /\ RowInv(r)
      /\ UNCHANGED <<pc, response>>
  BY DEF GatewayInv, LinkInv, Linked, IInv, RequestInv, SafeRequest, Before, handler
<1> USE DEF ClientTypes, Idem!Goto, Idem!Answer, Refused, RowInv, Linked
<1>2. CASE Idem!Arrive(r)
  BY <1>1, <1>2 DEF Idem!Arrive
<1>3. CASE Idem!FindExisting(r) /\ Idem!Found(r)
  <2>1. keyOf[r] \in Keys /\ savedBy[keyOf[r]] \in Requests \cup {SeedRow}
    BY <1>3 DEF Idem!FindExisting, Idem!Found, GatewayInv, Cache!SafeInv, Cache!StageInv,
                Cache!TypeOK
  <2>2. CASE /\ Idem!Answer(r, Idem!SavedStatus(keyOf[r]), savedBy[keyOf[r]])
             /\ pc[r] = "idle"
    <3>1. CASE savedBy[keyOf[r]] = SeedRow
      BY <1>1, <2>1, <2>2, <3>1 DEF Idem!SavedStatus
    <3>2. CASE savedBy[keyOf[r]] # SeedRow
      BY <1>1, <2>1, <2>2, <3>2 DEF Idem!SavedStatus, GatewayInv, StoreInv
    <3> QED
      BY <3>1, <3>2
  <2>3. CASE Idem!Answer(r, 422, NoRequest) /\ pc[r] = "idle"
    BY <1>1, <2>3
  <2> HIDE DEF Idem!Answer
  <2> QED
    BY <1>1, <1>3, <2>2, <2>3 DEF Idem!FindExisting, Idem!Recall
<1>4. CASE Idem!FindExisting(r) /\ ~Idem!Found(r)
  BY <1>1, <1>4 DEF Idem!FindExisting
<1>5. CASE Idem!FindExistingFails(r)
  BY <1>1, <1>5 DEF Idem!FindExistingFails
<1> QED
  BY <1>2, <1>3, <1>4, <1>5 DEF Before

LEMMA HandlerLinks ==
    ASSUME GatewayInv, ClientTypes, NEW r \in Requests, Handler(r)
    PROVE  Linked(r)'
<1>1. /\ stage[r] = "handler" /\ response[r] = 0 /\ Linked(r) /\ CreateJob(r) /\ IInv
      /\ response'[r] = 0 => UNCHANGED client
      /\ response'[r] # 0 => Return(r, response'[r])
      /\ response'[r] # 0 => pc'[r] = "answered"
  BY LifecycleKeeps
  DEF GatewayInv, LinkInv, Linked, Handler, GatewayNext, IInv, RequestInv, SafeRequest, AnswerInv
<1>2. response'[r] \in {0, 202, 500} \cup Refused
  BY <1>1, CreateJobOutcome DEF Continues, Accepts, Refuses, Breaks
<1>3. CASE response'[r] = 0
  BY <1>1, <1>3 DEF client, Linked, Refused
<1>4. CASE response'[r] = 202 /\ keyOf[r] # NoKey
  BY <1>1, <1>4 DEF Return, Linked, Refused, ClientTypes
<1>5. CASE Send(r, 202, r) /\ response'[r] = 202
  BY <1>1, <1>5 DEF Send, Linked, Refused, ClientTypes
<1>6. CASE Send(r, response'[r], NoRequest) /\ response'[r] \in {500} \cup Refused
  BY <1>1, <1>6 DEF Send, Linked, Refused, ClientTypes
<1> QED
  BY <1>1, <1>2, <1>3, <1>4, <1>5, <1>6 DEF Return, Refused

LEMMA LinkNext ==
    ASSUME GatewayInv, [GatewayNext]_gatewayVars
    PROVE  LinkInv'
<1>0. ClientTypes
  BY DEF GatewayInv, Cache!SafeInv, Cache!TypeOK, ClientTypes
<1> SUFFICES ASSUME NEW s \in Requests PROVE Linked(s)'
  BY DEF LinkInv, Linked
<1> DEFINE Same == /\ stage'[s] = stage[s] /\ code'[s] = code[s] /\ reply'[s] = reply[s]
                   /\ pc'[s] = pc[s] /\ response'[s] = response[s]
<1>1. Same => Linked(s)'
  BY LinkStays
<1>2. ASSUME NEW r \in Requests, Before(r) PROVE Linked(s)'
  <2>1. s # r => Same
    BY <1>0, <1>2
    DEF Before, handler, Idem!Arrive, Idem!FindExisting, Idem!Recall, Idem!FindExistingFails,
        Idem!Answer, Idem!Goto, ClientTypes
  <2> QED
    BY <1>0, <1>1, <1>2, <2>1, BeforeLinks
<1>3. ASSUME NEW r \in Requests, Handler(r) PROVE Linked(s)'
  <2>1. s # r => pc'[s] = pc[s] /\ response'[s] = response[s]
    BY <1>3, CreateJobIsLocal DEF Handler, GatewayInv
  <2>2. s # r => Same
    BY <1>0, <1>3, <2>1 DEF Handler, Return, Send, client, ClientTypes
  <2> QED
    BY <1>0, <1>1, <1>3, <2>2, HandlerLinks
<1>4. ASSUME NEW r \in Requests, After(r) PROVE Linked(s)'
  <2>1. /\ stage[r] = "save" /\ response[r] = 202 /\ pc[r] = "answered"
        /\ Idem!Answer(r, 202, r) /\ UNCHANGED <<pc, response>>
    BY <1>4 DEF After, handler, Idem!Save, Idem!SaveFails, GatewayInv, LinkInv, Linked,
                IInv, RequestInv, SafeRequest, AnswerInv
  <2>2. s # r => Same
    BY <1>0, <2>1 DEF Idem!Answer, Idem!Goto, ClientTypes
  <2>3. Linked(r)'
    BY <1>0, <2>1 DEF Idem!Answer, Idem!Goto, ClientTypes, Linked, Refused
  <2> QED
    BY <1>1, <2>2, <2>3
<1>5. ASSUME NEW r \in Requests, Background(r) PROVE Linked(s)'
  <2>1. Same
    BY <1>5, BackgroundIsSilent DEF GatewayInv, handler, interceptor, client
  <2> QED
    BY <1>1, <2>1
<1>6. CASE Restart
  <2>1. UNCHANGED <<response, code, reply>>
        /\ pc'[s] = IF pc[s] \in {"idle", "answered"} THEN pc[s] ELSE "lost"
    BY <1>6, RestartIsCrash DEF Restart, Die
  <2>2. stage'[s] = IF stage[s] \in {"idle", "answered"} THEN stage[s] ELSE "lost"
    BY <1>6 DEF Restart
  <2>3. Linked(s)
    BY DEF GatewayInv, LinkInv, Linked
  <2> QED
    BY <2>1, <2>2, <2>3 DEF Linked
<1>7. CASE Rest \/ (\E k \in Keys : Expire(k)) \/ UNCHANGED gatewayVars
  <2>1. Same
    BY <1>7 DEF Rest, Expire, Idem!Expire, gatewayVars, lifecycle, vars, handler,
                interceptor, client
  <2> QED
    BY <1>1, <2>1
<1> QED
  BY <1>2, <1>3, <1>4, <1>5, <1>6, <1>7 DEF GatewayNext
-----------------------------------------------------------------------------
\* The induction for the composition.
THEOREM GatewayInvariance == GatewaySpec => []GatewayInv
<1>1. GatewayInit => GatewayInv
  BY GatewayStarts
<1>2. GatewayInv /\ [GatewayNext]_gatewayVars => GatewayInv'
  BY LifecycleKeeps, CacheKeeps, LinkNext, StoreNext, HurtNext, PipeNext DEF GatewayInv
<1> QED
  BY <1>1, <1>2, PTL DEF GatewaySpec

\* Types, of the lifecycle and of the interceptor around it.
THEOREM GatewayTypeCorrect == GatewaySpec => [](TypeOK /\ Idem!TypeOK)
<1>1. Cache!TypeOK => Idem!TypeOK
  BY DEF Cache!TypeOK, Idem!TypeOK
<1>2. GatewayInv => TypeOK /\ Idem!TypeOK
  BY <1>1 DEF GatewayInv, IInv, Cache!SafeInv
<1> QED
  BY <1>2, GatewayInvariance, PTL

\* The composition implements Idempotency: everything createJob does, at each
\* of its awaits and in each way it can fail, is a step of the handler that
\* was assumed there, so the theorems about the interceptor hold of the whole.
THEOREM GatewayImplementsIdempotency == GatewaySpec => ImplementsIdempotency
<1>1. GatewayInit => Idem!Init
  BY GatewayStarts
<1> QED
  BY <1>1, IdemNext, GatewayInvariance, PTL DEF GatewaySpec, ImplementsIdempotency, Idem!Spec

\* Whatever the client is told, first hand or from the table, agrees with
\* what was charged.
THEOREM AnswersAlwaysMatch == GatewaySpec => []AnswersMatchCharges
<1>1. GatewayInv => AnswersMatchCharges
  <2> SUFFICES ASSUME GatewayInv, NEW r \in Requests
               PROVE  /\ code[r] = 202 =>
                            reply[r] \in Charged /\ errorCode[reply[r]] # "DISPATCH_FAILED"
                      /\ code[r] \in {400, 402, 422, 429, 503} => r \notin Charged
    BY DEF AnswersMatchCharges
  <2> USE DEF Charged, Created, Refunded
  <2>0. /\ Linked(r)
        /\ \A s \in Requests : RowInv(s) /\ BranchInv(s) /\ AnswerInv(s)
    BY DEF GatewayInv, IInv, RequestInv, SafeRequest, LinkInv
  <2>1. \A s \in Requests :
          response[s] = 202 => s \in Charged /\ errorCode[s] # "DISPATCH_FAILED"
    BY <2>0 DEF BranchInv, AnswerInv
  <2>2. \A s \in Requests : response[s] \in Refused => s \notin Charged
    BY <2>0 DEF AnswerInv, Refused
  <2>3. pc[r] = "idle" => r \notin Charged
    BY <2>0 DEF RowInv
  <2> QED
    BY <2>0, <2>1, <2>2, <2>3 DEF Linked, Refused
<1> QED
  BY <1>1, GatewayInvariance, PTL

\* An INSERT, or a refund, that waits for a row waits for a request that does
\* not wait itself: no circle of requests around a user's row, for any number
\* of users and requests.
THEOREM RowHoldersAlwaysGoOn == GatewaySpec => []RowHoldersGoOn
<1>1. GatewayInv => RowHoldersGoOn
  <2> SUFFICES ASSUME GatewayInv, NEW u \in Users, lock[u] # NoRequest
               PROVE  stage[lock[u]] = "handler" /\ pc[lock[u]] \in {"locked", "admitted"}
    BY DEF RowHoldersGoOn
  <2>1. lock[u] \in Requests
    BY DEF GatewayInv, IInv, TypeOK
  <2>2. pc[lock[u]] \in {"locked", "admitted"}
    BY <2>1 DEF GatewayInv, IInv, LockInv, InTransaction
  <2>3. Linked(lock[u]) /\ AnswerInv(lock[u])
    BY <2>1 DEF GatewayInv, IInv, RequestInv, SafeRequest, LinkInv
  <2>4. stage[lock[u]] \in {"idle", "lookup", "handler", "save", "answered", "lost"}
    BY <2>1 DEF GatewayInv, Cache!SafeInv, Cache!TypeOK
  <2> QED
    BY <2>2, <2>3, <2>4 DEF Linked, AnswerInv
<1> QED
  BY <1>1, GatewayInvariance, PTL

\* What is not owed is what it was in the lifecycle; and a request is lost only
\* in a restart.
CalmDoorInv == CalmInv /\ (faults = 0 => \A r \in Requests : stage[r] # "lost")

LEMMA CalmDoorNext == GatewayInv /\ CalmDoorInv /\ [GatewayNext]_gatewayVars => CalmDoorInv'
<1> SUFFICES ASSUME GatewayInv, CalmDoorInv, [GatewayNext]_gatewayVars PROVE CalmDoorInv'
  OBVIOUS
<1>0. faults \in Nat /\ MaxFaults \in Nat /\ IInv
  BY LifecycleAssumption DEF GatewayInv, IInv, TypeOK
<1>1. CalmInv'
  <2>1. CASE [Next]_vars
    BY <1>0, <2>1, CalmNext DEF CalmDoorInv
  <2>2. CASE Untouched /\ faults' \in faults..MaxFaults
    <3>1. faults' = 0 => faults = 0
      BY <1>0, <2>2
    <3> QED
      BY <2>2, <3>1
      DEF CalmDoorInv, CalmInv, CalmRequest, Untouched, tables, handler, promises, processing,
          CanActivate, GuardSecret
  <2> QED
    BY <2>1, <2>2, LifecycleSteps
<1>2. ASSUME faults' = 0, NEW s \in Requests PROVE stage'[s] # "lost"
  <2>1. stage[s] # "lost" /\ ~Restart
    <3>1. faults = 0
      BY <1>0, <1>2, LifecycleSteps, CalmSteps DEF IInv, calm
    <3>2. \A cause : ~Die(cause)
      BY <1>0, <1>2 DEF Die, Fault
    <3> QED
      BY <3>1, <3>2, RestartIsCrash DEF CalmDoorInv
  <2>2. ClientTypes
    BY DEF GatewayInv, Cache!SafeInv, Cache!TypeOK, ClientTypes
  <2>3. ASSUME NEW r \in Requests, Before(r) \/ After(r) PROVE stage'[s] # "lost"
    BY <2>1, <2>2, <2>3
    DEF Before, After, Idem!Arrive, Idem!FindExisting, Idem!Recall, Idem!FindExistingFails,
        Idem!Save, Idem!SaveFails, Idem!Answer, Idem!Goto, ClientTypes
  <2>4. ASSUME NEW r \in Requests, Handler(r) PROVE stage'[s] # "lost"
    BY <2>1, <2>2, <2>4 DEF Handler, Return, Send, client, ClientTypes
  <2>5. ASSUME NEW r \in Requests, Background(r) PROVE stage'[s] # "lost"
    BY <1>0, <2>1, <2>5, BackgroundIsSilent DEF interceptor, client
  <2>6. CASE Rest \/ (\E k \in Keys : Expire(k)) \/ UNCHANGED gatewayVars
    BY <2>1, <2>6 DEF Rest, Expire, Idem!Expire, gatewayVars, interceptor, client
  <2> QED
    BY <2>1, <2>3, <2>4, <2>5, <2>6 DEF GatewayNext
<1> QED
  BY <1>1, <1>2 DEF CalmDoorInv

\* A gateway without faults that has come to rest has answered everyone, has
\* told whoever paid for a job of that job, and has finished each job that it
\* has told somebody of, however the requests and their retries interleaved.
THEOREM EveryoneWasServed == GatewaySpec => []EveryoneIsServedAtRest
<1>1. GatewayInv /\ CalmDoorInv => EveryoneIsServedAtRest
  <2> SUFFICES ASSUME GatewayInv, CalmDoorInv, GatewayAtRest, faults = 0
               PROVE  /\ \A r \in Requests : code[r] # 0
                      /\ \A r \in Charged : code[r] = 202 /\ reply[r] = r
                      /\ CanActivate => \A r \in Requests : code[r] = 202 => Settled(reply[r])
    BY DEF EveryoneIsServedAtRest
  <2>1. \A r \in Requests :
          /\ stage[r] = "answered" /\ Linked(r) /\ CalmRequest(r)
          /\ RowInv(r) /\ BranchInv(r) /\ AnswerInv(r)
          /\ refund[r] # "pending" /\ mark[r] # "pending"
          /\ work[r] \in {"none", "ended"} /\ webhook[r] \in {"none", "done"}
    BY DEF GatewayAtRest, CalmDoorInv, CalmInv, CalmRequest, GatewayInv, LinkInv, Linked, IInv,
           RequestInv, SafeRequest
  <2>2. ASSUME NEW r \in Charged PROVE response[r] = 202
    <3>1. /\ r \in Requests /\ status[r] # "absent" /\ refund[r] # "applied"
      BY DEF Charged, Created, Refunded
    <3>2. pc[r] = "answered"
      BY <2>1, <3>1 DEF Linked, RowInv, CalmRequest
    <3>3. mark[r] = "none"
      BY <2>1, <3>1 DEF CalmRequest, BranchInv
    <3> QED
      BY <2>1, <3>1, <3>2, <3>3 DEF CalmRequest
  <2>3. ASSUME NEW r \in Requests, response[r] = 202, CanActivate PROVE Settled(r)
    <3>1. pc[r] = "answered" /\ status[r] # "absent" /\ mark[r] = "none"
      BY <2>1, <2>3 DEF AnswerInv
    <3>2. webhook[r] = "done" /\ verdict[r] # "none" /\ status[r] = verdict[r]
      BY <2>1, <2>3, <3>1 DEF CalmRequest, BranchInv
    <3>3. verdict[r] \in {"completed", "failed"}
      BY <3>2 DEF GatewayInv, IInv, TypeOK
    <3> QED
      BY <3>2, <3>3 DEF Settled, ActiveStatus
  <2>4. \A r \in Requests : code[r] # 0
    BY <2>1 DEF Linked
  <2>5. \A r \in Charged : code[r] = 202 /\ reply[r] = r
    BY <2>1, <2>2 DEF Linked, Charged, Created
  <2>6. CanActivate => \A r \in Requests : code[r] = 202 => Settled(reply[r])
    BY <2>1, <2>3 DEF Linked
  <2> QED
    BY <2>4, <2>5, <2>6
<1>2. GatewayInit => CalmDoorInv
  BY CalmInit DEF GatewayInit, CalmDoorInv
<1> QED
  BY <1>1, <1>2, CalmDoorNext, GatewayInvariance, PTL DEF GatewaySpec

\* The ledger does not see the interceptor.
LEMMA GatewayBooks == GatewaySpec => Books!Spec
<1>1. GatewayInit => Books!Init
  BY BooksInit DEF GatewayInit
<1>2. GatewayInv /\ [GatewayNext]_gatewayVars => [Books!Next]_Books!vars
  <2> SUFFICES ASSUME GatewayInv, [GatewayNext]_gatewayVars
               PROVE  [Books!Next]_booksVars
    BY DEF booksVars, Books!vars
  <2>1. CASE [Next]_vars
    BY <2>1, BooksNext DEF GatewayInv
  <2>2. CASE Untouched
    BY <2>2, SameBooks DEF Untouched, tables, promises, Refunded
  <2> QED
    BY <2>1, <2>2, LifecycleSteps
<1> QED
  BY <1>1, <1>2, GatewayInvariance, PTL DEF GatewaySpec, Books!Spec

\* The guarantees of the README hold at the door as well, for clients with or
\* without keys.
THEOREM GatewayKeepsTheBooks == GatewaySpec => [](WithinConcurrencyLimit /\ CreditsBalance)
BY BooksLimit, BooksBalance, BooksAssumption, GatewayBooks, Books!LedgerIsSafe, PTL
LEMMA GatewayBehavesLikeCache == GatewaySpec => Cache!Spec
<1>1. Idem!Spec => Cache!Spec
  BY SameIdem, PTL DEF Idem!Spec, Cache!Spec
<1> QED
  BY <1>1, GatewayImplementsIdempotency, PTL DEF ImplementsIdempotency

\* With createJob behind the interceptor, too, each request is served as if
\* in one step, and its clients are told of few jobs.
THEOREM GatewayServesAtOnce ==
    GatewaySpec => Cache!ImplementsService /\ []Cache!FewJobsAreTold
BY GatewayBehavesLikeCache, CacheAssumption, Cache!RequestsAreServedAtOnce,
   Cache!FewJobsAreEverTold, PTL

-----------------------------------------------------------------------------
(***************************************************************************)
(* The cost of repeating a key.  A client that waits for each answer has   *)
(* at most one request of a key in flight, and only before the key has a   *)
(* row; so each job charged under the key is that one, or the one the row  *)
(* names, or one that was lost sight of: its request has ended, or is      *)
(* about to, without a row to show for it.  Each of those took a fault.    *)
(***************************************************************************)
Gone(r) == stage[r] \in {"answered", "lost"} \/ (stage[r] = "handler" /\ Hurt(r))

Wasted(k) == {r \in Charged : keyOf[r] = k /\ savedBy[k] # r /\ Gone(r)}

WasteInv ==
    Cache!Orderly => \A k \in Cache!Plain :
        IsFiniteSet(Wasted(k)) /\ Cardinality(Wasted(k)) <= faults

OrderlyInv == GatewayInv /\ Cache!OrderInv

LEMMA OrderlyAlways == GatewaySpec => []OrderlyInv
BY GatewayBehavesLikeCache, GatewayInvariance, CacheAssumption, Cache!SequentialAlways, PTL
DEF OrderlyInv

\* The lemma of IdempotencyProofs, whose instance counts as this module does.
LEMMA SameCounts ==
    \A S : (Cache!IsFiniteSet(S) <=> IsFiniteSet(S)) /\ Cache!Cardinality(S) = Cardinality(S)
BY DEF IsFiniteSet, Cache!IsFiniteSet, Cardinality, Cache!Cardinality

LEMMA FaultsPay ==
    ASSUME NEW S, IsFiniteSet(S), NEW n \in Nat, Cardinality(S) <= n,
           NEW T, NEW m \in Nat,
           \/ T \subseteq S /\ n <= m
           \/ \E r : T \subseteq S \cup {r} /\ m = n + 1
    PROVE  IsFiniteSet(T) /\ Cardinality(T) <= m
BY SameCounts, CacheAssumption, Cache!FaultsPay

LEMMA RowsAreFound ==
    ASSUME OrderlyInv, Cache!Orderly
    PROVE  Cache!AloneInv /\ Cache!MissInv
BY CacheAssumption, Cache!RowsAreFound DEF OrderlyInv

\* What a step may do to the wasted jobs of k.
Spared(k) == Wasted(k)' \subseteq Wasted(k) /\ faults <= faults'

Spent(k) == \E r \in Requests : Wasted(k)' \subseteq Wasted(k) \cup {r} /\ faults' = faults + 1

\* If r alone has moved, only r may be new.
LEMMA OnlyTheMover ==
    ASSUME NEW k, NEW r \in Requests,
           keyOf' = keyOf, savedBy'[k] = savedBy[k],
           \A s \in Requests \ {r} :
              /\ stage'[s] = stage[s] /\ refund'[s] = refund[s] /\ mark'[s] = mark[s]
              /\ (status'[s] = "absent" <=> status[s] = "absent")
    PROVE  Wasted(k)' \subseteq Wasted(k) \cup {r}
BY DEF Wasted, Gone, Hurt, Charged, Created, Refunded

LEMMA BeforeSpares ==
    ASSUME GatewayInv, NEW k, NEW r \in Requests, Before(r)
    PROVE  Spared(k) \/ Spent(k)
<1>0. faults \in Nat /\ ClientTypes /\ r \notin Charged
  BY DEF GatewayInv, IInv, TypeOK, Cache!SafeInv, Cache!TypeOK, ClientTypes, LinkInv, Linked,
         RequestInv, SafeRequest, RowInv, Charged, Created, Before, Idem!Arrive,
         Idem!FindExisting, Idem!FindExistingFails
<1>1. /\ UNCHANGED <<tables, promises, keyOf, savedBy>>
      /\ \A s \in Requests \ {r} : stage'[s] = stage[s]
  BY <1>0
  DEF Before, Idem!Arrive, Idem!FindExisting, Idem!Recall, Idem!FindExistingFails, Idem!Fault,
      Idem!Answer, Idem!Goto, Idem!calm, ClientTypes
<1>2. Charged' = Charged
  BY <1>1 DEF Charged, Created, Refunded, tables, promises
<1>3. Wasted(k)' \subseteq Wasted(k)
  BY <1>0, <1>1, <1>2 DEF Wasted, Gone, Hurt, Charged, Created, promises
<1>4. faults <= faults'
  BY <1>0 DEF Before, Idem!FindExistingFails, Idem!Fault
<1> QED
  BY <1>3, <1>4 DEF Spared

LEMMA AfterSpares ==
    ASSUME OrderlyInv, Cache!Orderly, NEW k \in Cache!Plain, NEW r \in Requests, After(r)
    PROVE  Spared(k) \/ Spent(k)
<1>0. /\ faults \in Nat /\ ClientTypes
      /\ savedBy \in [Keys -> Requests \cup {SeedRow, NoRequest}]
      /\ stage[r] = "save" /\ keyOf[r] \in Keys /\ k \in Keys \ LongKeys
  BY DEF OrderlyInv, GatewayInv, IInv, TypeOK, Cache!SafeInv, Cache!StageInv, Cache!TypeOK,
         Cache!Plain, ClientTypes, After, Idem!Save, Idem!SaveFails
<1>1. /\ UNCHANGED <<status, promises, keyOf>>
      /\ \A s \in Requests \ {r} : stage'[s] = stage[s]
  BY <1>0 DEF After, tables, Idem!Save, Idem!SaveFails, Idem!Fault, Idem!Answer, Idem!Goto,
              Idem!calm, ClientTypes
<1>2. Charged' = Charged
  BY <1>1 DEF Charged, Created, Refunded, promises
<1>3. CASE Idem!SaveFails(r)
  <2>1. Wasted(k)' \subseteq Wasted(k) \cup {r}
    BY <1>1, <1>3, OnlyTheMover DEF Idem!SaveFails, promises
  <2> QED
    BY <1>3, <2>1 DEF Idem!SaveFails, Idem!Fault, Spent
<1>4. CASE Idem!Save(r) /\ keyOf[r] = k
  <2>1. savedBy[k] = NoRequest
    BY <1>0, <1>4, RowsAreFound DEF Cache!MissInv, Cache!Plain
  <2>2. savedBy'[k] = r
    BY <1>0, <1>4, <2>1 DEF Idem!Save, Idem!TableRefuses
  <2>3. Wasted(k)' \subseteq Wasted(k)
    BY <1>1, <1>2, <2>1, <2>2, LifecycleAssumption
    DEF Wasted, Gone, Hurt, Charged, Created, promises
  <2> QED
    BY <1>0, <1>4, <2>3 DEF Idem!Save, Idem!calm, Spared
<1>5. CASE Idem!Save(r) /\ keyOf[r] # k
  <2>1. savedBy'[k] = savedBy[k]
    BY <1>0, <1>5 DEF Idem!Save
  <2>2. Wasted(k)' \subseteq Wasted(k)
    BY <1>1, <1>2, <1>5, <2>1 DEF Wasted, Gone, Hurt, Charged, Created, promises
  <2> QED
    BY <1>0, <1>5, <2>2 DEF Idem!Save, Idem!calm, Spared
<1> QED
  BY <1>3, <1>4, <1>5 DEF After
\* With createJob: a job is charged before anything can hurt it, and an error
\* answer leaves a charged job only if something has.
LEMMA HandlerSpares ==
    ASSUME GatewayInv, NEW k \in Keys, NEW r \in Requests, Handler(r)
    PROVE  Spared(k) \/ Spent(k)
<1>0. /\ faults \in Nat /\ ClientTypes /\ IInv /\ CreateJob(r)
      /\ stage[r] = "handler" /\ response[r] = 0
      /\ UNCHANGED <<keyOf, savedBy>>
      /\ RowInv(r) /\ BranchInv(r) /\ RowInv(r)' /\ AnswerInv(r)'
  BY LifecycleKeeps
  DEF GatewayInv, IInv, TypeOK, Cache!SafeInv, Cache!TypeOK, ClientTypes, LinkInv, Linked,
      RequestInv, SafeRequest, Handler, GatewayNext, table
<1>1. Wasted(k)' \subseteq Wasted(k) \cup {r}
  <2>1. \A s \in Requests \ {r} : stage'[s] = stage[s]
    BY <1>0 DEF Handler, Return, Send, client, ClientTypes
  <2>2. \A s \in Requests \ {r} :
          refund'[s] = refund[s] /\ mark'[s] = mark[s] /\ status'[s] = status[s]
    BY <1>0, CreateJobIsLocal
  <2> QED
    BY <1>0, <2>1, <2>2, OnlyTheMover
<1>2. CASE \E kind : Fault(kind)
  BY <1>1, <1>2 DEF Fault, Spent
<1>3. CASE UNCHANGED calm
  <2>1. ASSUME r \in Wasted(k)' PROVE r \in Wasted(k)
    <3>0. /\ r \in Charged' /\ Gone(r)' /\ keyOf[r] = k /\ savedBy[k] # r
      BY <1>0, <2>1 DEF Wasted
    <3>1. CASE Continues(r)
      <4>1. Hurt(r)'
        BY <1>0, <3>0, <3>1 DEF Continues, Handler, client, Gone
      <4>2. ~DispatchRejected(r)
        BY <1>0, <4>1 DEF DispatchRejected, Compensate, Hurt, IInv, TypeOK
      <4>3. UNCHANGED promises
        BY <1>0, <4>2 DEF CreateJob, HandleRequest, ValidateUrls, LockUserRow, CheckLimits,
                          Decide, CommitJob, DispatchJob, AnswerDispatchFailure,
                          TransactionFails, CommitReplyLost
      <4>4. Hurt(r)
        BY <4>1, <4>3 DEF Hurt, promises
      <4>5. status[r] # "absent"
        BY <1>0, <4>4 DEF Hurt, RowInv
      <4> QED
        BY <1>0, <3>0, <4>3, <4>4, <4>5
        DEF Wasted, Gone, Charged, Created, Refunded, promises
    <3>2. CASE Accepts(r)
      <4>1. keyOf[r] # NoKey
        BY <3>0, GatewayAssumption
      <4>2. stage'[r] = "save"
        BY <1>0, <3>2, <4>1 DEF Accepts, Handler, Return, ClientTypes
      <4> QED
        BY <3>0, <4>2 DEF Gone
    <3>3. CASE Refuses(r)
      BY <1>0, <3>0, <3>3 DEF Refuses, Refused, AnswerInv, Charged, Created, Refunded
    <3>4. CASE Hurt(r) /\ UNCHANGED <<status, promises>>
      <4>1. r \in Charged
        BY <3>0, <3>4 DEF Charged, Created, Refunded, promises
      <4> QED
        BY <1>0, <3>0, <3>4, <4>1 DEF Wasted, Gone
    <3>5. ~\E kind : Fault(kind)
      BY <1>0, <1>3 DEF Fault, calm
    <3> QED
      BY <1>0, <3>1, <3>2, <3>3, <3>4, <3>5, CreateJobOutcome DEF Breaks
  <2> QED
    BY <1>0, <1>1, <1>3, <2>1 DEF calm, Spared
<1> QED
  BY <1>0, <1>2, <1>3, CreateJobOutcome DEF Continues, Accepts, Refuses, Breaks

\* A refund takes a job off; only a statement that fails can hurt one.
LEMMA BackgroundSpares ==
    ASSUME GatewayInv, NEW k, NEW r \in Requests, Background(r)
    PROVE  Spared(k) \/ Spent(k)
<1>0. /\ faults \in Nat /\ IInv
      /\ UNCHANGED <<stage, keyOf, savedBy>>
      /\ \A s \in Requests : status'[s] = "absent" <=> status[s] = "absent"
  BY BackgroundIsSilent DEF GatewayInv, IInv, TypeOK, interceptor, client, table
<1>1. \A s \in Requests \ {r} : refund'[s] = refund[s] /\ mark'[s] = mark[s]
  BY <1>0
  DEF IInv, TypeOK, Background, RefundCredit, MarkFailed, Callback, TimerFires,
      RejectCallback, FindJob, Find, UpdateJob, FinishCallback, DeliverWebhook, LookupSecret,
      FinishDelivery, RefundFails, MarkFails, CallbackLost, CallbackFails, promises
<1>2. Wasted(k)' \subseteq Wasted(k) \cup {r}
  BY <1>0, <1>1, OnlyTheMover
<1>3. CASE \E kind : Fault(kind)
  BY <1>2, <1>3 DEF Fault, Spent
<1>4. CASE UNCHANGED calm
  <2>1. /\ Hurt(r)' => Hurt(r)
        /\ r \in Refunded => r \in Refunded'
    <3>1. CASE RefundCredit(r) \/ MarkFailed(r)
      BY <1>0, <3>1 DEF RefundCredit, MarkFailed, Hurt, Refunded, IInv, TypeOK
    <3>2. CASE UNCHANGED promises
      BY <3>2 DEF promises, Hurt, Refunded
    <3>3. ~RefundFails(r) /\ ~MarkFails(r)
      BY <1>0, <1>4 DEF RefundFails, MarkFails, Fault, calm
    <3> QED
      BY <3>1, <3>2, <3>3
      DEF Background, Callback, TimerFires, RejectCallback, FindJob, Find, UpdateJob,
          FinishCallback, DeliverWebhook, LookupSecret, FinishDelivery, CallbackLost,
          CallbackFails
  <2>2. r \in Wasted(k)' => r \in Wasted(k)
    BY <1>0, <2>1 DEF Wasted, Gone, Charged, Created
  <2> QED
    BY <1>0, <1>2, <1>4, <2>2 DEF calm, Spared
<1> QED
  BY <1>0, <1>3, <1>4, BackgroundIsSilent

\* A restart loses sight of the one request of the key that was in flight.
LEMMA RestartSpares ==
    ASSUME OrderlyInv, Cache!Orderly, NEW k \in Keys, Restart
    PROVE  Spared(k) \/ Spent(k)
<1>0. /\ faults \in Nat
      /\ \A s \in Requests :
           stage[s] \in {"idle", "lookup", "handler", "save", "answered", "lost"}
      /\ Cache!AloneInv
      /\ \A s \in Requests : RowInv(s) /\ Linked(s)
  BY RowsAreFound
  DEF OrderlyInv, GatewayInv, IInv, TypeOK, RequestInv, SafeRequest, LinkInv,
      Cache!SafeInv, Cache!TypeOK
<1>1. /\ UNCHANGED <<status, keyOf, savedBy>> /\ Refunded' = Refunded
      /\ \E cause : Fault(cause)
      /\ stage' = [s \in Requests |->
                     IF stage[s] \in {"idle", "answered"} THEN stage[s] ELSE "lost"]
  BY RestartIsCrash DEF Restart, Die, tables, table, Refunded
<1>2. Charged' = Charged
  BY <1>1 DEF Charged, Created
<1> DEFINE flying == {s \in Requests : keyOf[s] = k /\ Cache!InFlight(s)}
<1>3. Wasted(k)' \subseteq Wasted(k) \cup flying
  BY <1>0, <1>1, <1>2 DEF Wasted, Gone, Charged, Created, Cache!InFlight, RowInv, Linked
<1>4. CASE flying = {}
  BY <1>0, <1>1, <1>3, <1>4 DEF Fault, Spared
<1>5. ASSUME NEW x \in flying PROVE Spent(k)
  <2>1. flying \subseteq {x}
    BY <1>0 DEF Cache!AloneInv
  <2> QED
    BY <1>1, <1>3, <2>1 DEF Fault, Spent
<1> QED
  BY <1>4, <1>5
LEMMA WasteInit == GatewayInit => WasteInv
<1> SUFFICES ASSUME GatewayInit PROVE \A k : Wasted(k) = {}
  BY FS_EmptySet DEF GatewayInit, Init, WasteInv
<1> QED
  BY DEF GatewayInit, Init, Wasted, Gone, Charged, Created

LEMMA WasteNext == OrderlyInv /\ WasteInv /\ [GatewayNext]_gatewayVars => WasteInv'
<1> SUFFICES ASSUME OrderlyInv, WasteInv, [GatewayNext]_gatewayVars, Cache!Orderly',
                    NEW k \in Cache!Plain
             PROVE  (IsFiniteSet(Wasted(k)) /\ Cardinality(Wasted(k)) <= faults)'
  BY DEF WasteInv, Cache!Plain
<1>0. /\ GatewayInv /\ k \in Keys
      /\ faults \in Nat /\ faults' \in Nat
  BY LifecycleKeeps DEF OrderlyInv, GatewayInv, IInv, TypeOK, Cache!Plain
<1>1. Cache!Orderly
  BY <1>0, CacheKeeps, CacheAssumption, Cache!OrderlyBefore DEF GatewayInv
<1>2. IsFiniteSet(Wasted(k)) /\ Cardinality(Wasted(k)) <= faults
  BY <1>1 DEF WasteInv
<1>3. ASSUME Spared(k) \/ Spent(k)
      PROVE  (IsFiniteSet(Wasted(k)) /\ Cardinality(Wasted(k)) <= faults)'
  BY <1>0, <1>2, <1>3, FaultsPay DEF Spared, Spent
<1>4. ASSUME NEW r \in Requests, Before(r) \/ Handler(r) \/ After(r) \/ Background(r)
      PROVE  Spared(k) \/ Spent(k)
  BY <1>0, <1>1, <1>4, BeforeSpares, HandlerSpares, AfterSpares, BackgroundSpares
<1>5. CASE Restart
  BY <1>0, <1>1, <1>3, <1>5, RestartSpares
<1>6. ASSUME NEW j \in Keys, Expire(j) PROVE FALSE
  BY <1>1, <1>6 DEF Expire, Idem!Expire, Cache!Orderly, OrderlyInv, GatewayInv,
                    Cache!SafeInv, Cache!TypeOK
<1>7. CASE Rest \/ UNCHANGED gatewayVars
  <2>1. Wasted(k)' = Wasted(k) /\ faults' = faults
    BY <1>7 DEF Rest, gatewayVars, lifecycle, vars, tables, promises, calm, interceptor, table,
                client, Wasted, Gone, Hurt, Charged, Created, Refunded
  <2> QED
    BY <1>2, <2>1
<1> QED
  BY <1>3, <1>4, <1>5, <1>6, <1>7 DEF GatewayNext

\* A client that waits for its answers and repeats a key pays for one job, and
\* for one more with each fault at most, however the requests, their
\* compensations and the restarts interleave.
THEOREM RetriesAlwaysCostFaults == GatewaySpec => []RetriesCostFaults
<1>1. OrderlyInv /\ WasteInv => RetriesCostFaults
  <2> SUFFICES ASSUME OrderlyInv, WasteInv, Cache!Orderly, NEW k \in Cache!Plain
               PROVE  Cardinality({r \in Charged : keyOf[r] = k}) <= 1 + faults
    BY DEF RetriesCostFaults, Cache!Orderly, Cache!Plain
  <2> DEFINE paid == {r \in Charged : keyOf[r] = k}
  <2>0. /\ faults \in Nat /\ k \in Keys
        /\ \A s \in Requests :
             /\ stage[s] \in {"idle", "lookup", "handler", "save", "answered", "lost"}
             /\ RowInv(s) /\ Linked(s)
        /\ Cache!AloneInv /\ Cache!MissInv
    BY RowsAreFound
    DEF OrderlyInv, GatewayInv, IInv, TypeOK, RequestInv, SafeRequest, LinkInv,
        Cache!SafeInv, Cache!TypeOK, Cache!Plain
  <2>1. \E x : paid \subseteq Wasted(k) \cup {x}
    <3>1. \A s \in paid :
            s \in Wasted(k) \/ savedBy[k] = s \/ stage[s] \in {"handler", "save"}
      BY <2>0 DEF Wasted, Gone, Charged, Created, RowInv, Linked
    <3>2. CASE \E x \in paid : stage[x] \in {"handler", "save"}
      <4>1. PICK x \in paid : stage[x] \in {"handler", "save"}
        BY <3>2
      <4>2. savedBy[k] = NoRequest
        BY <2>0, <4>1 DEF Cache!MissInv, Charged, Created
      <4>3. \A s \in paid : stage[s] \in {"handler", "save"} => s = x
        BY <2>0, <4>1 DEF Cache!AloneInv, Cache!InFlight, Charged, Created
      <4> QED
        BY <3>1, <4>2, <4>3, LifecycleAssumption DEF Charged, Created
    <3>3. CASE \A x \in paid : stage[x] \notin {"handler", "save"}
      BY <3>1, <3>3
    <3> QED
      BY <3>2, <3>3
  <2>2. IsFiniteSet(Wasted(k)) /\ Cardinality(Wasted(k)) <= faults
    BY DEF WasteInv
  <2> HIDE DEF paid
  <2>3. faults + 1 \in Nat
    BY <2>0
  <2>4. Cardinality(paid) <= faults + 1
    BY <2>0, <2>1, <2>2, <2>3, FaultsPay
  <2> QED
    BY <2>0, <2>4 DEF paid
<1> QED
  BY <1>1, OrderlyAlways, WasteInit, WasteNext, PTL DEF GatewaySpec
=============================================================================
