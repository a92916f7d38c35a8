-------------------------- MODULE JobLifecycleProofs --------------------------
(***************************************************************************)
(* Theorems about JobLifecycle, for any users, requests, seeded jobs,      *)
(* limits, credits, secrets and faults.                                    *)
(***************************************************************************)
EXTENDS JobLifecycle, FiniteSetTheorems, TLAPS

InTransaction == {"locked", "admitted"}

\* A row lock is held by the transaction that is between its SELECT and its
\* COMMIT, and by no other: this is what FOR UPDATE buys.
LockInv ==
    \A u \in Users, r \in Requests :
        lock[u] = r <=> Owner[r] = u /\ pc[r] \in InTransaction

\* What was read or checked under the lock is still so at COMMIT.
CheckedInv ==
    \A r \in Requests :
        /\ pc[r] = "locked" => seen[r] = credits[Owner[r]]
        /\ pc[r] = "admitted" =>
              /\ credits[Owner[r]] >= 1
              /\ Cardinality(ActiveJobs(Owner[r])) < Limit[Owner[r]]

Rows == {j \in Jobs : status[j] # "absent"}

Outstanding == {"pending", "failed", "lost"}
Effective == {"applied", "unconfirmed"}

\* How far a request is, and what it may have left in its row.
RowInv(r) ==
    /\ pc[r] \in {"idle", "validated"} \cup InTransaction =>
          status[r] = "absent" /\ response[r] = 0
    /\ status[r] = "absent" =>
          /\ errorCode[r] = "null" /\ refund[r] = "none" /\ mark[r] = "none"
          /\ work[r] = "none" /\ webhook[r] = "none"
    /\ pc[r] = "created" =>
          /\ status[r] = "queued" /\ errorCode[r] = "null" /\ mark[r] = "none"
          /\ work[r] = "none" /\ webhook[r] = "none"
    /\ errorCode[r] = "PROCESSING_FAILED" => status[r] = "failed"

\* The compensation of a failed dispatch and the processing of a job exclude
\* each other, and each writes the row at most once.
BranchInv(r) ==
    /\ refund[r] = "none" <=> mark[r] = "none"
    /\ mark[r] = "none" => errorCode[r] # "DISPATCH_FAILED"
    /\ mark[r] # "none" => work[r] = "none" /\ webhook[r] = "none"
    /\ mark[r] \in Outstanding => status[r] = "queued" /\ errorCode[r] = "null"
    /\ mark[r] \in Effective =>
          status[r] = "failed" /\ errorCode[r] = "DISPATCH_FAILED"
    /\ work[r] \in {"timer", "calling", "found"} =>
          status[r] = "queued" /\ errorCode[r] = "null" /\ webhook[r] = "none"
    /\ work[r] \in {"calling", "found"} => verdict[r] # "none"
    /\ webhook[r] # "none" => work[r] = "ended" /\ status[r] = verdict[r]

\* What an answer that was sent says of the row.
AnswerInv(r) ==
    /\ response[r] # 0 => pc[r] = "answered"
    /\ response[r] = 503 => refund[r] = "applied" /\ mark[r] = "applied"
    /\ response[r] = 202 => status[r] # "absent" /\ mark[r] = "none"
    /\ response[r] \in {400, 402, 429} => status[r] = "absent"

\* Where the guard refuses, no callback is found and none has an effect.
GuardInv(r) == ~CanActivate =>
    /\ webhook[r] = "none" /\ work[r] # "found"
    /\ work[r] # "none" => status[r] = "queued" /\ errorCode[r] = "null"

SafeRequest(r) == RowInv(r) /\ BranchInv(r) /\ AnswerInv(r) /\ GuardInv(r)

RequestInv == \A r \in Requests : SafeRequest(r)

IInv ==
    /\ TypeOK
    /\ IsFiniteSet(Rows)
    /\ LockInv
    /\ CheckedInv
    /\ RequestInv

-----------------------------------------------------------------------------
LEMMA Constants ==
    /\ Requests \subseteq Jobs /\ SeedJobs \subseteq Jobs
    /\ \A r \in Requests : r \notin SeedJobs /\ r # NoRequest
    /\ \A j \in Jobs : Owner[j] \in Users
    /\ \A u \in Users : Limit[u] \in Nat
BY LifecycleAssumption DEF Jobs

LEMMA TypeInit == Init => TypeOK
BY LifecycleAssumption DEF Init, TypeOK, Jobs, JobStatus, ActiveStatus, PromiseState

\* The row of a callback that was found has a verdict to receive.
LEMMA TypeNext == TypeOK /\ RequestInv /\ [Next]_vars => TypeOK'
<1> SUFFICES ASSUME TypeOK, RequestInv, [Next]_vars PROVE TypeOK'
  OBVIOUS
<1> USE Constants DEF TypeOK, vars, tables, handler, promises, processing, calm,
        Goto, Answer, EndTransaction
<1>1. ASSUME NEW r \in Requests, ValidateUrls(r) PROVE TypeOK'
  BY <1>1 DEF ValidateUrls
<1>2. ASSUME NEW r \in Requests, LockUserRow(r) PROVE TypeOK'
  BY <1>2 DEF LockUserRow
<1>3. ASSUME NEW r \in Requests, CheckLimits(r) PROVE TypeOK'
  BY <1>3 DEF CheckLimits, Decide, Refuse, Admit
<1>4. ASSUME NEW r \in Requests, CommitJob(r) PROVE TypeOK'
  BY <1>4 DEF CommitJob, DeductAndInsert, JobStatus, ActiveStatus
<1>5. ASSUME NEW r \in Requests, CommitReplyLost(r) PROVE TypeOK'
  BY <1>5, LifecycleAssumption DEF CommitReplyLost, DeductAndInsert, Fault, JobStatus, ActiveStatus
<1>6. ASSUME NEW r \in Requests, TransactionFails(r) PROVE TypeOK'
  BY <1>6, LifecycleAssumption DEF TransactionFails, Fault
<1>7. ASSUME NEW r \in Requests, DispatchJob(r) PROVE TypeOK'
  BY <1>7 DEF DispatchJob
<1>8. ASSUME NEW r \in Requests, DispatchRejected(r) PROVE TypeOK'
  BY <1>8 DEF DispatchRejected, Compensate, PromiseState
<1>9. ASSUME NEW r \in Requests, RefundCredit(r) PROVE TypeOK'
  BY <1>9 DEF RefundCredit, AddCredit, PromiseState
<1>10. ASSUME NEW r \in Requests, RefundFails(r) PROVE TypeOK'
  BY <1>10, LifecycleAssumption DEF RefundFails, AddCredit, Fault, PromiseState
<1>11. ASSUME NEW r \in Requests, MarkFailed(r) PROVE TypeOK'
  BY <1>11 DEF MarkFailed, WriteDispatchFailed, PromiseState, JobStatus
<1>12. ASSUME NEW r \in Requests, MarkFails(r) PROVE TypeOK'
  BY <1>12, LifecycleAssumption DEF MarkFails, WriteDispatchFailed, Fault, PromiseState, JobStatus
<1>13. ASSUME NEW r \in Requests, AnswerDispatchFailure(r) PROVE TypeOK'
  BY <1>13 DEF AnswerDispatchFailure
<1>14. ASSUME NEW r \in Requests, TimerFires(r) PROVE TypeOK'
  BY <1>14 DEF TimerFires
<1>15. ASSUME NEW r \in Requests, CallbackLost(r) PROVE TypeOK'
  BY <1>15, LifecycleAssumption DEF CallbackLost, Fault
<1>16. ASSUME NEW r \in Requests, RejectCallback(r) PROVE TypeOK'
  BY <1>16 DEF RejectCallback
<1>17. ASSUME NEW r \in Requests, FindJob(r) PROVE TypeOK'
  BY <1>17 DEF FindJob, Find
<1>18. ASSUME NEW r \in Requests, UpdateJob(r) PROVE TypeOK'
  <2>1. verdict[r] \in {"completed", "failed"}
    BY <1>18 DEF UpdateJob, FinishCallback, RequestInv, SafeRequest, BranchInv
  <2> QED
    BY <1>18, <2>1 DEF UpdateJob, FinishCallback, WriteVerdict, JobStatus
<1>19. ASSUME NEW r \in Requests, CallbackFails(r) PROVE TypeOK'
  <2>1. work[r] = "found" => verdict[r] \in {"completed", "failed"}
    BY DEF RequestInv, SafeRequest, BranchInv
  <2> QED
    BY <1>19, <2>1, LifecycleAssumption DEF CallbackFails, WriteVerdict, Fault, JobStatus
<1>20. ASSUME NEW r \in Requests, DeliverWebhook(r) PROVE TypeOK'
  BY <1>20 DEF DeliverWebhook, LookupSecret, FinishDelivery
<1>21. ASSUME NEW cause, Die(cause) PROVE TypeOK'
  BY <1>21, LifecycleAssumption DEF Die, Fault, PromiseState
<1>22. CASE UNCHANGED vars
  BY <1>22
<1> QED
  BY <1>1, <1>2, <1>3, <1>4, <1>5, <1>6, <1>7, <1>8, <1>9, <1>10, <1>11, <1>12,
     <1>13, <1>14, <1>15, <1>16, <1>17, <1>18, <1>19, <1>20, <1>21, <1>22
  DEF Next, HandleRequest, Callback, Failure, Crash, LookupSecretFails, Quiescent

-----------------------------------------------------------------------------
\* Locks.
LEMMA LockInit == Init => LockInv
BY Constants DEF Init, LockInv, InTransaction

LEMMA LockNext == TypeOK /\ LockInv /\ [Next]_vars => LockInv'
<1> SUFFICES ASSUME TypeOK, LockInv, [Next]_vars,
                    NEW u \in Users, NEW s \in Requests
             PROVE  lock'[u] = s <=> Owner[s] = u /\ pc'[s] \in InTransaction
  BY DEF LockInv
<1> USE Constants DEF TypeOK, LockInv, InTransaction, tables, handler, promises, processing, calm
<1>1. ASSUME UNCHANGED lock,
             \A r \in Requests : pc'[r] \in InTransaction <=> pc[r] \in InTransaction
      PROVE  lock'[u] = s <=> Owner[s] = u /\ pc'[s] \in InTransaction
  BY <1>1
<1>2. ASSUME NEW r \in Requests, LockUserRow(r)
      PROVE  lock'[u] = s <=> Owner[s] = u /\ pc'[s] \in InTransaction
  BY <1>2 DEF LockUserRow, Goto
<1>3. ASSUME NEW r \in Requests, EndTransaction(r), NEW to, Goto(r, to), to \notin InTransaction
      PROVE  lock'[u] = s <=> Owner[s] = u /\ pc'[s] \in InTransaction
  BY <1>3 DEF EndTransaction, Goto
<1>4. ASSUME NEW cause, Die(cause)
      PROVE  lock'[u] = s <=> Owner[s] = u /\ pc'[s] \in InTransaction
  BY <1>4 DEF Die
<1>5. ASSUME NEW r \in Requests, CheckLimits(r)
      PROVE  lock'[u] = s <=> Owner[s] = u /\ pc'[s] \in InTransaction
  BY <1>1, <1>3, <1>5 DEF CheckLimits, Decide, Refuse, Admit, Answer, Goto
<1>6. ASSUME NEW r \in Requests, CommitJob(r) \/ CommitReplyLost(r) \/ TransactionFails(r)
      PROVE  lock'[u] = s <=> Owner[s] = u /\ pc'[s] \in InTransaction
  BY <1>3, <1>6 DEF CommitJob, CommitReplyLost, TransactionFails, DeductAndInsert, Answer
<1>7. ASSUME NEW r \in Requests,
             \/ ValidateUrls(r) \/ DispatchJob(r) \/ DispatchRejected(r)
             \/ AnswerDispatchFailure(r)
      PROVE  lock'[u] = s <=> Owner[s] = u /\ pc'[s] \in InTransaction
  BY <1>1, <1>7 DEF ValidateUrls, DispatchJob, DispatchRejected, Compensate,
                    AnswerDispatchFailure, Answer, Goto
<1>8. CASE UNCHANGED handler
  BY <1>1, <1>8
<1> QED
  BY <1>2, <1>4, <1>5, <1>6, <1>7, <1>8
  DEF Next, HandleRequest, Callback, DeliverWebhook, Failure, Crash, LookupSecretFails,
      Quiescent, vars, RefundCredit, RefundFails, MarkFailed, MarkFails, TimerFires,
      CallbackLost, RejectCallback, FindJob, Find, UpdateJob, FinishCallback,
      CallbackFails, LookupSecret, FinishDelivery

-----------------------------------------------------------------------------
\* Rows, and the counts made of them.
LEMMA RowsInit == Init => IsFiniteSet(Rows)
<1> SUFFICES ASSUME Init PROVE IsFiniteSet(Rows)
  OBVIOUS
<1>1. Rows \subseteq SeedJobs
  BY DEF Init, Rows
<1> QED
  BY <1>1, FS_Subset, LifecycleAssumption

LEMMA RowsNext == TypeOK /\ IsFiniteSet(Rows) /\ [Next]_vars => IsFiniteSet(Rows')
<1> SUFFICES ASSUME TypeOK, IsFiniteSet(Rows), [Next]_vars PROVE IsFiniteSet(Rows')
  OBVIOUS
<1> USE DEF TypeOK, Rows, tables
<1>1. ASSUME NEW r, Rows' \subseteq Rows \cup {r} PROVE IsFiniteSet(Rows')
  <2>1. IsFiniteSet(Rows \cup {r})
    BY FS_AddElement
  <2> QED
    BY <1>1, <2>1, FS_Subset
<1>2. ASSUME UNCHANGED status PROVE IsFiniteSet(Rows')
  BY <1>2
<1>3. ASSUME NEW r \in Requests, DeductAndInsert(r) PROVE IsFiniteSet(Rows')
  BY <1>1, <1>3 DEF DeductAndInsert
<1>4. ASSUME NEW r \in Requests, WriteDispatchFailed(r) PROVE IsFiniteSet(Rows')
  BY <1>1, <1>4 DEF WriteDispatchFailed
<1>5. ASSUME NEW r \in Requests, WriteVerdict(r) PROVE IsFiniteSet(Rows')
  BY <1>1, <1>5 DEF WriteVerdict
<1>6. ASSUME NEW r \in Requests, Failure(r) PROVE IsFiniteSet(Rows')
  BY <1>2, <1>3, <1>4, <1>5, <1>6
  DEF Failure, CommitReplyLost, TransactionFails, RefundFails, MarkFails, CallbackLost,
      CallbackFails, LookupSecretFails, Die
<1>7. ASSUME NEW r \in Requests, HandleRequest(r) \/ ValidateUrls(r) PROVE IsFiniteSet(Rows')
  BY <1>2, <1>3, <1>7
  DEF HandleRequest, ValidateUrls, LockUserRow, CheckLimits, Decide, CommitJob,
      DispatchJob, DispatchRejected, Compensate, AnswerDispatchFailure
<1>8. ASSUME NEW r \in Requests,
             \/ RefundCredit(r) \/ MarkFailed(r) \/ Callback(r) \/ DeliverWebhook(r)
      PROVE  IsFiniteSet(Rows')
  BY <1>2, <1>4, <1>5, <1>8
  DEF RefundCredit, MarkFailed, Callback, TimerFires, RejectCallback, FindJob, Find,
      UpdateJob, FinishCallback, DeliverWebhook, LookupSecret, FinishDelivery
<1>9. CASE Crash \/ UNCHANGED vars
  BY <1>2, <1>9 DEF Crash, Die, vars
<1> QED
  BY <1>6, <1>7, <1>8, <1>9 DEF Next, Quiescent

LEMMA ActiveCount ==
    ASSUME IsFiniteSet(Rows), NEW u
    PROVE  IsFiniteSet(ActiveJobs(u)) /\ Cardinality(ActiveJobs(u)) \in Nat
<1>1. ActiveJobs(u) \subseteq Rows
  BY DEF ActiveJobs, Rows, ActiveStatus
<1> QED
  BY <1>1, FS_Subset, FS_CardinalityType

LEMMA ActiveShrinks ==
    ASSUME IsFiniteSet(Rows), NEW u,
           \A j \in Jobs : status'[j] \in ActiveStatus => status[j] \in ActiveStatus
    PROVE  /\ Cardinality(ActiveJobs(u)') \in Nat
           /\ Cardinality(ActiveJobs(u)') <= Cardinality(ActiveJobs(u))
<1>1. ActiveJobs(u)' \subseteq ActiveJobs(u)
  BY DEF ActiveJobs
<1> QED
  BY <1>1, ActiveCount, FS_Subset, FS_CardinalityType

\* Closing a row frees a slot and never takes one.
LEMMA ClosingShrinks ==
    ASSUME TypeOK, NEW r \in Requests, WriteDispatchFailed(r) \/ WriteVerdict(r)
    PROVE  \A j \in Jobs : status'[j] \in ActiveStatus => status[j] \in ActiveStatus
BY Constants DEF TypeOK, WriteDispatchFailed, WriteVerdict, ActiveStatus

LEMMA CheckedInit == Init => CheckedInv
BY DEF Init, CheckedInv

LEMMA CheckedNext ==
    TypeOK /\ IsFiniteSet(Rows) /\ LockInv /\ CheckedInv /\ [Next]_vars => CheckedInv'
<1> DEFINE Checked(s) ==
        /\ pc[s] = "locked" => seen[s] = credits[Owner[s]]
        /\ pc[s] = "admitted" =>
              /\ credits[Owner[s]] >= 1
              /\ Cardinality(ActiveJobs(Owner[s])) < Limit[Owner[s]]
<1> SUFFICES ASSUME TypeOK, IsFiniteSet(Rows), LockInv, CheckedInv, [Next]_vars,
                    NEW s \in Requests
             PROVE  Checked(s)'
  BY DEF CheckedInv
<1>0. /\ Checked(s)
      /\ Owner[s] \in Users /\ Limit[Owner[s]] \in Nat
      /\ Cardinality(ActiveJobs(Owner[s])) \in Nat
      /\ pc[s] \in InTransaction => lock[Owner[s]] = s
  BY Constants, ActiveCount DEF CheckedInv, LockInv
<1> DEFINE Still == pc'[s] \in InTransaction => pc'[s] = pc[s] /\ seen'[s] = seen[s]
           Shrinks == \A j \in Jobs :
                         status'[j] \in ActiveStatus => status[j] \in ActiveStatus
<1>1. ASSUME UNCHANGED credits, Still, Shrinks PROVE Checked(s)'
  <2>1. /\ Cardinality(ActiveJobs(Owner[s])') \in Nat
        /\ Cardinality(ActiveJobs(Owner[s])') <= Cardinality(ActiveJobs(Owner[s]))
    BY <1>1, ActiveShrinks
  <2> QED
    BY <1>0, <1>1, <2>1 DEF InTransaction
<1>2. ASSUME NEW r \in Requests, LockUserRow(r) PROVE Checked(s)'
  <2>1. CASE s = r
    BY <1>2, <2>1 DEF LockUserRow, Goto, TypeOK, tables
  <2>2. CASE s # r
    BY <1>1, <1>2, <2>2 DEF LockUserRow, Goto, TypeOK, tables
  <2> QED
    BY <2>1, <2>2
<1>3. ASSUME NEW r \in Requests, CheckLimits(r) PROVE Checked(s)'
  <2>1. UNCHANGED <<credits, status>> /\ pc[r] = "locked"
    BY <1>3 DEF CheckLimits, Decide, tables
  <2>2. CASE s # r \/ pc'[r] # "admitted"
    BY <1>1, <1>3, <2>1, <2>2
    DEF CheckLimits, Decide, Refuse, Admit, Answer, Goto, EndTransaction, TypeOK, InTransaction
  <2>3. CASE s = r /\ pc'[r] = "admitted"
    <3>1. ~Full(r) /\ ~(seen[r] < 1)
      BY <1>3, <2>3 DEF CheckLimits, Decide, Refuse, Answer, Goto, TypeOK
    <3>2. ActiveJobs(Owner[s])' = ActiveJobs(Owner[s])
      BY <2>1 DEF ActiveJobs
    <3> QED
      BY <1>0, <2>1, <2>3, <3>1, <3>2 DEF Full, TypeOK
  <2> QED
    BY <2>2, <2>3
<1>4. ASSUME NEW r \in Requests, pc[r] = "admitted", DeductAndInsert(r),
             NEW to, Goto(r, to), to \notin InTransaction
      PROVE  Checked(s)'
  <2>1. CASE pc'[s] \in InTransaction
    <3>1. s # r /\ pc'[s] = pc[s] /\ seen'[s] = seen[s]
      BY <1>4, <2>1 DEF Goto, DeductAndInsert, EndTransaction, TypeOK
    <3>2. Owner[s] # Owner[r]
      BY <1>4, <2>1, <3>1, Constants DEF LockInv, InTransaction
    <3>3. credits'[Owner[s]] = credits[Owner[s]]
      BY <1>0, <1>4, <3>2 DEF DeductAndInsert, TypeOK
    <3>4. ActiveJobs(Owner[s])' = ActiveJobs(Owner[s])
      BY <1>4, <3>2 DEF DeductAndInsert, ActiveJobs, TypeOK
    <3> QED
      BY <1>0, <3>1, <3>3, <3>4
  <2> QED
    BY <2>1 DEF InTransaction
<1>5. ASSUME NEW r \in Requests, AddCredit(r), UNCHANGED <<status, handler>>
      PROVE  Checked(s)'
  <2>1. CASE pc[s] \in InTransaction
    <3>1. Owner[s] # Owner[r]
      BY <1>0, <1>5, <2>1, Constants DEF AddCredit
    <3>2. credits'[Owner[s]] = credits[Owner[s]]
      BY <1>0, <1>5, <3>1 DEF AddCredit, TypeOK
    <3>3. ActiveJobs(Owner[s])' = ActiveJobs(Owner[s])
      BY <1>5 DEF ActiveJobs
    <3> QED
      BY <1>0, <1>5, <3>2, <3>3 DEF handler
  <2> QED
    BY <1>5, <2>1 DEF InTransaction, handler
<1>6. ASSUME NEW r \in Requests, ValidateUrls(r) \/ HandleRequest(r) PROVE Checked(s)'
  BY <1>1, <1>2, <1>3, <1>4, <1>6
  DEF ValidateUrls, HandleRequest, CommitJob, DispatchJob, DispatchRejected, Compensate,
      AnswerDispatchFailure, Answer, Goto, TypeOK, InTransaction, tables
<1>7. ASSUME NEW r \in Requests, CommitReplyLost(r) \/ TransactionFails(r) PROVE Checked(s)'
  BY <1>1, <1>4, <1>7
  DEF CommitReplyLost, TransactionFails, EndTransaction, Answer, Goto, TypeOK, InTransaction, tables
<1>8. ASSUME NEW r \in Requests,
             \/ MarkFailed(r) \/ MarkFails(r) \/ UpdateJob(r) \/ CallbackFails(r)
      PROVE  Checked(s)'
  <2>1. UNCHANGED <<credits, handler>>
    BY <1>8 DEF MarkFailed, MarkFails, UpdateJob, FinishCallback, CallbackFails
  <2>2. UNCHANGED status \/ WriteDispatchFailed(r) \/ WriteVerdict(r)
    BY <1>8 DEF MarkFailed, MarkFails, UpdateJob, FinishCallback, CallbackFails
  <2>3. Shrinks
    BY <1>8, <2>2, ClosingShrinks
  <2> QED
    BY <1>1, <2>1, <2>3 DEF handler
<1>9. ASSUME NEW r \in Requests, RefundCredit(r) \/ RefundFails(r) PROVE Checked(s)'
  BY <1>1, <1>5, <1>9 DEF RefundCredit, RefundFails, handler
<1>10. ASSUME NEW cause, Die(cause) PROVE Checked(s)'
  BY <1>1, <1>10 DEF Die, tables, InTransaction
<1>11. CASE UNCHANGED <<credits, status, handler>>
  BY <1>1, <1>11 DEF handler
<1> QED
  BY <1>6, <1>7, <1>8, <1>9, <1>10, <1>11
  DEF Next, Callback, DeliverWebhook, Failure, Crash, LookupSecretFails, Quiescent, vars,
      tables, TimerFires, CallbackLost, RejectCallback, FindJob, Find, LookupSecret,
      FinishDelivery

-----------------------------------------------------------------------------
\* The stages of a request.
LEMMA RequestInit == Init => RequestInv
BY Constants
DEF Init, RequestInv, SafeRequest, RowInv, BranchInv, AnswerInv, GuardInv, InTransaction,
    Outstanding, Effective

\* No step of the process changes its environment.
LEMMA GuardIsFixed == [Next]_vars => CanActivate' = CanActivate
<1> SUFFICES ASSUME [Next]_vars PROVE UNCHANGED envSecret
  BY DEF CanActivate, GuardSecret
<1> USE DEF calm
<1>1. ASSUME NEW r \in Requests, ValidateUrls(r) \/ HandleRequest(r)
      PROVE  UNCHANGED envSecret
  BY <1>1 DEF ValidateUrls, HandleRequest, LockUserRow, CheckLimits, Decide, CommitJob,
              DispatchJob, DispatchRejected, Compensate, AnswerDispatchFailure
<1>2. ASSUME NEW r \in Requests,
             RefundCredit(r) \/ MarkFailed(r) \/ Callback(r) \/ DeliverWebhook(r)
      PROVE  UNCHANGED envSecret
  BY <1>2 DEF RefundCredit, MarkFailed, Callback, TimerFires, RejectCallback, FindJob, Find,
              UpdateJob, FinishCallback, DeliverWebhook, LookupSecret, FinishDelivery
<1>3. ASSUME NEW r \in Requests, Failure(r) PROVE UNCHANGED envSecret
  BY <1>3 DEF Failure, TransactionFails, CommitReplyLost, RefundFails, MarkFails,
              CallbackLost, CallbackFails, LookupSecretFails, Die, Fault
<1>4. CASE Crash \/ UNCHANGED vars
  BY <1>4 DEF Crash, Die, Fault, vars
<1> QED
  BY <1>1, <1>2, <1>3, <1>4 DEF Next, Quiescent

LEMMA RequestNext == TypeOK /\ RequestInv /\ [Next]_vars => RequestInv'
<1> SUFFICES ASSUME TypeOK, RequestInv, [Next]_vars, NEW s \in Requests
             PROVE  SafeRequest(s)'
  BY DEF RequestInv
<1>0. SafeRequest(s) /\ s \in Jobs /\ CanActivate' = CanActivate
  BY Constants, GuardIsFixed DEF RequestInv
<1> USE <1>0 DEF TypeOK, tables, handler, promises, processing, calm, Goto, Answer,
        SafeRequest, RowInv, BranchInv, AnswerInv, GuardInv, InTransaction, Outstanding, Effective, PromiseState
<1>1. ASSUME NEW r \in Requests, ValidateUrls(r) PROVE SafeRequest(s)'
  BY <1>1 DEF ValidateUrls
<1>2. ASSUME NEW r \in Requests, LockUserRow(r) PROVE SafeRequest(s)'
  BY <1>2 DEF LockUserRow
<1>3. ASSUME NEW r \in Requests, CheckLimits(r) PROVE SafeRequest(s)'
  BY <1>3 DEF CheckLimits, Decide, Refuse, Admit
<1>4. ASSUME NEW r \in Requests, CommitJob(r) PROVE SafeRequest(s)'
  BY <1>4 DEF CommitJob, DeductAndInsert
<1>5. ASSUME NEW r \in Requests, CommitReplyLost(r) PROVE SafeRequest(s)'
  BY <1>5 DEF CommitReplyLost, DeductAndInsert, Fault
<1>6. ASSUME NEW r \in Requests, TransactionFails(r) PROVE SafeRequest(s)'
  BY <1>6 DEF TransactionFails, Fault
<1>7. ASSUME NEW r \in Requests, DispatchJob(r) PROVE SafeRequest(s)'
  BY <1>7 DEF DispatchJob
<1>8. ASSUME NEW r \in Requests, DispatchRejected(r) PROVE SafeRequest(s)'
  BY <1>8 DEF DispatchRejected, Compensate
<1>9. ASSUME NEW r \in Requests, RefundCredit(r) PROVE SafeRequest(s)'
  BY <1>9 DEF RefundCredit
<1>10. ASSUME NEW r \in Requests, RefundFails(r) PROVE SafeRequest(s)'
  BY <1>10 DEF RefundFails, Fault
<1>11. ASSUME NEW r \in Requests, MarkFailed(r) PROVE SafeRequest(s)'
  BY <1>11 DEF MarkFailed, WriteDispatchFailed
<1>12. ASSUME NEW r \in Requests, MarkFails(r) PROVE SafeRequest(s)'
  BY <1>12 DEF MarkFails, WriteDispatchFailed, Fault
<1>13. ASSUME NEW r \in Requests, AnswerDispatchFailure(r) PROVE SafeRequest(s)'
  BY <1>13 DEF AnswerDispatchFailure
<1>14. ASSUME NEW r \in Requests, TimerFires(r) PROVE SafeRequest(s)'
  BY <1>14 DEF TimerFires
<1>15. ASSUME NEW r \in Requests, CallbackLost(r) PROVE SafeRequest(s)'
  BY <1>15 DEF CallbackLost, Fault
<1>16. ASSUME NEW r \in Requests, RejectCallback(r) PROVE SafeRequest(s)'
  BY <1>16 DEF RejectCallback
<1>17. ASSUME NEW r \in Requests, FindJob(r) PROVE SafeRequest(s)'
  BY <1>17 DEF FindJob, Find
<1>18. ASSUME NEW r \in Requests, UpdateJob(r) PROVE SafeRequest(s)'
  BY <1>18 DEF UpdateJob, FinishCallback, WriteVerdict
<1>19. ASSUME NEW r \in Requests, CallbackFails(r) PROVE SafeRequest(s)'
  BY <1>19 DEF CallbackFails, WriteVerdict, Fault
<1>20. ASSUME NEW r \in Requests, DeliverWebhook(r) PROVE SafeRequest(s)'
  BY <1>20 DEF DeliverWebhook, LookupSecret, FinishDelivery
<1>21. ASSUME NEW cause, Die(cause) PROVE SafeRequest(s)'
  BY <1>21 DEF Die, Fault
<1>22. CASE UNCHANGED vars
  BY <1>22 DEF vars
<1> QED
  BY <1>1, <1>2, <1>3, <1>4, <1>5, <1>6, <1>7, <1>8, <1>9, <1>10, <1>11, <1>12,
     <1>13, <1>14, <1>15, <1>16, <1>17, <1>18, <1>19, <1>20, <1>21, <1>22
  DEF Next, HandleRequest, Callback, Failure, Crash, LookupSecretFails, Quiescent

-----------------------------------------------------------------------------
\* The induction: every reachable state has the locks, the checks under them
\* and the stages of the requests as described above.
THEOREM Invariance == Spec => []IInv
<1>1. Init => IInv
  BY TypeInit, RowsInit, LockInit, CheckedInit, RequestInit DEF IInv
<1>2. IInv /\ [Next]_vars => IInv'
  BY TypeNext, RowsNext, LockNext, CheckedNext, RequestNext DEF IInv
<1> QED
  BY <1>1, <1>2, PTL DEF Spec

\* Every column and every variable of the process keeps its type; no update
\* writes a verdict that was never drawn.
THEOREM TypeCorrect == Spec => []TypeOK
<1>1. IInv => TypeOK
  BY DEF IInv
<1> QED
  BY <1>1, Invariance, PTL

\* The refund and the mark are two statements of which either may fail or be
\* lost, and yet a job with a refund under way is never processed.
THEOREM RefundedNeverRun == Spec => []RefundedJobsNeverRun
<1>1. IInv => RefundedJobsNeverRun
  BY DEF IInv, TypeOK, RequestInv, SafeRequest, RowInv, BranchInv, RefundedJobsNeverRun,
         Outstanding, Effective, PromiseState
<1> QED
  BY <1>1, Invariance, PTL

\* What createJob answered is true of the tables for ever, whatever fails
\* after the answer.
THEOREM AnswersAreTrue == Spec => []ResponsesAreTruthful
<1>1. IInv => ResponsesAreTruthful
  BY DEF IInv, TypeOK, RequestInv, SafeRequest, BranchInv, AnswerInv, ResponsesAreTruthful,
         Effective, Created, Refunded
<1> QED
  BY <1>1, Invariance, PTL

\* A webhook is under way only for a row that already has the verdict of the
\* callback, and the row keeps it.
THEOREM WebhooksAreTrue == Spec => []WebhookReflectsRow
<1>1. IInv => WebhookReflectsRow
  BY DEF IInv, RequestInv, SafeRequest, BranchInv, WebhookReflectsRow
<1> QED
  BY <1>1, Invariance, PTL

\* A callback the guard refuses leaves no trace, for any value of the secret.
THEOREM RefusedCallbacksAreHarmless == Spec => []RefusedCallbacksChangeNothing
<1>1. IInv => RefusedCallbacksChangeNothing
  BY DEF IInv, RequestInv, SafeRequest, GuardInv, RefusedCallbacksChangeNothing
<1> QED
  BY <1>1, Invariance, PTL

\* The two writers of a row after its INSERT, the mark and the callback, both
\* require it to be open still.
LEMMA FinalRows ==
    ASSUME TypeOK, RequestInv, [Next]_vars, NEW j \in Jobs,
           status[j] \in {"completed", "failed"}
    PROVE  status'[j] = status[j] /\ errorCode'[j] = errorCode[j]
<1> DEFINE Kept == status'[j] = status[j] /\ errorCode'[j] = errorCode[j]
<1> USE DEF TypeOK, tables, RequestInv, SafeRequest, RowInv, BranchInv, InTransaction,
        Outstanding
<1>1. ASSUME UNCHANGED <<status, errorCode>> PROVE Kept
  BY <1>1
<1>2. ASSUME NEW r \in Requests, status[r] \in {"absent", "queued"}, UNCHANGED errorCode,
             status' = [status EXCEPT ![r] = "queued"]
      PROVE  Kept
  BY <1>2
<1>3. ASSUME NEW r \in Requests, status[r] = "queued",
             WriteDispatchFailed(r) \/ WriteVerdict(r)
      PROVE  Kept
  BY <1>3 DEF WriteDispatchFailed, WriteVerdict
<1>4. ASSUME NEW r \in Requests, ValidateUrls(r) \/ HandleRequest(r) PROVE Kept
  BY <1>1, <1>2, <1>4
  DEF ValidateUrls, HandleRequest, LockUserRow, CheckLimits, Decide, CommitJob,
      DeductAndInsert, DispatchJob, DispatchRejected, Compensate, AnswerDispatchFailure
<1>5. ASSUME NEW r \in Requests, Failure(r) PROVE Kept
  BY <1>1, <1>2, <1>3, <1>5
  DEF Failure, TransactionFails, CommitReplyLost, DeductAndInsert, RefundFails, MarkFails,
      CallbackLost, CallbackFails, LookupSecretFails, Die
<1>6. ASSUME NEW r \in Requests,
             RefundCredit(r) \/ MarkFailed(r) \/ Callback(r) \/ DeliverWebhook(r)
      PROVE  Kept
  BY <1>1, <1>3, <1>6
  DEF RefundCredit, MarkFailed, Callback, TimerFires, RejectCallback, FindJob, Find,
      UpdateJob, FinishCallback, DeliverWebhook, LookupSecret, FinishDelivery
<1>7. CASE Crash \/ UNCHANGED vars
  BY <1>1, <1>7 DEF Crash, Die, vars
<1> QED
  BY <1>4, <1>5, <1>6, <1>7 DEF Next, Quiescent

\* A row that a client has seen completed or failed never changes again.
THEOREM FinalRowsStay == Spec => TerminalRowsAreFinal
<1>1. IInv /\ [Next]_vars =>
        [\A j \in Jobs : status[j] \in {"completed", "failed"} =>
            status'[j] = status[j] /\ errorCode'[j] = errorCode[j]]_vars
  BY FinalRows DEF IInv
<1> QED
  BY <1>1, Invariance, PTL DEF Spec, TerminalRowsAreFinal
-----------------------------------------------------------------------------
(***************************************************************************)
(* What is owed.  While nothing has failed, whatever was begun is still    *)
(* under way or has come to its proper end.                                *)
(***************************************************************************)
CalmRequest(r) ==
    /\ pc[r] # "lost" /\ webhook[r] # "lost"
    /\ {refund[r], mark[r]} \subseteq {"none", "pending", "applied"}
    /\ pc[r] = "answered" /\ status[r] # "absent" => mark[r] # "none" \/ work[r] # "none"
    /\ work[r] # "none" => response[r] = 202
    /\ CanActivate /\ work[r] = "ended" => webhook[r] # "none"
    /\ webhook[r] # "none" => verdict[r] # "none"

CalmInv == faults = 0 => \A r \in Requests : CalmRequest(r)

LEMMA CalmInit == Init => CalmInv
BY Constants DEF Init, CalmInv, CalmRequest

\* A step after which nothing has failed is none of those that fail.
LEMMA CalmSteps ==
    ASSUME TypeOK, [Next]_vars, faults' = 0
    PROVE  /\ UNCHANGED calm /\ ~Crash
           /\ \A r \in Requests : ~Failure(r)
<1>1. \A kind : ~Fault(kind)
  BY DEF Fault, TypeOK
<1>2. \A r \in Requests : ~Failure(r)
  BY <1>1 DEF Failure, TransactionFails, CommitReplyLost, RefundFails, MarkFails, CallbackLost,
              CallbackFails, LookupSecretFails, Die
<1>3. UNCHANGED calm /\ ~Crash
  BY <1>1, <1>2
  DEF Next, Crash, Die, Quiescent, vars, ValidateUrls, HandleRequest, LockUserRow, CheckLimits,
      Decide, CommitJob, DispatchJob, DispatchRejected, Compensate, AnswerDispatchFailure,
      RefundCredit, MarkFailed, Callback, TimerFires, RejectCallback, FindJob, Find, UpdateJob,
      FinishCallback, DeliverWebhook, LookupSecret, FinishDelivery, calm
<1> QED
  BY <1>2, <1>3

LEMMA CalmNext == IInv /\ CalmInv /\ [Next]_vars => CalmInv'
<1> SUFFICES ASSUME IInv, CalmInv, [Next]_vars, faults' = 0, NEW s \in Requests
             PROVE  CalmRequest(s)'
  BY DEF CalmInv
<1>1. UNCHANGED calm /\ ~Crash /\ \A r \in Requests : ~Failure(r)
  BY CalmSteps DEF IInv
<1>2. CalmRequest(s) /\ SafeRequest(s) /\ s \in Jobs /\ CanActivate' = CanActivate /\ TypeOK
  BY <1>1, Constants, GuardIsFixed DEF CalmInv, IInv, RequestInv, calm
<1> USE <1>2 DEF TypeOK, tables, handler, promises, processing, Goto, Answer,
        CalmRequest, SafeRequest, RowInv, BranchInv, AnswerInv, InTransaction
<1>3. ASSUME NEW r \in Requests, ValidateUrls(r) PROVE CalmRequest(s)'
  BY <1>3 DEF ValidateUrls
<1>4. ASSUME NEW r \in Requests, LockUserRow(r) \/ CheckLimits(r) PROVE CalmRequest(s)'
  BY <1>4 DEF LockUserRow, CheckLimits, Decide, Refuse, Admit
<1>5. ASSUME NEW r \in Requests, CommitJob(r) PROVE CalmRequest(s)'
  BY <1>5 DEF CommitJob, DeductAndInsert
<1>6. ASSUME NEW r \in Requests, DispatchJob(r) \/ DispatchRejected(r) PROVE CalmRequest(s)'
  BY <1>6 DEF DispatchJob, DispatchRejected, Compensate
<1>7. ASSUME NEW r \in Requests, AnswerDispatchFailure(r) PROVE CalmRequest(s)'
  BY <1>7 DEF AnswerDispatchFailure
<1>8. ASSUME NEW r \in Requests, RefundCredit(r) \/ MarkFailed(r) PROVE CalmRequest(s)'
  BY <1>8 DEF RefundCredit, MarkFailed, WriteDispatchFailed
<1>9. ASSUME NEW r \in Requests, TimerFires(r) \/ RejectCallback(r) PROVE CalmRequest(s)'
  BY <1>9 DEF TimerFires, RejectCallback
<1>10. ASSUME NEW r \in Requests, FindJob(r) \/ UpdateJob(r) PROVE CalmRequest(s)'
  BY <1>10 DEF FindJob, Find, UpdateJob, FinishCallback, WriteVerdict
<1>11. ASSUME NEW r \in Requests, DeliverWebhook(r) PROVE CalmRequest(s)'
  BY <1>11 DEF DeliverWebhook, LookupSecret, FinishDelivery
<1>12. CASE UNCHANGED vars
  BY <1>12 DEF vars
<1> QED
  BY <1>1, <1>3, <1>4, <1>5, <1>6, <1>7, <1>8, <1>9, <1>10, <1>11, <1>12
  DEF Next, HandleRequest, Callback, Quiescent

\* The safety half of JobsSettle and FailedDispatchesAreUndone: a gateway
\* without faults that has come to rest has finished or undone every job.
THEOREM NothingStaysOwed == Spec => []NothingIsOwedAtRest
<1>1. IInv /\ CalmInv => NothingIsOwedAtRest
  <2> SUFFICES ASSUME IInv, CalmInv, AtRest, faults = 0, NEW r \in Created
               PROVE  Undone(r) \/ (CanActivate => Settled(r))
    BY DEF NothingIsOwedAtRest
  <2>1. /\ r \in Requests /\ status[r] # "absent"
        /\ CalmRequest(r) /\ BranchInv(r)
        /\ pc[r] = "answered"
        /\ refund[r] # "pending" /\ mark[r] # "pending"
        /\ work[r] \in {"none", "ended"} /\ webhook[r] \in {"none", "done"}
    BY DEF Created, AtRest, CalmInv, CalmRequest, IInv, RequestInv, SafeRequest
  <2>2. CASE mark[r] # "none"
    BY <2>1, <2>2 DEF CalmRequest, BranchInv, Effective, Undone, Refunded
  <2>3. CASE mark[r] = "none" /\ CanActivate
    <3>1. webhook[r] = "done" /\ verdict[r] # "none" /\ status[r] = verdict[r]
      BY <2>1, <2>3 DEF CalmRequest, BranchInv
    <3>2. verdict[r] \in {"completed", "failed"}
      BY <2>1, <3>1 DEF IInv, TypeOK
    <3> QED
      BY <3>1, <3>2 DEF Settled, ActiveStatus
  <2> QED
    BY <2>2, <2>3
<1>2. Init => CalmInv
  BY CalmInit
<1>3. IInv /\ CalmInv /\ [Next]_vars => CalmInv'
  BY CalmNext
<1> QED
  BY <1>1, <1>2, <1>3, Invariance, PTL DEF Spec
-----------------------------------------------------------------------------
(***************************************************************************)
(* The lifecycle implements the ledger, for any constants, and inherits    *)
(* its safety: the limit and the balance follow from LedgerIsSafe.         *)
(***************************************************************************)
Issued == {j \in Jobs : status[j] # "absent"}
Open == {j \in Jobs : status[j] \in ActiveStatus}
Paid == Created \ Refunded
Delivered == {r \in Requests : status[r] = "completed" \/ errorCode[r] = "PROCESSING_FAILED"}

\* The ledger with its proofs, under the mapping of JobLifecycle.
Books == INSTANCE CreditLedgerProofs WITH
    balance <- credits,
    issued <- Issued,
    open <- Open,
    charged <- Paid,
    delivered <- Delivered,
    InitialBalance <- InitialCredits,
    InitialJobs <- SeedJobs

\* The instance has its own copy of the operators of FiniteSets.
LEMMA SameCardinality == \A S : Books!Cardinality(S) = Cardinality(S)
BY DEF Cardinality, Books!Cardinality

LEMMA SameFinite == \A S : Books!IsFiniteSet(S) <=> IsFiniteSet(S)
BY DEF IsFiniteSet, Books!IsFiniteSet

booksVars == <<credits, Issued, Open, Paid, Delivered>>

\* The rows and the refunds are all the ledger sees of a state.
LEMMA SameBooks ==
    ASSUME UNCHANGED <<credits, status, errorCode>>, Refunded' = Refunded
    PROVE  UNCHANGED booksVars
BY DEF booksVars, Issued, Open, Paid, Delivered, Created

\* CommitJob, or CommitReplyLost: a job is admitted.
LEMMA CommitAdmits ==
    ASSUME IInv, NEW r \in Requests, pc[r] = "admitted", DeductAndInsert(r),
           UNCHANGED refund
    PROVE  Books!Admit(r)
<1> USE DEF IInv, TypeOK, RequestInv, SafeRequest
<1>0. /\ r \in Jobs /\ Owner[r] \in Users
      /\ status[r] = "absent" /\ errorCode[r] = "null" /\ refund[r] = "none"
  BY Constants DEF RowInv, InTransaction
<1>1. /\ r \notin Issued
      /\ Issued' = Issued \cup {r}
      /\ Open' = Open \cup {r}
      /\ UNCHANGED Delivered
  BY <1>0, Constants DEF DeductAndInsert, Issued, Open, Delivered, ActiveStatus
<1>2. Paid' = Paid \cup {r}
  BY <1>0, Constants DEF DeductAndInsert, Paid, Created, Refunded
<1>3. /\ credits[Owner[r]] >= 1
      /\ credits' = [credits EXCEPT ![Owner[r]] = @ - 1]
  BY <1>0 DEF DeductAndInsert, CheckedInv
<1>4. Cardinality(Books!OfUser(Open, Owner[r])) < Limit[Owner[r]]
  <2>1. Books!OfUser(Open, Owner[r]) = ActiveJobs(Owner[r])
    BY DEF Books!OfUser, Open, ActiveJobs
  <2> QED
    BY <2>1 DEF CheckedInv
<1> QED
  BY <1>1, <1>2, <1>3, <1>4, SameCardinality DEF Books!Admit

\* refundCredit, whether or not its reply arrives: the credit of a job that
\* was not run is given back.
LEMMA RefundRefunds ==
    ASSUME IInv, NEW r \in Requests, refund[r] = "pending",
           NEW s \in Effective, refund' = [refund EXCEPT ![r] = s],
           AddCredit(r), UNCHANGED <<status, errorCode>>
    PROVE  Books!Refund(r)
<1> USE DEF IInv, TypeOK, RequestInv, SafeRequest, Effective
<1>1. r \in Paid \ Delivered
  <2>1. RowInv(r) /\ BranchInv(r)
    OBVIOUS
  <2>2. status[r] # "absent" /\ mark[r] \in Outstanding \cup Effective
    BY <2>1 DEF RowInv, BranchInv, Outstanding, PromiseState
  <2>3. status[r] # "completed" /\ errorCode[r] # "PROCESSING_FAILED"
    BY <2>1, <2>2 DEF BranchInv
  <2> QED
    BY <2>2, <2>3 DEF Paid, Delivered, Created, Refunded
<1>2. Paid' = Paid \ {r} /\ UNCHANGED <<Issued, Open, Delivered>>
  BY DEF Paid, Created, Refunded, Issued, Open, Delivered
<1> QED
  BY <1>1, <1>2 DEF Books!Refund, AddCredit

\* The row of a job that was never dispatched is closed.
LEMMA MarkVoids ==
    ASSUME IInv, NEW r \in Requests, mark[r] = "pending",
           WriteDispatchFailed(r), UNCHANGED <<credits, refund>>
    PROVE  Books!Void(r)
<1> USE Constants DEF IInv, TypeOK, RequestInv, SafeRequest, BranchInv, Outstanding
<1>1. r \in Open \ Delivered
  BY DEF Open, Delivered, ActiveStatus
<1>2. Open' = Open \ {r} /\ UNCHANGED <<Issued, Paid, Delivered>>
  BY DEF WriteDispatchFailed, Open, Issued, Paid, Created, Refunded, Delivered, ActiveStatus
<1> QED
  BY <1>1, <1>2 DEF Books!Void

\* A callback closes the row of a job that was paid for.
LEMMA VerdictDelivers ==
    ASSUME IInv, NEW r \in Requests, work[r] = "found",
           WriteVerdict(r), UNCHANGED <<credits, refund>>
    PROVE  Books!Deliver(r)
<1> USE Constants DEF IInv, TypeOK, RequestInv, SafeRequest, RowInv, BranchInv
<1>1. r \in Open \cap Paid
  BY DEF Open, Paid, Created, Refunded, ActiveStatus
<1>2. /\ verdict[r] \in {"completed", "failed"}
      /\ Open' = Open \ {r} /\ Delivered' = Delivered \cup {r}
      /\ UNCHANGED <<Issued, Paid>>
  BY DEF WriteVerdict, Open, Issued, Paid, Created, Refunded, Delivered, ActiveStatus
<1> QED
  BY <1>1, <1>2 DEF Books!Deliver

-----------------------------------------------------------------------------
LEMMA BooksAssumption == Books!LedgerAssumption
<1>1. \A u \in Users : Books!OfUser(InitialOpen, u) = {j \in InitialOpen : Owner[j] = u}
  BY DEF Books!OfUser
<1>2. InitialOpen \subseteq SeedJobs
  BY DEF InitialOpen
<1> QED
  BY <1>1, <1>2, Constants, LifecycleAssumption, SameCardinality, SameFinite
  DEF Books!LedgerAssumption

LEMMA BooksInit == Init => Books!Init
<1> SUFFICES ASSUME Init PROVE Books!Init
  OBVIOUS
<1>1. Issued = SeedJobs /\ Open = InitialOpen
  BY Constants, LifecycleAssumption
  DEF Init, Issued, Open, InitialOpen, JobStatus, ActiveStatus
<1>2. Paid = {} /\ Delivered = {}
  BY Constants DEF Init, Paid, Delivered, Created
<1> QED
  BY <1>1, <1>2 DEF Init, Books!Init

LEMMA BooksNext == IInv /\ [Next]_vars => [Books!Next]_booksVars
<1> SUFFICES ASSUME IInv, [Next]_vars PROVE [Books!Next]_booksVars
  OBVIOUS
<1> DEFINE Step == [Books!Next]_booksVars
<1> USE DEF tables, promises
<1>1. ASSUME NEW j \in Jobs,
             Books!Admit(j) \/ Books!Refund(j) \/ Books!Void(j) \/ Books!Deliver(j)
      PROVE  Step
  BY <1>1 DEF Books!Next
<1>2. ASSUME UNCHANGED <<tables, refund>> PROVE Step
  BY <1>2, SameBooks DEF Refunded
<1>3. ASSUME NEW r \in Requests, ValidateUrls(r) \/ HandleRequest(r) PROVE Step
  <2>1. CASE CommitJob(r)
    BY <2>1, <1>1, CommitAdmits, Constants DEF CommitJob
  <2>2. CASE DispatchRejected(r)
    <3>1. refund[r] \in {"none", "pending"} /\ Refunded' = Refunded
      BY <2>2 DEF DispatchRejected, Compensate, Refunded, IInv, TypeOK, RequestInv,
                  SafeRequest, RowInv, BranchInv
    <3> QED
      BY <2>2, <3>1, SameBooks DEF DispatchRejected, Compensate
  <2> QED
    BY <1>2, <1>3, <2>1, <2>2
    DEF ValidateUrls, HandleRequest, LockUserRow, CheckLimits, Decide, DispatchJob,
        AnswerDispatchFailure
<1>4. ASSUME NEW r \in Requests, RefundCredit(r) \/ RefundFails(r) PROVE Step
  <2>1. CASE refund' = [refund EXCEPT ![r] = "failed"] /\ UNCHANGED credits
    <3>1. refund[r] = "pending" /\ Refunded' = Refunded
      BY <1>4, <2>1 DEF RefundCredit, RefundFails, Refunded, IInv, TypeOK
    <3> QED
      BY <1>4, <2>1, <3>1, SameBooks DEF RefundCredit, RefundFails
  <2>2. CASE \E s \in Effective : refund' = [refund EXCEPT ![r] = s] /\ AddCredit(r)
    BY <1>1, <1>4, <2>2, RefundRefunds, Constants DEF RefundCredit, RefundFails
  <2> QED
    BY <1>4, <2>1, <2>2 DEF RefundCredit, RefundFails, Effective
<1>5. ASSUME NEW r \in Requests, MarkFailed(r) \/ MarkFails(r) PROVE Step
  BY <1>1, <1>2, <1>5, MarkVoids, Constants DEF MarkFailed, MarkFails
<1>6. ASSUME NEW r \in Requests, Callback(r) \/ CallbackFails(r) PROVE Step
  BY <1>1, <1>2, <1>6, VerdictDelivers, Constants
  DEF Callback, TimerFires, RejectCallback, FindJob, Find, UpdateJob, FinishCallback,
      CallbackFails
<1>7. ASSUME NEW r \in Requests, CommitReplyLost(r) PROVE Step
  BY <1>1, <1>7, CommitAdmits, Constants DEF CommitReplyLost
<1>8. ASSUME NEW r \in Requests, TransactionFails(r) \/ CallbackLost(r) \/ DeliverWebhook(r)
      PROVE  Step
  BY <1>2, <1>8 DEF TransactionFails, CallbackLost, DeliverWebhook, LookupSecret, FinishDelivery
<1>9. ASSUME NEW cause, Die(cause) PROVE Step
  <2>1. Refunded' = Refunded
    BY <1>9 DEF Die, Refunded
  <2> QED
    BY <1>9, <2>1, SameBooks DEF Die
<1>10. CASE UNCHANGED vars
  BY <1>2, <1>10 DEF vars
<1> QED
  BY <1>3, <1>4, <1>5, <1>6, <1>7, <1>8, <1>9, <1>10
  DEF Next, Failure, Crash, LookupSecretFails, Quiescent

-----------------------------------------------------------------------------
THEOREM SpecImplementsBooks == Spec => Books!Spec
<1>1. [Books!Next]_booksVars <=> [Books!Next]_Books!vars
  BY DEF booksVars, Books!vars
<1> QED
  BY <1>1, BooksInit, BooksNext, Invariance, PTL DEF Spec, Books!Spec

\* Ledger, the instance the model checker uses, is the same specification.
LEMMA SameLedger ==
    /\ Ledger!Init <=> Books!Init
    /\ [Ledger!Next]_Ledger!vars <=> [Books!Next]_Books!vars
<1>1. \A S : Ledger!Cardinality(S) = Books!Cardinality(S)
  BY DEF Ledger!Cardinality, Books!Cardinality
<1>2. \A S, u : Ledger!OfUser(S, u) = Books!OfUser(S, u)
  BY DEF Ledger!OfUser, Books!OfUser
<1> USE <1>1, <1>2 DEF Issued, Open, Paid, Delivered
<1>3. Ledger!Init <=> Books!Init
  BY DEF Ledger!Init, Books!Init
<1>4. \A j : /\ Ledger!Admit(j) <=> Books!Admit(j)
             /\ Ledger!Refund(j) <=> Books!Refund(j)
             /\ Ledger!Void(j) <=> Books!Void(j)
             /\ Ledger!Deliver(j) <=> Books!Deliver(j)
  BY DEF Ledger!Admit, Ledger!Refund, Ledger!Void, Ledger!Deliver,
         Books!Admit, Books!Refund, Books!Void, Books!Deliver
<1>5. Ledger!vars = Books!vars /\ Ledger!vars' = Books!vars'
  BY DEF Ledger!vars, Books!vars
<1> QED
  BY <1>3, <1>4, <1>5 DEF Ledger!Next, Books!Next

\* Seen from the tables, the statements of createJob, its compensation, the
\* callback and the crash are the atomic operations of the ledger, whatever
\* interleaves and whatever fails.
THEOREM LifecycleImplementsLedger == Spec => ImplementsLedger
BY SpecImplementsBooks, SameLedger, PTL DEF Books!Spec, ImplementsLedger, Ledger!Spec

\* What the ledger promises, read in the tables.
LEMMA BooksLimit == Books!LimitRespected => WithinConcurrencyLimit
<1>1. \A u \in Users : Books!OfUser(Open, u) = ActiveJobs(u)
  BY DEF Books!OfUser, Open, ActiveJobs
<1> QED
  BY <1>1, SameCardinality DEF Books!LimitRespected, WithinConcurrencyLimit

LEMMA BooksBalance == Books!BalanceExact => CreditsBalance
<1>1. \A u \in Users :
        Books!OfUser(Paid, u) = {r \in Created \ Refunded : Owner[r] = u}
  BY DEF Books!OfUser, Paid
<1> QED
  BY <1>1, SameCardinality DEF Books!BalanceExact, CreditsBalance

\* The README's first guarantee, for any plans, users and interleavings: the
\* concurrency limit of the plan is never exceeded.
THEOREM LimitNeverExceeded == Spec => []WithinConcurrencyLimit
BY BooksLimit, BooksAssumption, SpecImplementsBooks, Books!LedgerIsSafe, PTL

\* And the second: nobody is overcharged, and no credit is given back twice.
THEOREM NobodyOvercharged == Spec => []CreditsBalance
BY BooksBalance, BooksAssumption, SpecImplementsBooks, Books!LedgerIsSafe, PTL
=============================================================================
