------------------------- MODULE ConnectionPoolProofs -------------------------
(***************************************************************************)
(* Theorems about ConnectionPool, for a pool of any size.  The pool only   *)
(* delays the lifecycle, so whatever is proved of JobLifecycle holds with  *)
(* it; and its connections are used and given back as they should be.      *)
(***************************************************************************)
EXTENDS ConnectionPool, JobLifecycleProofs

HeldInv ==
    /\ held \in SUBSET Claims
    /\ IsFiniteSet(held)
    /\ Cardinality(held) <= PoolSize
    /\ orphans \in SUBSET Requests

\* Who is past BEGIN has a connection, and a connection in use, or a refund
\* that has outlived one, belongs to somebody who is not done.
ClaimInv ==
    \A r \in Requests :
        /\ Transaction(r) \in held => pc[r] \in {"validated"} \cup InTransaction
        /\ pc[r] \in InTransaction => Transaction(r) \in held
        /\ Refund(r) \in held \/ r \in orphans => refund[r] = "pending"

PoolInv == HeldInv /\ ClaimInv

-----------------------------------------------------------------------------
\* The pool does nothing to users, jobs and the process.
LEMMA PoolStepIsLifecycleStep == [PoolNext]_poolVars => [Next]_vars
<1> SUFFICES ASSUME [PoolNext]_poolVars PROVE [Next]_vars
  OBVIOUS
<1>1. ASSUME NEW r \in Requests, RunTransaction(r) \/ BreakTransaction(r) PROVE Next
  BY <1>1 DEF RunTransaction, BreakTransaction, Next, HandleRequest, Failure
<1>2. ASSUME NEW r \in Requests, RunRefund(r) PROVE Next
  BY <1>2 DEF RunRefund, Next, Failure
<1>3. ASSUME NEW r \in Requests, RunStatement(r) \/ StatementFails(r) PROVE Next
  BY <1>3 DEF RunStatement, StatementFails, Next, Callback, DeliverWebhook, Failure
<1>4. ASSUME NEW r \in Requests, Compute(r) PROVE Next
  BY <1>4 DEF Compute, Next, HandleRequest, Callback, DeliverWebhook, Failure
<1>5. CASE Restart
  BY <1>5 DEF Restart, Next, Failure
<1>6. ASSUME NEW r \in Requests, BeginTransaction(r) \/ BeginRefund(r) PROVE UNCHANGED vars
  BY <1>6 DEF BeginTransaction, BeginRefund
<1>7. CASE PoolQuiescent \/ UNCHANGED poolVars
  BY <1>7 DEF PoolQuiescent, Quiescent, poolVars
<1> QED
  BY <1>1, <1>2, <1>3, <1>4, <1>5, <1>6, <1>7 DEF PoolNext, Step

\* Every behaviour of the lifecycle on a pool is a behaviour of the
\* lifecycle: a caller that waits for a connection does nothing that a slow
\* caller could not do.
THEOREM PoolRefinesLifecycle == PoolSpec => Spec
BY PoolStepIsLifecycleStep, PTL DEF PoolSpec, PoolInit, Spec

\* So the promises of the lifecycle survive any shortage of connections.
THEOREM PoolKeepsThePromises ==
    PoolSpec => [](WithinConcurrencyLimit /\ CreditsBalance /\ NothingIsOwedAtRest)
BY PoolRefinesLifecycle, LimitNeverExceeded, NobodyOvercharged, NothingStaysOwed, PTL

-----------------------------------------------------------------------------
\* What taking and releasing do to the number of connections in use.
LEMMA TakeCounts ==
    ASSUME HeldInv, NEW c \in Claims, Take(c)
    PROVE  /\ held' \in SUBSET Claims
           /\ IsFiniteSet(held')
           /\ Cardinality(held') <= PoolSize
<1>1. Cardinality(held) \in Nat /\ Cardinality(held) < PoolSize /\ PoolSize \in Nat
  BY FS_CardinalityType, PoolAssumption DEF HeldInv, Take, Free
<1>2. IsFiniteSet(held') /\ Cardinality(held') = Cardinality(held) + 1
  BY FS_AddElement DEF HeldInv, Take
<1> QED
  BY <1>1, <1>2 DEF HeldInv, Take

LEMMA ReleaseCounts ==
    ASSUME HeldInv, held' \subseteq held
    PROVE  /\ held' \in SUBSET Claims
           /\ IsFiniteSet(held')
           /\ Cardinality(held') <= PoolSize
<1>1. IsFiniteSet(held') /\ Cardinality(held') <= Cardinality(held)
  BY FS_Subset DEF HeldInv
<1>2. Cardinality(held) \in Nat /\ Cardinality(held') \in Nat /\ PoolSize \in Nat
  BY <1>1, FS_CardinalityType, PoolAssumption DEF HeldInv
<1> QED
  BY <1>1, <1>2 DEF HeldInv

LEMMA HeldInit == PoolInit => HeldInv
BY FS_EmptySet, PoolAssumption DEF PoolInit, HeldInv

LEMMA HeldNext == HeldInv /\ [PoolNext]_poolVars => HeldInv'
<1> SUFFICES ASSUME HeldInv, [PoolNext]_poolVars PROVE HeldInv'
  OBVIOUS
<1>1. ASSUME NEW c \in Claims, Take(c), UNCHANGED orphans PROVE HeldInv'
  BY <1>1, TakeCounts DEF HeldInv
<1>2. ASSUME held' \subseteq held, orphans' \in SUBSET Requests PROVE HeldInv'
  BY <1>2, ReleaseCounts DEF HeldInv
<1>3. ASSUME NEW r \in Requests, BeginTransaction(r) \/ BeginRefund(r) PROVE HeldInv'
  BY <1>1, <1>3 DEF BeginTransaction, BeginRefund, Claims
<1>4. orphans \in SUBSET Requests
  BY DEF HeldInv
<1>5. ASSUME NEW r \in Requests,
             RunTransaction(r) \/ BreakTransaction(r) \/ RunRefund(r)
      PROVE  HeldInv'
  BY <1>2, <1>4, <1>5 DEF RunTransaction, BreakTransaction, RunRefund, Release
<1>6. CASE Restart
  BY <1>2, <1>6 DEF Restart
<1>7. CASE UNCHANGED pool
  BY <1>2, <1>4, <1>7 DEF pool
<1> QED
  BY <1>3, <1>5, <1>6, <1>7
  DEF PoolNext, Step, RunStatement, StatementFails, Compute, PoolQuiescent, poolVars

-----------------------------------------------------------------------------
LEMMA ClaimInit == PoolInit => ClaimInv
BY DEF PoolInit, Init, ClaimInv, InTransaction

LEMMA ClaimsDiffer ==
    \A r, s : /\ Transaction(r) # Refund(s)
              /\ Transaction(r) = Transaction(s) => r = s
              /\ Refund(r) = Refund(s) => r = s
BY DEF Transaction, Refund

LEMMA ClaimNext == TypeOK /\ ClaimInv /\ [PoolNext]_poolVars => ClaimInv'
<1> DEFINE Claimed(s) ==
        /\ Transaction(s) \in held => pc[s] \in {"validated"} \cup InTransaction
        /\ pc[s] \in InTransaction => Transaction(s) \in held
        /\ Refund(s) \in held \/ s \in orphans => refund[s] = "pending"
<1> SUFFICES ASSUME TypeOK, ClaimInv, [PoolNext]_poolVars, NEW s \in Requests
             PROVE  Claimed(s)'
  BY DEF ClaimInv
<1>0. Claimed(s)
  BY DEF ClaimInv
<1> USE <1>0, ClaimsDiffer DEF TypeOK, InTransaction, handler, promises, pool, Goto, Answer
<1>1. ASSUME NEW r \in Requests, BeginTransaction(r) \/ BeginRefund(r) PROVE Claimed(s)'
  BY <1>1 DEF BeginTransaction, BeginRefund, Take, vars
<1>2. ASSUME NEW r \in Requests, RunTransaction(r) PROVE Claimed(s)'
  <2>1. CASE LockUserRow(r) /\ UNCHANGED <<held, orphans>>
    BY <1>2, <2>1 DEF RunTransaction, LockUserRow
  <2>2. CASE /\ CheckLimits(r) /\ UNCHANGED orphans
             /\ IF pc'[r] = "admitted" THEN UNCHANGED held ELSE Release(Transaction(r))
    BY <1>2, <2>2 DEF CheckLimits, Decide, Refuse, Admit, Release
  <2>3. CASE CommitJob(r) /\ Release(Transaction(r)) /\ UNCHANGED orphans
    BY <2>3 DEF CommitJob, Release
  <2> QED
    BY <1>2, <2>1, <2>2, <2>3 DEF RunTransaction
<1>3. ASSUME NEW r \in Requests, BreakTransaction(r) PROVE Claimed(s)'
  BY <1>3 DEF BreakTransaction, TransactionFails, CommitReplyLost, Release
<1>4. ASSUME NEW r \in Requests, RunRefund(r) PROVE Claimed(s)'
  BY <1>4 DEF RunRefund, RefundCredit, RefundFails, Release
<1>5. ASSUME UNCHANGED <<pc, refund, pool>> PROVE Claimed(s)'
  BY <1>5
<1>6. ASSUME NEW r \in Requests, RunStatement(r) \/ StatementFails(r) PROVE Claimed(s)'
  BY <1>5, <1>6
  DEF RunStatement, StatementFails, MarkFailed, MarkFails, FindJob, Find, UpdateJob,
      FinishCallback, LookupSecret, CallbackFails
<1>7. ASSUME NEW r \in Requests, Compute(r) PROVE Claimed(s)'
  BY <1>5, <1>7
  DEF Compute, ValidateUrls, DispatchJob, DispatchRejected, Compensate,
      AnswerDispatchFailure, TimerFires, RejectCallback, CallbackLost, FinishDelivery
<1>8. CASE Restart
  <2>1. ASSUME NEW cause, Die(cause) PROVE pc'[s] \notin InTransaction
    BY <2>1 DEF Die
  <2> QED
    BY <1>8, <2>1 DEF Restart, Crash, LookupSecretFails
<1>9. CASE PoolQuiescent \/ UNCHANGED poolVars
  BY <1>5, <1>9 DEF PoolQuiescent, Quiescent, poolVars, vars
<1> QED
  BY <1>1, <1>2, <1>3, <1>4, <1>6, <1>7, <1>8, <1>9 DEF PoolNext, Step

-----------------------------------------------------------------------------
\* The induction, on top of the invariant of the lifecycle.
THEOREM PoolInvariance == PoolSpec => [](IInv /\ PoolInv)
<1>1. PoolInit => PoolInv
  BY HeldInit, ClaimInit DEF PoolInv
<1>2. IInv /\ PoolInv /\ [PoolNext]_poolVars => PoolInv'
  BY HeldNext, ClaimNext DEF IInv, PoolInv
<1> QED
  BY <1>1, <1>2, PoolRefinesLifecycle, Invariance, PTL DEF PoolSpec

\* The pool is never overdrawn, and only the claims it knows are in use.
THEOREM PoolTypeCorrect == PoolSpec => []PoolTypeOK
<1>1. IInv /\ PoolInv => PoolTypeOK
  BY DEF IInv, PoolInv, HeldInv, PoolTypeOK
<1> QED
  BY <1>1, PoolInvariance, PTL

\* Whatever fails, a connection is in use only for work that goes on, and
\* whoever holds a row has the connection it needs to release it: no leak,
\* and no wait in a circle between rows and connections.
THEOREM ConnectionsStayOwned == PoolSpec => []ConnectionsAreOwned
<1>1. IInv /\ PoolInv => ConnectionsAreOwned
  BY DEF IInv, TypeOK, LockInv, PoolInv, ClaimInv, InTransaction, ConnectionsAreOwned
<1> QED
  BY <1>1, PoolInvariance, PTL
\* What PoolNeverWedges says, with the guards of the steps in place of ENABLED:
\* while a connection is in use, someone who has one waits for nothing; if a
\* row is held, its holder, and otherwise whoever waits for the row.
GoesOn(r) ==
    \/ Transaction(r) \in held /\ pc[r] \in InTransaction
    \/ Transaction(r) \in held /\ pc[r] = "validated" /\ lock[Owner[r]] = NoRequest
    \/ Refund(r) \in held /\ refund[r] = "pending" /\ lock[Owner[r]] = NoRequest

THEOREM SomebodyGoesOn == PoolSpec => [](held # {} => \E r \in Requests : GoesOn(r))
<1>1. IInv /\ PoolInv => (held # {} => \E r \in Requests : GoesOn(r))
  <2> SUFFICES ASSUME IInv, PoolInv, NEW c \in held
               PROVE  \E r \in Requests : GoesOn(r)
    OBVIOUS
  <2>1. PICK r \in Requests : c = Transaction(r) \/ c = Refund(r)
    BY DEF PoolInv, HeldInv, Claims
  <2>2. Owner[r] \in Users /\ lock[Owner[r]] \in Requests \cup {NoRequest}
    BY Constants DEF IInv, TypeOK
  <2>3. CASE lock[Owner[r]] = NoRequest
    BY <2>1, <2>3 DEF PoolInv, ClaimInv, GoesOn
  <2>4. CASE lock[Owner[r]] # NoRequest
    BY <2>2, <2>4 DEF IInv, LockInv, PoolInv, ClaimInv, GoesOn
  <2> QED
    BY <2>3, <2>4
<1> QED
  BY <1>1, PoolInvariance, PTL
\* When the gateway has come to rest, with faults or without, every connection
\* is back in the pool and no refund is left with PostgreSQL.
THEOREM ConnectionsComeBack == PoolSpec => [](AtRest => held = {} /\ orphans = {})
<1>1. IInv /\ PoolInv => (AtRest => held = {} /\ orphans = {})
  <2> SUFFICES ASSUME PoolInv, AtRest PROVE held = {} /\ orphans = {}
    OBVIOUS
  <2>1. \A r \in Requests : Transaction(r) \notin held /\ Refund(r) \notin held /\ r \notin orphans
    BY DEF PoolInv, ClaimInv, AtRest, InTransaction
  <2> QED
    BY <2>1 DEF PoolInv, HeldInv, Claims
<1> QED
  BY <1>1, PoolInvariance, PTL
=============================================================================
