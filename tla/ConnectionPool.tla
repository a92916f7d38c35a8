--------------------------- MODULE ConnectionPool ---------------------------
(***************************************************************************)
(* JobLifecycle with the pool of PostgreSQL connections its statements     *)
(* share.  TypeORM takes a connection for a transaction before BEGIN and   *)
(* gives it back after COMMIT or ROLLBACK; a statement outside of a        *)
(* transaction takes one for itself.  database.module.ts sets no size and  *)
(* no timeout, so the pool is pg's: a caller waits until a connection is   *)
(* free, for as long as it takes.                                          *)
(*                                                                         *)
(* Only a transaction, and a refund that waits for a row, keep a           *)
(* connection from one step to a later one.  Any other statement has it    *)
(* for one step, and needs only that one is free.  pg serves its callers   *)
(* in order; here any of them may be next.                                 *)
(***************************************************************************)
EXTENDS JobLifecycle

CONSTANT PoolSize   \* connections of the pool, 10 by default

ASSUME PoolAssumption == PoolSize \in Nat \ {0}

VARIABLES
    held,      \* what each connection in use is used for
    orphans    \* refunds PostgreSQL still holds for a process that has died

pool == <<held, orphans>>
poolVars == <<vars, pool>>

Transaction(r) == <<"transaction", r>>
Refund(r) == <<"refund", r>>
Claims == {Transaction(r) : r \in Requests} \cup {Refund(r) : r \in Requests}

Free == Cardinality(held) < PoolSize

Take(claim) == claim \notin held /\ Free /\ held' = held \cup {claim}
Release(claim) == held' = held \ {claim}

-----------------------------------------------------------------------------
PoolInit == Init /\ held = {} /\ orphans = {}

\* Mutant: each transaction opens a connection of its own.
BeginTransactionAnew(r) ==
    /\ pc[r] = "validated" /\ Transaction(r) \notin held
    /\ held' = held \cup {Transaction(r)}
    /\ UNCHANGED <<vars, orphans>>

\* dataSource.transaction(): a connection, then BEGIN.
BeginTransaction(r) ==
    /\ pc[r] = "validated"
    /\ Take(Transaction(r))
    /\ UNCHANGED <<vars, orphans>>

\* Mutant: the active jobs are counted by countActiveByUserId, which is a
\* statement of its own on a connection of its own.
RunTransactionCountOutside(r) ==
    /\ Transaction(r) \in held
    /\ \/ LockUserRow(r) /\ UNCHANGED held
       \/ CheckLimits(r) /\ Free
          /\ IF pc'[r] = "admitted" THEN UNCHANGED held ELSE Release(Transaction(r))
       \/ CommitJob(r) /\ Release(Transaction(r))
    /\ UNCHANGED orphans

\* Mutant: a refusal returns past the release of the connection.
RunTransactionLeaks(r) ==
    /\ Transaction(r) \in held
    /\ \/ LockUserRow(r) /\ UNCHANGED held
       \/ CheckLimits(r) /\ UNCHANGED held
       \/ CommitJob(r) /\ Release(Transaction(r))
    /\ UNCHANGED orphans

\* Every statement of the transaction goes through its manager, that is,
\* through the connection it has; a refusal ends it like COMMIT does.
RunTransaction(r) ==
    /\ Transaction(r) \in held
    /\ \/ LockUserRow(r) /\ UNCHANGED held
       \/ CheckLimits(r)
          /\ IF pc'[r] = "admitted" THEN UNCHANGED held ELSE Release(Transaction(r))
       \/ CommitJob(r) /\ Release(Transaction(r))
    /\ UNCHANGED orphans

\* The connection breaks, or cannot be opened; the pool opens another one.
BreakTransaction(r) ==
    /\ TransactionFails(r) \/ (Transaction(r) \in held /\ CommitReplyLost(r))
    /\ Release(Transaction(r))
    /\ UNCHANGED orphans

BeginRefund(r) ==
    /\ refund[r] = "pending" /\ r \notin orphans
    /\ Take(Refund(r))
    /\ UNCHANGED <<vars, orphans>>

\* UPDATE users is executed once the row is free; the statement cannot have
\* had an effect before it had a connection.
RunRefund(r) ==
    /\ \/ RefundCredit(r) /\ (Refund(r) \in held \/ r \in orphans)
       \/ RefundFails(r) /\ (refund'[r] = "failed" \/ Refund(r) \in held \/ r \in orphans)
    /\ Release(Refund(r))
    /\ orphans' = orphans \ {r}

\* Statements that wait for nothing but a connection.
RunStatement(r) ==
    /\ Free
    /\ MarkFailed(r) \/ FindJob(r) \/ UpdateJob(r) \/ LookupSecret(r)
    /\ UNCHANGED pool

StatementFails(r) ==
    /\ MarkFails(r) \/ CallbackFails(r)
    /\ UNCHANGED pool

\* Steps that do not touch the database.
Compute(r) ==
    /\ \/ ValidateUrls(r)
       \/ DispatchJob(r) \/ DispatchRejected(r) \/ AnswerDispatchFailure(r)
       \/ TimerFires(r) \/ RejectCallback(r) \/ CallbackLost(r) \/ FinishDelivery(r)
    /\ UNCHANGED pool

\* The pool of the dead process is gone; a refund that outlives it was sent
\* on one of its connections.
Restart ==
    /\ Crash \/ \E r \in Requests : LookupSecretFails(r)
    /\ orphans' = {r \in Requests : refund'[r] = "pending"}
    /\ \A r \in orphans' : Refund(r) \in held \/ r \in orphans
    /\ held' = {}

PoolQuiescent == Quiescent /\ UNCHANGED pool

Step(r) ==
    \/ BeginTransaction(r) \/ RunTransaction(r)
    \/ BeginRefund(r) \/ RunRefund(r)
    \/ RunStatement(r) \/ Compute(r)

PoolNext ==
    \/ \E r \in Requests : Step(r) \/ BreakTransaction(r) \/ StatementFails(r)
    \/ Restart
    \/ PoolQuiescent

PoolSpec == PoolInit /\ [][PoolNext]_poolVars

\* As in JobLifecycle, and each caller of the pool is served in the end if
\* connections stay free.  Nothing is assumed of how long one is held.
PoolFairness ==
    \A r \in Requests :
        /\ WF_poolVars(BeginTransaction(r) \/ RunTransaction(r))
        /\ WF_poolVars(Compute(r) /\ pc[r] # "idle" /\ faults' = faults)
        /\ WF_poolVars(BeginRefund(r) \/ (RunRefund(r) /\ faults' = faults))
        /\ WF_poolVars(RunStatement(r) /\ mark'[r] # mark[r])
        /\ WF_poolVars(RunStatement(r) /\ mark'[r] = mark[r])

FairPoolSpec == PoolSpec /\ PoolFairness

-----------------------------------------------------------------------------
(***************************************************************************)
(* Properties.                                                             *)
(***************************************************************************)
PoolTypeOK ==
    /\ TypeOK
    /\ held \in SUBSET Claims
    /\ Cardinality(held) <= PoolSize
    /\ orphans \in SUBSET Requests

\* No connection leaks, and none is shared: whatever fails, a connection is
\* in use only for a transaction or a refund that is running, and whoever
\* holds a row holds the connection it needs to go on and release it.
ConnectionsAreOwned ==
    /\ \A r \in Requests :
          /\ Transaction(r) \in held => pc[r] \in {"validated", "locked", "admitted"}
          /\ Refund(r) \in held => refund[r] = "pending"
    /\ \A u \in Users : lock[u] # NoRequest => Transaction(lock[u]) \in held

\* The pool cannot lock up: while a connection is in use, one of those who
\* have one can go on without waiting for another connection, although the
\* others may all wait for one row.
PoolNeverWedges ==
    held # {} => \E r \in Requests : ENABLED (RunTransaction(r) \/ RunRefund(r))

\* Waiting for connections postpones nothing for ever: the fairness that
\* JobLifecycle assumes of its requests holds with any pool of this size.
LifecycleStaysFair == Fairness
=============================================================================
