---------------------------- MODULE CreditLedger ----------------------------
(***************************************************************************)
(* What the gateway promises about money and capacity, with nothing of how *)
(* it keeps the promise.  README.md of the repository: requests of one     *)
(* user are serialised so that nobody is overcharged and nobody exceeds    *)
(* the concurrency limit of the plan.                                      *)
(*                                                                         *)
(* Every operation is atomic here.  JobLifecycle, where the same           *)
(* operations take several statements on several connections, is shown to  *)
(* implement this module.                                                  *)
(***************************************************************************)
EXTENDS Naturals, FiniteSets

CONSTANTS
    Users,           \* rows of "users"
    Jobs,            \* every job that may ever exist
    Owner,           \* the user each job belongs to
    Limit,           \* concurrent jobs allowed to each user
    InitialBalance,  \* credits of each user at the start
    InitialJobs,     \* jobs that exist at the start
    InitialOpen      \* those of them that are queued or processing

\* OfUser(S, u): the jobs of S that belong to u.
OfUser(S, u) == {j \in S : Owner[j] = u}

\* What an instance must satisfy; JobLifecycle proves it of its own constants.
LedgerAssumption ==
    /\ Owner \in [Jobs -> Users]
    /\ Limit \in [Users -> Nat \ {0}]
    /\ InitialBalance \in [Users -> Nat]
    /\ InitialJobs \subseteq Jobs
    /\ InitialOpen \subseteq InitialJobs
    /\ IsFiniteSet(InitialJobs)
    /\ \A u \in Users : Cardinality(OfUser(InitialOpen, u)) <= Limit[u]

VARIABLES
    balance,    \* credits left to each user
    issued,     \* jobs created so far
    open,       \* jobs that occupy a slot of their owner
    charged,    \* jobs whose credit was taken and not given back
    delivered   \* jobs the processing service has run to a verdict

vars == <<balance, issued, open, charged, delivered>>

LedgerTypeOK ==
    /\ balance \in [Users -> Nat]
    /\ issued \in SUBSET Jobs
    /\ open \in SUBSET issued
    /\ charged \in SUBSET issued
    /\ delivered \in SUBSET issued

-----------------------------------------------------------------------------
Init ==
    /\ balance = InitialBalance
    /\ issued = InitialJobs
    /\ open = InitialOpen
    /\ charged = {}
    /\ delivered = {}

\* A job is created: its owner has a free slot and a credit, and pays it.
Admit(j) ==
    /\ j \notin issued
    /\ Cardinality(OfUser(open, Owner[j])) < Limit[Owner[j]]
    /\ balance[Owner[j]] >= 1
    /\ balance' = [balance EXCEPT ![Owner[j]] = @ - 1]
    /\ issued' = issued \cup {j}
    /\ open' = open \cup {j}
    /\ charged' = charged \cup {j}
    /\ UNCHANGED delivered

\* The credit of a job that never ran is given back.
Refund(j) ==
    /\ j \in charged \ delivered
    /\ balance' = [balance EXCEPT ![Owner[j]] = @ + 1]
    /\ charged' = charged \ {j}
    /\ UNCHANGED <<issued, open, delivered>>

\* A job that could not be dispatched is closed; it gives its slot back.
Void(j) ==
    /\ j \in open \ delivered
    /\ open' = open \ {j}
    /\ UNCHANGED <<balance, issued, charged, delivered>>

\* A job that was paid for has run; it gives its slot back.
Deliver(j) ==
    /\ j \in open \cap charged
    /\ open' = open \ {j}
    /\ delivered' = delivered \cup {j}
    /\ UNCHANGED <<balance, issued, charged>>

Next == \E j \in Jobs : Admit(j) \/ Refund(j) \/ Void(j) \/ Deliver(j)

Spec == Init /\ [][Next]_vars

-----------------------------------------------------------------------------
(***************************************************************************)
(* Safety of the ledger.                                                   *)
(***************************************************************************)

\* No user ever has more open jobs than the plan allows.
LimitRespected ==
    \A u \in Users : Cardinality(OfUser(open, u)) <= Limit[u]

\* Credits are neither created nor destroyed: what a user has left plus what
\* is held by jobs still paid for is what the user started with.
BalanceExact ==
    \A u \in Users :
        balance[u] + Cardinality(OfUser(charged, u)) = InitialBalance[u]

\* Every job that ran is paid for, and stays so.
DeliveredArePaid == delivered \subseteq charged
=============================================================================
