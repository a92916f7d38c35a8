-------------------------- MODULE CreditLedgerProofs --------------------------
(***************************************************************************)
(* The safety of the ledger, for any users, jobs, limits and balances.     *)
(***************************************************************************)
EXTENDS CreditLedger, FiniteSetTheorems, TLAPS

\* A set grows or shrinks by one job: so does the part of its owner, and no
\* other part.
LEMMA CountAdded ==
    ASSUME NEW S, IsFiniteSet(S), NEW j, j \notin S, NEW u
    PROVE  Cardinality(OfUser(S \cup {j}, u)) =
             Cardinality(OfUser(S, u)) + (IF Owner[j] = u THEN 1 ELSE 0)
<1>1. IsFiniteSet(OfUser(S, u)) /\ Cardinality(OfUser(S, u)) \in Nat
  BY FS_Subset, FS_CardinalityType DEF OfUser
<1>2. CASE Owner[j] = u
  <2>1. OfUser(S \cup {j}, u) = OfUser(S, u) \cup {j}
    BY <1>2 DEF OfUser
  <2>2. j \notin OfUser(S, u)
    BY DEF OfUser
  <2> QED BY <1>1, <1>2, <2>1, <2>2, FS_AddElement
<1>3. CASE Owner[j] # u
  <2>1. OfUser(S \cup {j}, u) = OfUser(S, u)
    BY <1>3 DEF OfUser
  <2> QED BY <1>1, <1>3, <2>1
<1> QED BY <1>2, <1>3

LEMMA CountRemoved ==
    ASSUME NEW S, IsFiniteSet(S), NEW j \in S, NEW u
    PROVE  Cardinality(OfUser(S \ {j}, u)) =
             Cardinality(OfUser(S, u)) - (IF Owner[j] = u THEN 1 ELSE 0)
<1>1. /\ IsFiniteSet(S \ {j})
      /\ j \notin S \ {j}
      /\ (S \ {j}) \cup {j} = S
  BY FS_RemoveElement
<1>2. Cardinality(OfUser(S, u)) =
        Cardinality(OfUser(S \ {j}, u)) + (IF Owner[j] = u THEN 1 ELSE 0)
  BY <1>1, CountAdded
<1>3. Cardinality(OfUser(S \ {j}, u)) \in Nat
  BY <1>1, FS_Subset, FS_CardinalityType DEF OfUser
<1> QED BY <1>2, <1>3

-----------------------------------------------------------------------------
\* The jobs of a state are finitely many, which the counts need.
IInv ==
    /\ LedgerTypeOK
    /\ IsFiniteSet(issued)
    /\ LimitRespected
    /\ BalanceExact
    /\ DeliveredArePaid

LEMMA Counts ==
    ASSUME LedgerTypeOK, IsFiniteSet(issued)
    PROVE  /\ IsFiniteSet(open) /\ IsFiniteSet(charged)
           /\ \A u : /\ Cardinality(OfUser(open, u)) \in Nat
                     /\ Cardinality(OfUser(charged, u)) \in Nat
<1>1. IsFiniteSet(open) /\ IsFiniteSet(charged)
  BY FS_Subset DEF LedgerTypeOK
<1> QED BY <1>1, FS_Subset, FS_CardinalityType DEF OfUser

LEMMA InitIInv == ASSUME LedgerAssumption PROVE Init => IInv
<1> SUFFICES ASSUME Init PROVE IInv
  OBVIOUS
<1>1. LedgerTypeOK /\ IsFiniteSet(issued) /\ LimitRespected /\ DeliveredArePaid
  BY DEF Init, LedgerAssumption, LedgerTypeOK, LimitRespected, DeliveredArePaid
<1>2. BalanceExact
  <2> SUFFICES ASSUME NEW u \in Users
               PROVE  balance[u] + Cardinality(OfUser(charged, u)) = InitialBalance[u]
    BY DEF BalanceExact
  <2>1. OfUser(charged, u) = {}
    BY DEF Init, OfUser
  <2> QED BY <2>1, FS_EmptySet DEF Init, LedgerAssumption
<1> QED BY <1>1, <1>2 DEF IInv

\* A job is admitted: the guards leave room for one more job and one less
\* credit, and the new job is in none of the sets yet.
LEMMA AdmitIInv ==
    ASSUME LedgerAssumption, IInv, NEW j \in Jobs, Admit(j)
    PROVE  IInv'
<1> DEFINE u == Owner[j]
<1>0. /\ u \in Users
      /\ j \notin open /\ j \notin charged
      /\ IsFiniteSet(open) /\ IsFiniteSet(charged)
  BY Counts DEF LedgerAssumption, IInv, LedgerTypeOK, Admit
<1>1. LedgerTypeOK'
  BY <1>0 DEF IInv, LedgerTypeOK, Admit
<1>2. IsFiniteSet(issued')
  BY FS_AddElement DEF IInv, Admit
<1>3. LimitRespected'
  <2> SUFFICES ASSUME NEW v \in Users
               PROVE  Cardinality(OfUser(open', v)) <= Limit[v]
    BY DEF LimitRespected
  <2>1. Cardinality(OfUser(open', v)) =
          Cardinality(OfUser(open, v)) + (IF u = v THEN 1 ELSE 0)
    BY <1>0, CountAdded DEF Admit
  <2>2. Cardinality(OfUser(open, v)) \in Nat /\ Limit[v] \in Nat
    BY Counts DEF IInv, LedgerAssumption
  <2> QED BY <2>1, <2>2 DEF IInv, LimitRespected, Admit
<1>4. BalanceExact'
  <2> SUFFICES ASSUME NEW v \in Users
               PROVE  balance'[v] + Cardinality(OfUser(charged', v)) = InitialBalance[v]
    BY DEF BalanceExact
  <2>1. Cardinality(OfUser(charged', v)) =
          Cardinality(OfUser(charged, v)) + (IF u = v THEN 1 ELSE 0)
    BY <1>0, CountAdded DEF Admit
  <2>2. Cardinality(OfUser(charged, v)) \in Nat
    BY Counts DEF IInv
  <2>3. balance'[v] = balance[v] - (IF u = v THEN 1 ELSE 0) /\ balance[v] \in Nat
    BY DEF IInv, LedgerTypeOK, Admit
  <2> QED BY <2>1, <2>2, <2>3 DEF IInv, BalanceExact
<1>5. DeliveredArePaid'
  BY DEF IInv, DeliveredArePaid, Admit
<1> QED BY <1>1, <1>2, <1>3, <1>4, <1>5 DEF IInv

LEMMA RefundIInv ==
    ASSUME LedgerAssumption, IInv, NEW j \in Jobs, Refund(j)
    PROVE  IInv'
<1>0. Owner[j] \in Users /\ j \in charged /\ IsFiniteSet(charged)
  BY Counts DEF LedgerAssumption, IInv, Refund
<1>1. LedgerTypeOK' /\ IsFiniteSet(issued') /\ DeliveredArePaid'
  BY <1>0 DEF IInv, LedgerTypeOK, DeliveredArePaid, Refund
<1>2. LimitRespected'
  BY DEF IInv, LimitRespected, Refund
<1>3. BalanceExact'
  <2> SUFFICES ASSUME NEW v \in Users
               PROVE  balance'[v] + Cardinality(OfUser(charged', v)) = InitialBalance[v]
    BY DEF BalanceExact
  <2>1. Cardinality(OfUser(charged', v)) =
          Cardinality(OfUser(charged, v)) - (IF Owner[j] = v THEN 1 ELSE 0)
    BY <1>0, CountRemoved DEF Refund
  <2>2. Cardinality(OfUser(charged, v)) \in Nat
    BY Counts DEF IInv
  <2>3. balance'[v] = balance[v] + (IF Owner[j] = v THEN 1 ELSE 0) /\ balance[v] \in Nat
    BY DEF IInv, LedgerTypeOK, Refund
  <2> QED BY <2>1, <2>2, <2>3 DEF IInv, BalanceExact
<1> QED BY <1>1, <1>2, <1>3 DEF IInv

\* A job closes, delivered or not: open shrinks, the accounts stay.
LEMMA CloseIInv ==
    ASSUME LedgerAssumption, IInv, NEW j \in Jobs, Void(j) \/ Deliver(j)
    PROVE  IInv'
<1>0. /\ j \in open /\ IsFiniteSet(open)
      /\ open' = open \ {j}
      /\ UNCHANGED <<balance, issued, charged>>
      /\ delivered' \subseteq charged
  BY Counts DEF IInv, DeliveredArePaid, Void, Deliver
<1>1. LedgerTypeOK' /\ IsFiniteSet(issued') /\ DeliveredArePaid'
  BY <1>0 DEF IInv, LedgerTypeOK, DeliveredArePaid
<1>2. LimitRespected'
  <2> SUFFICES ASSUME NEW v \in Users
               PROVE  Cardinality(OfUser(open', v)) <= Limit[v]
    BY DEF LimitRespected
  <2>1. Cardinality(OfUser(open', v)) =
          Cardinality(OfUser(open, v)) - (IF Owner[j] = v THEN 1 ELSE 0)
    BY <1>0, CountRemoved
  <2>2. Cardinality(OfUser(open, v)) \in Nat /\ Limit[v] \in Nat
    BY Counts DEF IInv, LedgerAssumption
  <2> QED BY <2>1, <2>2 DEF IInv, LimitRespected
<1>3. BalanceExact'
  BY <1>0 DEF IInv, BalanceExact, OfUser
<1> QED BY <1>1, <1>2, <1>3 DEF IInv

LEMMA NextIInv == ASSUME LedgerAssumption PROVE IInv /\ [Next]_vars => IInv'
<1> SUFFICES ASSUME IInv, [Next]_vars PROVE IInv'
  OBVIOUS
<1>1. ASSUME NEW j \in Jobs, Admit(j) PROVE IInv'
  BY <1>1, AdmitIInv
<1>2. ASSUME NEW j \in Jobs, Refund(j) PROVE IInv'
  BY <1>2, RefundIInv
<1>3. ASSUME NEW j \in Jobs, Void(j) \/ Deliver(j) PROVE IInv'
  BY <1>3, CloseIInv
<1>4. CASE UNCHANGED vars
  BY <1>4 DEF vars, IInv, LedgerTypeOK, LimitRespected, BalanceExact,
              DeliveredArePaid, OfUser
<1> QED BY <1>1, <1>2, <1>3, <1>4 DEF Next

\* Whatever the users do, no plan is exceeded, every credit is accounted for
\* and every job that ran is paid: what createJobTransactional and
\* refundCredit promise.
THEOREM LedgerIsSafe ==
    ASSUME LedgerAssumption
    PROVE  Spec => [](LimitRespected /\ BalanceExact /\ DeliveredArePaid)
<1>1. Init => IInv
  BY InitIInv
<1>2. IInv /\ [Next]_vars => IInv'
  BY NextIInv
<1>3. IInv => LimitRespected /\ BalanceExact /\ DeliveredArePaid
  BY DEF IInv
<1> QED BY <1>1, <1>2, <1>3, PTL DEF Spec
=============================================================================
