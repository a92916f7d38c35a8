------------------------- MODULE IdempotencyProofs -------------------------
(***************************************************************************)
(* Idempotency for any keys, requests, bodies and numbers of faults.       *)
(* Everything rests on one fact about the table: a row is written once.    *)
(***************************************************************************)
EXTENDS Idempotency, FiniteSetTheorems, TLAPS

LEMMA Constants ==
    /\ NoKey \notin Keys /\ NoRequest \notin Requests
    /\ SeedRow \notin Requests /\ SeedRow # NoRequest
    /\ {0, 201, 202, 422} \cap Refusals = {}
    /\ MaxFaults \in Nat /\ MaxExpiries \in Nat
BY IdempotencyAssumption

LEMMA KeysOfRequests ==
    ASSUME keyOf \in KeyChoices, NEW r \in Requests
    PROVE  keyOf[r] \in Keys \cup {NoKey}
BY IdempotencyAssumption

-----------------------------------------------------------------------------
\* A request that looks its key up, or saves under it, has one, and what it
\* saves is a job, which only the handler can have created.
StageInv ==
    \A r \in Requests :
        /\ pc[r] \in {"lookup", "save"} => keyOf[r] \in Keys
        /\ pc[r] = "save" => r \in jobs
        /\ pc[r] \in {"idle", "lookup", "handler"} => r \notin jobs
        /\ r \in jobs => Complete(Body[r])

\* A row that can be recalled is there, and it is a request's unless the
\* seeder inserted an active one.
Recallable(k) == savedBy[k] # NoRequest /\ (savedBy[k] = SeedRow => k \in SeedKeys)

\* A row that a request has saved is about a job created under its key, and
\* what is active can be recalled.
TableInv ==
    /\ \A k \in Keys : savedBy[k] \in Requests => savedBy[k] \in jobs /\ keyOf[savedBy[k]] = k
    /\ \A k \in active : Recallable(k)

\* An answer still agrees with the row it was taken from.
Recalled(r) == keyOf[r] \in Keys /\ Recallable(keyOf[r])

Matched(r) == Hash(r) = SavedHash(keyOf[r])

FirstHand(r) == reply[r] = r /\ r \in jobs

Replayed(r) ==
    /\ Recalled(r) /\ Matched(r)
    /\ reply[r] = savedBy[keyOf[r]] /\ code[r] = SavedStatus(keyOf[r])

Faithful(r) ==
    /\ code[r] = 202 => FirstHand(r) \/ Replayed(r)
    /\ code[r] = 201 => Replayed(r)
    /\ code[r] = 422 => Recalled(r) /\ ~Matched(r)

ReplyInv == \A r \in Requests : Faithful(r)

SafeInv == TypeOK /\ StageInv /\ TableInv /\ ReplyInv

LEMMA SafeInit == Init => SafeInv
<1> SUFFICES ASSUME Init PROVE SafeInv
  OBVIOUS
<1>1. TypeOK
  BY IdempotencyAssumption DEF Init, TypeOK
<1> QED
  BY <1>1, Constants, IdempotencyAssumption
  DEF Init, SafeInv, StageInv, TableInv, Recallable, ReplyInv, Faithful

\* What no step undoes: keys are chosen once, jobs are not taken back, and a
\* row is neither replaced nor removed.
Kept ==
    /\ UNCHANGED <<keyOf, overlap>>
    /\ jobs \subseteq jobs'
    /\ \A k \in Keys : savedBy[k] # NoRequest => savedBy'[k] = savedBy[k]

LEMMA NextKeeps == ASSUME TypeOK, [Next]_vars PROVE Kept
<1> USE DEF Kept, calm
<1>1. ASSUME NEW r \in Requests, Save(r) PROVE Kept
  BY <1>1 DEF Save, TableRefuses, TypeOK
<1>2. ASSUME NEW r \in Requests,
             \/ Arrive(r) \/ FindExisting(r) \/ FindExistingFails(r)
             \/ HandlerAccepts(r) \/ HandlerRefuses(r) \/ HandlerBreaks(r)
             \/ SaveFails(r)
      PROVE  Kept
  BY <1>2 DEF Arrive, FindExisting, FindExistingFails, HandlerAccepts, HandlerRefuses,
              HandlerBreaks, SaveFails, Fault
<1>3. ASSUME NEW k \in Keys, Expire(k) PROVE Kept
  BY <1>3 DEF Expire
<1>4. CASE FaultElsewhere \/ Crash \/ UNCHANGED vars
  BY <1>4 DEF FaultElsewhere, Crash, Fault, vars
<1> QED
  BY <1>1, <1>2, <1>3, <1>4 DEF Next, Quiescent

-----------------------------------------------------------------------------
\* One step of one request.
Steps(r) ==
    \/ Arrive(r) \/ FindExisting(r) \/ FindExistingFails(r)
    \/ HandlerAccepts(r) \/ HandlerRefuses(r) \/ HandlerBreaks(r)
    \/ Save(r) \/ SaveFails(r)

\* It changes nothing of what the others have reached or were answered.
LEMMA StepsAreLocal ==
    ASSUME TypeOK, NEW r \in Requests, Steps(r), NEW s \in Requests, s # r
    PROVE  pc'[s] = pc[s] /\ code'[s] = code[s] /\ reply'[s] = reply[s]
BY DEF Steps, Arrive, FindExisting, Recall, FindExistingFails, HandlerAccepts,
       HandlerRefuses, HandlerBreaks, Save, SaveFails, Answer, Goto, TypeOK

\* What an answer gives r, and what it leaves alone.
LEMMA AnswerAnswers ==
    ASSUME TypeOK, NEW r \in Requests, NEW status, NEW job, Answer(r, status, job)
    PROVE  pc'[r] = "answered" /\ code'[r] = status /\ reply'[r] = job
BY DEF Answer, Goto, TypeOK

LEMMA StepsKeepTypes ==
    ASSUME SafeInv, NEW r \in Requests, Steps(r)
    PROVE  TypeOK'
<1> USE Constants DEF TypeOK, calm, Goto, Answer
<1> USE DEF SafeInv
<1>1. CASE Arrive(r)
  BY <1>1 DEF Arrive
<1>2. CASE FindExisting(r)
  <2>1. CASE Found(r)
    <3>1. keyOf[r] \in Keys /\ savedBy[keyOf[r]] \in Requests \cup {SeedRow}
      BY <1>2, <2>1 DEF FindExisting, Found, StageInv
    <3> QED
      BY <1>2, <2>1, <3>1 DEF FindExisting, Recall, SavedStatus
  <2> QED
    BY <1>2, <2>1 DEF FindExisting
<1>3. CASE FindExistingFails(r) \/ SaveFails(r)
  BY <1>3 DEF FindExistingFails, SaveFails, Fault
<1>4. CASE HandlerAccepts(r) \/ HandlerRefuses(r)
  BY <1>4 DEF HandlerAccepts, HandlerRefuses
<1>5. CASE HandlerBreaks(r)
  BY <1>5 DEF HandlerBreaks, Fault
<1>6. CASE Save(r)
  <2>1. keyOf[r] \in Keys
    BY <1>6 DEF Save, StageInv
  <2> QED
    BY <1>6, <2>1 DEF Save
<1> QED
  BY <1>1, <1>2, <1>3, <1>4, <1>5, <1>6 DEF Steps

LEMMA StepsKeepStages ==
    ASSUME SafeInv, NEW r \in Requests, Steps(r), Kept
    PROVE  StageInv'
<1> USE DEF SafeInv, Kept
<1>1. /\ pc'[r] \in {"lookup", "save"} => keyOf[r] \in Keys
      /\ pc'[r] = "save" => r \in jobs'
  BY Constants, KeysOfRequests
  DEF TypeOK, Steps, Arrive, FindExisting, Recall, FindExistingFails, HandlerAccepts,
      HandlerRefuses, HandlerBreaks, Save, SaveFails, Answer, Goto
<1>2. pc'[r] \in {"idle", "lookup", "handler"} => r \notin jobs'
  BY DEF StageInv, TypeOK, Steps, Arrive, FindExisting, Recall, FindExistingFails,
         HandlerAccepts, HandlerRefuses, HandlerBreaks, Save, SaveFails, Answer, Goto
<1>3. r \in jobs' => Complete(Body[r])
  BY DEF StageInv, Steps, Arrive, FindExisting, FindExistingFails, HandlerAccepts,
         HandlerRefuses, HandlerBreaks, Save, SaveFails
<1>4. \A s \in Requests \ {r} : pc'[s] = pc[s] /\ (s \in jobs' <=> s \in jobs)
  BY StepsAreLocal
  DEF Steps, Arrive, FindExisting, FindExistingFails, HandlerAccepts, HandlerRefuses,
      HandlerBreaks, Save, SaveFails
<1> QED
  BY <1>1, <1>2, <1>3, <1>4 DEF StageInv

LEMMA StepsKeepTable ==
    ASSUME SafeInv, NEW r \in Requests, Steps(r), Kept
    PROVE  TableInv'
<1> USE DEF SafeInv, Kept
<1>1. CASE UNCHANGED <<savedBy, active>>
  BY <1>1 DEF TableInv, Recallable
<1>2. CASE /\ Save(r)
           /\ savedBy' = [savedBy EXCEPT ![keyOf[r]] = r]
           /\ active' = active \cup {keyOf[r]}
  <2>1. keyOf[r] \in Keys /\ r \in jobs
    BY <1>2 DEF Save, StageInv
  <2> QED
    BY <1>2, <2>1, Constants DEF TableInv, Recallable, TypeOK
<1> QED
  BY <1>1, <1>2
  DEF Steps, Arrive, FindExisting, FindExistingFails, HandlerAccepts,
      HandlerRefuses, HandlerBreaks, Save, SaveFails

\* What was answered before stays as true as it was.
LEMMA OldRepliesStay ==
    ASSUME SafeInv, Kept, NEW s \in Requests,
           code'[s] = code[s], reply'[s] = reply[s]
    PROVE  Faithful(s)'
<1> USE DEF SafeInv, Kept
<1>1. Recalled(s) => Recalled(s)' /\ savedBy'[keyOf'[s]] = savedBy[keyOf[s]]
  BY DEF Recalled, Recallable
<1>2. FirstHand(s) => FirstHand(s)'
  BY DEF FirstHand
<1>3. Recalled(s) => /\ Matched(s) <=> Matched(s)'
                     /\ SavedStatus(keyOf[s]) = SavedStatus(keyOf[s])'
  BY <1>1 DEF Matched, Hash, SavedHash, SavedStatus
<1>4. Replayed(s) => Replayed(s)'
  BY <1>1, <1>3 DEF Replayed
<1> QED
  BY <1>1, <1>2, <1>3, <1>4 DEF ReplyInv, Faithful

LEMMA StepsKeepReplies ==
    ASSUME SafeInv, NEW r \in Requests, Steps(r), Kept
    PROVE  ReplyInv'
<1> USE DEF SafeInv
<1>1. ASSUME NEW s \in Requests \ {r} PROVE Faithful(s)'
  BY StepsAreLocal, OldRepliesStay
<1>2. Faithful(r)'
  <2>1. CASE UNCHANGED <<code, reply>>
    BY <2>1, OldRepliesStay
  <2>2. CASE \E status \in Refusals \cup {500} : Answer(r, status, NoRequest)
    BY <2>2, AnswerAnswers, Constants DEF Faithful
  <2>3. CASE Answer(r, 202, r) /\ r \in jobs'
    BY <2>3, AnswerAnswers DEF Faithful, FirstHand
  <2>4. CASE FindExisting(r) /\ Found(r)
    <3>1. Recalled(r) /\ keyOf' = keyOf /\ savedBy' = savedBy
      BY <2>4 DEF FindExisting, Found, StageInv, TableInv, Recalled, calm
    <3>2. Recalled(r)' /\ (Matched(r)' <=> Matched(r))
          /\ SavedStatus(keyOf[r])' = SavedStatus(keyOf[r])
      BY <3>1 DEF Recalled, Recallable, Matched, Hash, SavedHash, SavedStatus
    <3>3. CASE Matched(r)
      <4>1. code'[r] = SavedStatus(keyOf[r]) /\ reply'[r] = savedBy[keyOf[r]]
        BY <2>4, <3>3, AnswerAnswers DEF FindExisting, Recall, Matched
      <4>2. Replayed(r)' /\ code'[r] # 422
        BY <3>1, <3>2, <3>3, <4>1 DEF Replayed, SavedStatus
      <4> QED
        BY <4>2 DEF Faithful
    <3>4. CASE ~Matched(r)
      <4>1. code'[r] = 422
        BY <2>4, <3>4, AnswerAnswers DEF FindExisting, Recall, Matched
      <4> QED
        BY <3>2, <3>4, <4>1 DEF Faithful
    <3> QED
      BY <3>3, <3>4
  <2> QED
    BY <2>1, <2>2, <2>3, <2>4
    DEF Steps, Arrive, FindExisting, FindExistingFails, HandlerAccepts, HandlerRefuses,
        HandlerBreaks, Save, SaveFails, StageInv
<1> QED
  BY <1>1, <1>2 DEF ReplyInv

\* Steps of the environment.
LEMMA OthersKeep ==
    ASSUME SafeInv, Kept,
           \/ \E k \in Keys : Expire(k)
           \/ FaultElsewhere \/ Crash \/ UNCHANGED vars
    PROVE  SafeInv'
<1> USE DEF SafeInv
<1>1. UNCHANGED <<savedBy, code, reply>> /\ active' \subseteq active
  BY DEF Expire, FaultElsewhere, Crash, vars
<1>2. \A r \in Requests : pc'[r] = pc[r] \/ pc'[r] = "lost"
  BY DEF Expire, FaultElsewhere, Crash, vars, TypeOK
<1>3. TypeOK'
  BY Constants DEF TypeOK, Expire, FaultElsewhere, Crash, Fault, vars, calm
<1>4. StageInv'
  <2>1. CASE Crash
    BY <2>1 DEF Crash, InFlight, Kept, StageInv, TypeOK
  <2>2. CASE UNCHANGED jobs
    BY <1>2, <2>2 DEF Kept, StageInv
  <2> QED
    BY <2>1, <2>2 DEF Expire, FaultElsewhere, vars
<1>5. TableInv'
  BY <1>1 DEF Kept, TableInv, Recallable
<1>6. ReplyInv'
  BY <1>1, OldRepliesStay DEF ReplyInv
<1> QED
  BY <1>3, <1>4, <1>5, <1>6

LEMMA SafeNext == SafeInv /\ [Next]_vars => SafeInv'
<1> SUFFICES ASSUME SafeInv, [Next]_vars PROVE SafeInv'
  OBVIOUS
<1>1. Kept
  BY NextKeeps DEF SafeInv
<1>2. ASSUME NEW r \in Requests, Steps(r) PROVE SafeInv'
  BY <1>1, <1>2, StepsKeepTypes, StepsKeepStages, StepsKeepTable, StepsKeepReplies DEF SafeInv
<1> QED
  BY <1>1, <1>2, OthersKeep DEF Next, Steps, Quiescent

LEMMA SafeAlways == Spec => []SafeInv
BY SafeInit, SafeNext, PTL DEF Spec

\* TypeOK holds in every reachable state.
THEOREM IdempotencyTypeCorrect == Spec => []TypeOK
<1>1. SafeInv => TypeOK
  BY DEF SafeInv
<1> QED
  BY <1>1, SafeAlways, PTL

\* For any overlap, fault or expiry, a 202 names a job that was created under
\* the same key for a body with the same hash; a 201 is the seeder's, and goes
\* to the body the seeder has hashed only; and a 422 is founded.
THEOREM RepliesStayFaithful == Spec => []RepliesAreFaithful
<1>1. SafeInv => RepliesAreFaithful
  <2> SUFFICES ASSUME SafeInv, NEW r \in Requests
               PROVE  /\ code[r] = 202 =>
                            /\ reply[r] \in jobs
                            /\ reply[r] # r => SameKey(reply[r], r) /\ Hash(reply[r]) = Hash(r)
                      /\ code[r] = 201 =>
                            /\ reply[r] = SeedRow /\ SeedsKey(r)
                            /\ Hash(r) = hashRequestBody(SeedBody[keyOf[r]])
                      /\ code[r] = 422 =>
                            \/ \E s \in jobs : SameKey(s, r) /\ Hash(s) # Hash(r)
                            \/ /\ SeedsKey(r)
                               /\ Hash(r) # hashRequestBody(SeedBody[keyOf[r]])
    BY DEF RepliesAreFaithful
  <2> DEFINE saved == savedBy[keyOf[r]]
  <2>0. Faithful(r)
    BY DEF SafeInv, ReplyInv
  <2>1. ASSUME Recalled(r), saved # SeedRow
        PROVE  /\ saved \in jobs /\ SameKey(saved, r)
               /\ SavedHash(keyOf[r]) = Hash(saved) /\ SavedStatus(keyOf[r]) = 202
    BY <2>1, Constants
    DEF SafeInv, TypeOK, TableInv, Recalled, Recallable, SameKey, SavedHash, SavedStatus, Hash
  <2>2. ASSUME Recalled(r), saved = SeedRow
        PROVE  /\ SeedsKey(r) /\ SavedStatus(keyOf[r]) = 201
               /\ SavedHash(keyOf[r]) = hashRequestBody(SeedBody[keyOf[r]])
    BY <2>2 DEF Recalled, Recallable, SeedsKey, SavedHash, SavedStatus
  <2>3. CASE code[r] = 202
    BY <2>0, <2>1, <2>2, <2>3 DEF Faithful, FirstHand, Replayed, Matched
  <2>4. CASE code[r] = 201
    BY <2>0, <2>1, <2>2, <2>4 DEF Faithful, Replayed, Matched
  <2>5. CASE code[r] = 422
    BY <2>0, <2>1, <2>2, <2>5 DEF Faithful, Matched
  <2> QED
    BY <2>3, <2>4, <2>5
<1> QED
  BY <1>1, SafeAlways, PTL

\* Until a key expires, all replays under it name one job.
THEOREM ReplaysAlwaysAgree == Spec => []ReplaysAgree
<1>1. SafeInv => ReplaysAgree
  BY DEF SafeInv, ReplyInv, Faithful, FirstHand, Replayed, ReplaysAgree, SameKey
<1> QED
  BY <1>1, SafeAlways, PTL

\* A row never changes: the INSERT cannot replace one, and expiry keeps it.
THEOREM RowsStay ==
    Spec => [][\A k \in Keys : savedBy[k] # NoRequest => savedBy'[k] = savedBy[k]]_vars
<1>1. SafeInv /\ [Next]_vars => \A k \in Keys : savedBy[k] # NoRequest => savedBy'[k] = savedBy[k]
  BY NextKeeps DEF SafeInv, Kept
<1> QED
  BY <1>1, SafeAlways, PTL DEF Spec

-----------------------------------------------------------------------------
(***************************************************************************)
(* Clients that wait for their answers, while no key expires and, at the   *)
(* end, while nothing fails.                                               *)
(***************************************************************************)
Orderly == ~overlap /\ expiries = 0
Undisturbed == ~overlap /\ faults = 0 /\ expiries = 0

Plain == Keys \ (LongKeys \cup SeedExpired)

\* One request of a key at a time.
AloneInv ==
    \A r, s \in Requests : InFlight(r) /\ InFlight(s) /\ keyOf[r] = keyOf[s] => r = s

\* What is looked for and not found does not appear before it is saved.
AbsentInv ==
    \A r \in Requests : keyOf[r] \in Keys /\ pc[r] \in {"handler", "save"} => keyOf[r] \notin active

LiveInv == \A k \in Plain : savedBy[k] # NoRequest => k \in active

\* A job is saved by the request that created it, and then it is the row.
StoredInv ==
    \A r \in jobs : keyOf[r] \in Plain =>
        \/ pc[r] = "save"
        \/ pc[r] = "answered" /\ savedBy[keyOf[r]] = r

PatientInv == ~overlap => AloneInv /\ AbsentInv

OrderInv == PatientInv /\ (expiries = 0 => LiveInv)

\* So a row that is there is found, and a handler runs only before there is one.
MissInv ==
    /\ \A k \in Plain : savedBy[k] # NoRequest => k \in active
    /\ \A r \in Requests :
          keyOf[r] \in Plain /\ pc[r] \in {"handler", "save"} => savedBy[keyOf[r]] = NoRequest

LEMMA RowsAreFound ==
    ASSUME OrderInv, Orderly
    PROVE  AloneInv /\ AbsentInv /\ MissInv
BY DEF OrderInv, PatientInv, Orderly, AbsentInv, LiveInv, MissInv, Plain

SequentialInv == Undisturbed => StoredInv

LEMMA SequentialInit == Init => OrderInv /\ SequentialInv
BY DEF Init, OrderInv, PatientInv, SequentialInv, AloneInv, AbsentInv, LiveInv, StoredInv,
       InFlight, Plain

LEMMA OrderlyBefore ==
    ASSUME SafeInv, [Next]_vars, Orderly'
    PROVE  Orderly /\ UNCHANGED <<keyOf, overlap, expiries>>
BY Constants
DEF SafeInv, TypeOK, Orderly, Next, Arrive, FindExisting, FindExistingFails,
    HandlerAccepts, HandlerRefuses, HandlerBreaks, Save, SaveFails, Expire,
    FaultElsewhere, Crash, Fault, Quiescent, vars, calm

LEMMA UndisturbedBefore ==
    ASSUME SafeInv, [Next]_vars, Undisturbed'
    PROVE  Undisturbed /\ UNCHANGED calm
BY Constants
DEF SafeInv, TypeOK, Undisturbed, Next, Arrive, FindExisting, FindExistingFails,
    HandlerAccepts, HandlerRefuses, HandlerBreaks, Save, SaveFails, Expire,
    FaultElsewhere, Crash, Fault, Quiescent, vars, calm

LEMMA StepsKeepAlone ==
    ASSUME SafeInv, NEW r \in Requests, Steps(r), ~overlap, UNCHANGED keyOf, AloneInv
    PROVE  AloneInv'
<1>1. \A s \in Requests \ {r} : pc'[s] = pc[s]
  BY StepsAreLocal DEF SafeInv
<1>2. ASSUME NEW s \in Requests \ {r}, pc[s] \in {"lookup", "handler", "save"},
             pc'[r] \in {"lookup", "handler", "save"}, keyOf[r] = keyOf[s]
      PROVE  FALSE
  <2>1. ~Arrive(r)
    BY <1>2 DEF Arrive, InFlight
  <2>2. pc[r] \in {"lookup", "handler", "save"}
    BY <2>1 DEF Steps, FindExisting, FindExistingFails, HandlerAccepts, HandlerRefuses,
                HandlerBreaks, Save, SaveFails
  <2> QED
    BY <1>2, <2>2 DEF AloneInv, InFlight
<1> QED
  BY <1>1, <1>2 DEF AloneInv, InFlight

LEMMA StepsKeepAbsent ==
    ASSUME SafeInv, NEW r \in Requests, Steps(r), UNCHANGED keyOf, AloneInv, AbsentInv
    PROVE  AbsentInv'
<1> USE DEF SafeInv
<1>1. \A s \in Requests \ {r} : pc'[s] = pc[s]
  BY StepsAreLocal
<1>2. CASE Save(r) /\ active' = active \cup {keyOf[r]}
  <2>1. keyOf[r] \in Keys /\ pc[r] = "save"
    BY <1>2 DEF Save, StageInv
  <2>2. pc'[r] = "answered"
    BY <1>2, AnswerAnswers DEF Save
  <2>3. \A s \in Requests \ {r} : pc[s] \in {"handler", "save"} => keyOf[s] # keyOf[r]
    BY <2>1 DEF AloneInv, InFlight
  <2> QED
    BY <1>1, <1>2, <2>2, <2>3 DEF AbsentInv
<1>3. CASE UNCHANGED active
  <2>1. ASSUME keyOf[r] \in Keys, pc'[r] \in {"handler", "save"}
        PROVE  keyOf[r] \notin active
    <3>1. CASE pc[r] \in {"handler", "save"}
      BY <2>1, <3>1 DEF AbsentInv
    <3>2. CASE FindExisting(r) /\ ~Found(r)
      BY <3>2 DEF Found, TableInv, Recallable
    <3> QED
      BY <2>1, <3>1, <3>2, Constants
      DEF Steps, Arrive, FindExisting, Recall, FindExistingFails, HandlerAccepts,
          HandlerRefuses, HandlerBreaks, Save, SaveFails, Answer, Goto, TypeOK
  <2> QED
    BY <1>1, <1>3, <2>1 DEF AbsentInv
<1> QED
  BY <1>2, <1>3
  DEF Steps, Arrive, FindExisting, FindExistingFails, HandlerAccepts,
      HandlerRefuses, HandlerBreaks, Save, SaveFails

LEMMA StepsKeepLive ==
    ASSUME SafeInv, NEW r \in Requests, Steps(r), LiveInv
    PROVE  LiveInv'
BY DEF SafeInv, TypeOK, Steps, Arrive, FindExisting, FindExistingFails, HandlerAccepts,
       HandlerRefuses, HandlerBreaks, Save, SaveFails, LiveInv, Plain

LEMMA StepsKeepStored ==
    ASSUME SafeInv, NEW r \in Requests, Steps(r), Kept, Undisturbed, UNCHANGED calm,
           MissInv, StoredInv
    PROVE  StoredInv'
<1> USE DEF SafeInv, calm, Kept
<1>1. \A s \in Requests \ {r} : pc'[s] = pc[s]
  BY StepsAreLocal
<1>2. jobs' \subseteq jobs \cup {r} /\ jobs \subseteq Requests
  BY DEF TypeOK, Steps, Arrive, FindExisting, FindExistingFails, HandlerAccepts,
         HandlerRefuses, HandlerBreaks, Save, SaveFails
<1>3. ASSUME NEW s \in jobs, s # r, keyOf[s] \in Plain
      PROVE  pc'[s] = "save" \/ (pc'[s] = "answered" /\ savedBy'[keyOf[s]] = s)
  BY <1>1, <1>2, <1>3, Constants DEF StoredInv, Plain
<1>4. ASSUME r \in jobs', keyOf[r] \in Plain
      PROVE  pc'[r] = "save" \/ (pc'[r] = "answered" /\ savedBy'[keyOf[r]] = r)
  <2>1. keyOf[r] \in Keys /\ keyOf[r] # NoKey
    BY <1>4, Constants DEF Plain
  <2>2. CASE HandlerAccepts(r)
    BY <2>1, <2>2 DEF HandlerAccepts, Goto, TypeOK
  <2>3. CASE Save(r)
    <3>1. ~TableRefuses(keyOf[r])
      BY <1>4, <2>3 DEF TableRefuses, MissInv, Save, Plain
    <3>2. pc'[r] = "answered"
      BY <2>3, AnswerAnswers DEF Save
    <3> QED
      BY <2>1, <2>3, <3>1, <3>2 DEF Save, TypeOK
  <2>4. CASE ~HandlerAccepts(r) /\ ~Save(r)
    <3>1. r \in jobs /\ pc[r] \notin {"save", "answered"}
      BY <1>4, <2>4, Constants
      DEF Undisturbed, Steps, Arrive, FindExisting, FindExistingFails, HandlerRefuses,
          HandlerBreaks, SaveFails, Fault, TypeOK
    <3> QED
      BY <1>4, <3>1 DEF StoredInv
  <2> QED
    BY <2>2, <2>3, <2>4
<1> QED
  BY <1>2, <1>3, <1>4 DEF StoredInv

\* A restart only removes requests from those in flight, and expiry rows
\* from those that are active.
LEMMA OrderNext == SafeInv /\ OrderInv /\ [Next]_vars => OrderInv'
<1> SUFFICES ASSUME SafeInv, OrderInv, [Next]_vars PROVE OrderInv'
  OBVIOUS
<1>0. UNCHANGED <<keyOf, overlap>>
  BY NextKeeps DEF Kept, SafeInv
<1>1. ASSUME NEW r \in Requests, Steps(r) PROVE OrderInv'
  <2>1. PatientInv'
    BY <1>0, <1>1, StepsKeepAlone, StepsKeepAbsent DEF OrderInv, PatientInv
  <2>2. expiries' = expiries
    BY <1>1 DEF Steps, Arrive, FindExisting, FindExistingFails, HandlerAccepts,
                HandlerRefuses, HandlerBreaks, Save, SaveFails, Fault, calm
  <2> QED
    BY <1>1, <2>1, <2>2, StepsKeepLive DEF OrderInv
<1>2. ASSUME \/ FaultElsewhere \/ Crash \/ UNCHANGED vars
             \/ \E k \in Keys : Expire(k)
      PROVE  OrderInv'
  <2>1. /\ savedBy' = savedBy /\ active' \subseteq active
        /\ \A r \in Requests : pc'[r] = pc[r] \/ pc'[r] = "lost"
        /\ expiries' = 0 => expiries = 0 /\ active' = active
    BY <1>2 DEF FaultElsewhere, Crash, Fault, Expire, vars, calm, SafeInv, TypeOK
  <2> QED
    BY <1>0, <2>1 DEF OrderInv, PatientInv, AloneInv, AbsentInv, LiveInv, InFlight
<1> QED
  BY <1>1, <1>2 DEF Next, Steps, Quiescent

LEMMA SequentialNext ==
    SafeInv /\ OrderInv /\ SequentialInv /\ [Next]_vars => SequentialInv'
<1> SUFFICES ASSUME SafeInv, OrderInv, SequentialInv, [Next]_vars, Undisturbed'
             PROVE  StoredInv'
  BY DEF SequentialInv
<1>1. Undisturbed /\ UNCHANGED calm /\ Kept /\ MissInv /\ StoredInv
  BY UndisturbedBefore, NextKeeps, RowsAreFound
  DEF Orderly, Undisturbed, SequentialInv, SafeInv
<1>2. ASSUME NEW r \in Requests, Steps(r) PROVE StoredInv'
  BY <1>1, <1>2, StepsKeepStored
<1>3. CASE UNCHANGED vars
  BY <1>1, <1>3 DEF vars, calm, StoredInv
<1>4. ~FaultElsewhere /\ ~Crash /\ \A k \in Keys : ~Expire(k)
  BY <1>1, Constants DEF FaultElsewhere, Crash, Fault, Expire, calm, Undisturbed
<1> QED
  BY <1>2, <1>3, <1>4 DEF Next, Steps, Quiescent

LEMMA SequentialAlways == Spec => [](SafeInv /\ OrderInv /\ SequentialInv)
BY SafeInit, SafeNext, SequentialInit, OrderNext, SequentialNext, PTL DEF Spec

\* The comment on the interceptor, for clients that wait: one key, one job,
\* and its response is the one that is kept.
THEOREM SequentialClientsStaySafe == Spec => []SequentialClientsAreSafe
<1>1. SafeInv /\ OrderInv /\ SequentialInv => SequentialClientsAreSafe
  <2> SUFFICES ASSUME SafeInv, AloneInv, MissInv, StoredInv,
                      NEW r \in jobs, keyOf[r] \in Plain
               PROVE  /\ \A s \in jobs : SameKey(r, s) => r = s
                      /\ pc[r] = "answered" => savedBy[keyOf[r]] = r
    BY RowsAreFound DEF SequentialClientsAreSafe, Orderly, SequentialInv, Undisturbed, Plain
  <2>1. \A s \in jobs : s \in Requests /\ s # NoRequest
    BY Constants DEF SafeInv, TypeOK
  <2>2. ASSUME NEW s \in jobs, SameKey(r, s) PROVE r = s
    <3>1. keyOf[s] \in Plain /\ keyOf[r] = keyOf[s]
      BY <2>2 DEF SameKey
    <3>2. CASE pc[r] = "save" /\ pc[s] = "save"
      BY <2>1, <3>1, <3>2 DEF AloneInv, InFlight
    <3>3. CASE pc[r] # "save" \/ pc[s] # "save"
      BY <2>1, <3>1, <3>3 DEF StoredInv, MissInv
    <3> QED
      BY <3>2, <3>3
  <2> QED
    BY <2>2 DEF StoredInv
<1> QED
  BY <1>1, SequentialAlways, PTL

-----------------------------------------------------------------------------
(***************************************************************************)
(* Idempotency implements IdempotentService.  A request is served by the   *)
(* step that answers it: for one that creates a job under a key that is    *)
(* the INSERT, and until then the job does not count.  All other steps of  *)
(* a request are stutters.                                                 *)
(***************************************************************************)
LEMMA ServiceInit == Init => Service!Init
<1> SUFFICES ASSUME Init PROVE Service!Init
  OBVIOUS
<1>1. Settled = {} /\ Fate = [r \in Requests |-> "open"]
  BY DEF Init, Settled, Fate
<1>2. keyOf \in [Requests -> Keys \cup {NoKey}] /\ overlap \in BOOLEAN
  BY IdempotencyAssumption DEF Init
<1> QED
  BY <1>1, <1>2 DEF Init, Service!Init

\* A step within a request changes nothing that counts.
LEMMA StepsAreHidden ==
    ASSUME TypeOK, NEW r \in Requests, NEW step \in {"lookup", "handler", "save"},
           pc[r] \in {"idle", "lookup", "handler"}, Goto(r, step),
           r \notin jobs,
           jobs' = jobs \/ (step = "save" /\ jobs' = jobs \cup {r}),
           UNCHANGED <<savedBy, active, code, reply, calm>>
    PROVE  UNCHANGED Service!vars
<1>1. Fate' = Fate
  BY DEF Fate, Goto, TypeOK
<1>2. Settled' = Settled
  BY DEF Settled, Goto, TypeOK
<1> QED
  BY <1>1, <1>2 DEF Service!vars, Service!calm, calm

\* What an answer looks like from outside.
LEMMA AnswersServe ==
    ASSUME SafeInv, NEW r \in Requests, NEW status, NEW job, Answer(r, status, job),
           pc[r] \in {"lookup", "handler", "save"},
           jobs' \in {jobs, jobs \cup {r}}
    PROVE  /\ Fate[r] = "open" /\ Fate' = [Fate EXCEPT ![r] = "answered"]
           /\ Service!Answer(r, status, job)
           /\ Settled' = IF r \in jobs' THEN Settled \cup {r} ELSE Settled
<1> USE DEF SafeInv
<1>1. Fate[r] = "open" /\ Fate' = [Fate EXCEPT ![r] = "answered"]
  BY DEF Fate, Answer, Goto, TypeOK
<1>2. Settled' = IF r \in jobs' THEN Settled \cup {r} ELSE Settled
  BY DEF Settled, Answer, Goto, TypeOK
<1> QED
  BY <1>1, <1>2 DEF Service!Answer, Answer

\* A request that has missed the table may run, and with a complete body it
\* may create a job.
LEMMA MissesMayCreate ==
    ASSUME SafeInv, OrderInv, NEW r \in Requests, pc[r] \in {"handler", "save"}
    PROVE  Service!MayRun(r) /\ (Complete(Body[r]) => Service!MayCreate(r))
BY Constants, KeysOfRequests
DEF SafeInv, TypeOK, OrderInv, PatientInv, AbsentInv, Service!MayRun, Service!MayCreate

LEMMA LookupsRefine ==
    ASSUME SafeInv, NEW r \in Requests, FindExisting(r)
    PROVE  Service!Serve(r) \/ UNCHANGED Service!vars
<1> USE DEF SafeInv
<1>0. keyOf[r] \in Keys /\ pc[r] = "lookup" /\ r \notin jobs
  BY DEF FindExisting, StageInv
<1>1. CASE ~Found(r)
  BY <1>0, <1>1, StepsAreHidden DEF FindExisting
<1>2. CASE Found(r)
  <2>1. Service!Matches(r) <=> Hash(r) = SavedHash(keyOf[r])
    BY <1>0, <1>2, Constants DEF Service!Matches, Hash, SavedHash, Found, TypeOK
  <2>2. UNCHANGED <<savedBy, active, jobs, calm>> /\ keyOf[r] \in active
    BY <1>2 DEF FindExisting, Found
  <2>3. CASE Hash(r) = SavedHash(keyOf[r])
    <3>1. Answer(r, IF savedBy[keyOf[r]] = SeedRow THEN 201 ELSE 202, savedBy[keyOf[r]])
      BY <1>2, <2>3 DEF FindExisting, Recall, SavedStatus
    <3>2. Service!Replay(r) /\ Fate[r] = "open" /\ Fate' = [Fate EXCEPT ![r] = "answered"]
      BY <1>0, <2>1, <2>2, <2>3, <3>1, AnswersServe DEF Service!Replay, Service!calm, calm
    <3> QED
      BY <3>2 DEF Service!Serve
  <2>4. CASE Hash(r) # SavedHash(keyOf[r])
    <3>1. Answer(r, 422, NoRequest)
      BY <1>2, <2>4 DEF FindExisting, Recall
    <3>2. Service!Conflict(r) /\ Fate[r] = "open" /\ Fate' = [Fate EXCEPT ![r] = "answered"]
      BY <1>0, <2>1, <2>2, <2>4, <3>1, AnswersServe DEF Service!Conflict, Service!calm, calm
    <3> QED
      BY <3>2 DEF Service!Serve
  <2> QED
    BY <2>3, <2>4
<1> QED
  BY <1>1, <1>2

LEMMA FaultsCount == Fault => Service!Fault
BY DEF Fault, Service!Fault

LEMMA HandlersRefine ==
    ASSUME SafeInv, OrderInv, NEW r \in Requests,
           HandlerAccepts(r) \/ HandlerRefuses(r) \/ HandlerBreaks(r)
    PROVE  Service!Serve(r) \/ UNCHANGED Service!vars
<1> USE DEF SafeInv
<1>0. /\ pc[r] = "handler" /\ r \notin jobs /\ Service!MayRun(r)
      /\ Complete(Body[r]) => Service!MayCreate(r)
  BY MissesMayCreate DEF HandlerAccepts, HandlerRefuses, HandlerBreaks, StageInv
<1>1. CASE HandlerAccepts(r) /\ keyOf[r] # NoKey
  BY <1>0, <1>1, StepsAreHidden DEF HandlerAccepts
<1>2. CASE HandlerAccepts(r) /\ keyOf[r] = NoKey
  <2>1. /\ Answer(r, 202, r) /\ jobs' = jobs \cup {r} /\ UNCHANGED <<savedBy, active, calm>>
        /\ Service!MayCreate(r)
    BY <1>0, <1>2 DEF HandlerAccepts
  <2>2. Service!Keep(r)
    BY <1>2, <2>1, Constants DEF Service!Keep
  <2>3. /\ Service!Create(r)
        /\ Fate[r] = "open" /\ Fate' = [Fate EXCEPT ![r] = "answered"]
    BY <1>0, <2>1, <2>2, AnswersServe DEF Service!Create, Service!calm, calm
  <2> QED
    BY <2>3 DEF Service!Serve
<1>3. CASE HandlerRefuses(r)
  <2>1. PICK status \in Refusals :
          (Complete(Body[r]) \/ status = 400) /\ Answer(r, status, NoRequest)
    BY <1>3 DEF HandlerRefuses
  <2>2. UNCHANGED <<savedBy, active, jobs, calm>>
    BY <1>3 DEF HandlerRefuses
  <2>3. /\ Service!Refuse(r)
        /\ Fate[r] = "open" /\ Fate' = [Fate EXCEPT ![r] = "answered"]
    BY <1>0, <2>1, <2>2, AnswersServe DEF Service!Refuse, Service!calm, calm
  <2> QED
    BY <2>3 DEF Service!Serve
<1>4. CASE HandlerBreaks(r)
  <2>1. /\ Answer(r, 500, NoRequest) /\ jobs' \in {jobs, jobs \cup {r}}
        /\ UNCHANGED <<savedBy, active>> /\ Service!MayCreate(r)
        /\ Service!Fault \/ (faults > 0 /\ UNCHANGED Service!calm)
    BY <1>0, <1>4, FaultsCount DEF HandlerBreaks, Service!calm, calm
  <2>2. /\ Service!Break(r)
        /\ Fate[r] = "open" /\ Fate' = [Fate EXCEPT ![r] = "answered"]
    BY <1>0, <2>1, AnswersServe DEF Service!Break
  <2> QED
    BY <2>2 DEF Service!Serve
<1> QED
  BY <1>1, <1>2, <1>3, <1>4

LEMMA SavesRefine ==
    ASSUME SafeInv, OrderInv, NEW r \in Requests, Save(r) \/ SaveFails(r)
    PROVE  Service!Serve(r)
<1> USE DEF SafeInv
<1>0. /\ pc[r] = "save" /\ r \in jobs /\ keyOf[r] \in Keys /\ Service!MayCreate(r)
      /\ Answer(r, 202, r) /\ jobs' = jobs
  BY MissesMayCreate DEF Save, SaveFails, StageInv
<1>1. /\ Fate[r] = "open" /\ Fate' = [Fate EXCEPT ![r] = "answered"]
      /\ Service!Answer(r, 202, r) /\ Settled' = Settled \cup {r}
  BY <1>0, AnswersServe
<1>2. CASE Save(r)
  <2>1. Service!Keep(r)
    BY <1>0, <1>2 DEF Save, TableRefuses, Service!Keep
  <2>2. Service!Create(r)
    BY <1>0, <1>1, <1>2, <2>1 DEF Save, Service!Create, Service!calm, calm
  <2> QED
    BY <1>1, <2>2 DEF Service!Serve
<1>3. CASE SaveFails(r)
  <2>1. Service!CreateAndForget(r)
    BY <1>0, <1>1, <1>3, FaultsCount DEF SaveFails, Service!CreateAndForget
  <2> QED
    BY <1>1, <2>1 DEF Service!Serve
<1> QED
  BY <1>2, <1>3

\* A restart is where jobs begin to count whose INSERT will never come.
LEMMA CrashRefines ==
    ASSUME SafeInv, OrderInv, Crash
    PROVE  Service!Lose
<1> PICK orphans \in SUBSET {r \in Requests : pc[r] = "handler" /\ Complete(Body[r])} :
      jobs' = jobs \cup orphans
  BY DEF Crash
<1> DEFINE lost == {r \in Requests : InFlight(r)}
           created == {r \in Requests : pc[r] = "save"} \cup orphans
<1> USE DEF SafeInv
<1>1. lost \in SUBSET {r \in Requests : Fate[r] = "open"}
  BY DEF InFlight, Fate
<1>2. overlap \/ \A r, s \in lost : keyOf[r] = keyOf[s] => r = s
  BY DEF OrderInv, PatientInv, AloneInv
<1>3. Fate' = [r \in Requests |-> IF r \in lost THEN "lost" ELSE Fate[r]]
  BY DEF Crash, Fate, InFlight, TypeOK
<1>4. created \in SUBSET {r \in lost : Service!MayCreate(r)}
  BY MissesMayCreate DEF InFlight, StageInv
<1>5. Settled' = Settled \cup created
  BY DEF Crash, Settled, InFlight, StageInv, TypeOK
<1>6. Service!Fault /\ UNCHANGED <<savedBy, active, code, reply>>
  BY FaultsCount DEF Crash
<1> QED
  BY <1>1, <1>2, <1>3, <1>4, <1>5, <1>6 DEF Service!Lose

LEMMA ServiceNext ==
    SafeInv /\ OrderInv /\ [Next]_vars => [Service!Next]_Service!vars
<1> SUFFICES ASSUME SafeInv, OrderInv, [Next]_vars PROVE [Service!Next]_Service!vars
  OBVIOUS
<1>1. ASSUME NEW r \in Requests, Arrive(r) PROVE UNCHANGED Service!vars
  BY <1>1, StepsAreHidden DEF Arrive, SafeInv, StageInv
<1>2. ASSUME NEW r \in Requests, FindExistingFails(r) PROVE Service!Serve(r)
  <2>1. /\ pc[r] = "lookup" /\ r \notin jobs /\ Answer(r, 500, NoRequest)
        /\ Service!Fault /\ UNCHANGED <<savedBy, active, jobs>>
    BY <1>2, FaultsCount DEF FindExistingFails, SafeInv, StageInv
  <2>2. /\ Service!Break(r)
        /\ Fate[r] = "open" /\ Fate' = [Fate EXCEPT ![r] = "answered"]
    BY <2>1, AnswersServe DEF Service!Break
  <2> QED
    BY <2>2 DEF Service!Serve
<1>3. ASSUME NEW r \in Requests, Steps(r)
      PROVE  Service!Serve(r) \/ UNCHANGED Service!vars
  BY <1>1, <1>2, <1>3, LookupsRefine, HandlersRefine, SavesRefine DEF Steps
<1>4. ASSUME UNCHANGED <<pc, jobs>>
      PROVE  UNCHANGED <<Settled, Fate>>
  BY <1>4 DEF Settled, Fate
<1>5. ASSUME NEW k \in Keys, Expire(k) PROVE k \in active /\ Service!Expire(k)
  BY <1>4, <1>5 DEF Expire, Service!Expire
<1>6. CASE FaultElsewhere
  BY <1>4, <1>6, FaultsCount DEF FaultElsewhere, Service!FaultElsewhere, Service!Next
<1>7. CASE UNCHANGED vars
  BY <1>4, <1>7 DEF vars, calm, Service!vars, Service!calm
<1>8. CASE Crash
  BY <1>8, CrashRefines DEF Service!Next
<1> QED
  BY <1>3, <1>5, <1>6, <1>7, <1>8 DEF Next, Steps, Quiescent, Service!Next

\* The interceptor's three awaits are invisible to clients that wait for
\* their answers: each request is served as if in one step.
THEOREM RequestsAreServedAtOnce == Spec => ImplementsService
BY ServiceInit, ServiceNext, SequentialAlways, PTL DEF Spec, Service!Spec, ImplementsService

-----------------------------------------------------------------------------
(***************************************************************************)
(* What follows for clients that wait, read off the steps of the service:  *)
(* of the jobs told under a key one is the job the key repeats, and every  *)
(* other was forgotten in a fault.                                         *)
(***************************************************************************)
\* A set that gains one element at most, and only with a fault, stays within
\* the number of faults.
LEMMA FaultsPay ==
    ASSUME NEW S, IsFiniteSet(S), NEW n \in Nat, Cardinality(S) <= n,
           NEW T, NEW m \in Nat,
           \/ T \subseteq S /\ n <= m
           \/ \E r : T \subseteq S \cup {r} /\ m = n + 1
    PROVE  IsFiniteSet(T) /\ Cardinality(T) <= m
<1>1. Cardinality(S) \in Nat
  BY FS_CardinalityType
<1>2. CASE T \subseteq S /\ n <= m
  <2>1. IsFiniteSet(T) /\ Cardinality(T) <= Cardinality(S)
    BY <1>2, FS_Subset
  <2> QED
    BY <1>1, <1>2, <2>1, FS_CardinalityType
<1>3. ASSUME NEW r, T \subseteq S \cup {r}, m = n + 1
      PROVE  IsFiniteSet(T) /\ Cardinality(T) <= m
  <2>1. IsFiniteSet(S \cup {r}) /\ Cardinality(S \cup {r}) <= Cardinality(S) + 1
    BY <1>1, FS_AddElement
  <2>2. IsFiniteSet(T) /\ Cardinality(T) <= Cardinality(S \cup {r})
    BY <1>3, <2>1, FS_Subset
  <2> QED
    BY <1>1, <1>3, <2>1, <2>2, FS_CardinalityType
<1> QED
  BY <1>2, <1>3

\* The instance counts as this module does.
LEMMA SameCount == \A S : Service!Cardinality(S) = Cardinality(S)
BY DEF Cardinality, Service!Cardinality

Astray(k) == Service!Told(k) \ {savedBy[k]}

ToldInv ==
    Orderly => \A k \in Plain : IsFiniteSet(Astray(k)) /\ Cardinality(Astray(k)) <= faults

LEMMA ToldInit == Init => ToldInv
<1> SUFFICES ASSUME Init, NEW k \in Plain
             PROVE  IsFiniteSet(Astray(k)) /\ Cardinality(Astray(k)) <= faults
  BY DEF ToldInv
<1>1. Astray(k) = {} /\ faults = 0
  BY DEF Init, Astray, Service!Told
<1> QED
  BY <1>1, FS_EmptySet

\* Who was told of a job was told of a request.
LEMMA ToldAreRequests ==
    ASSUME SafeInv, NEW k
    PROVE  NoRequest \notin Service!Told(k)
BY Constants
DEF SafeInv, TypeOK, ReplyInv, Faithful, FirstHand, Replayed, Recalled, Recallable, Service!Told

\* An answer tells of one job at most.
LEMMA AnswersTell ==
    ASSUME TypeOK, NEW r \in Requests, NEW status, NEW job, Service!Answer(r, status, job),
           UNCHANGED keyOf, NEW k
    PROVE  Service!Told(k)' \subseteq
               Service!Told(k) \cup (IF status \in {201, 202} /\ keyOf[r] = k THEN {job} ELSE {})
BY DEF TypeOK, Service!Answer, Service!Told

LEMMA ServedTellFew ==
    ASSUME SafeInv, LiveInv, ~overlap, NEW r \in Requests, Service!Serve(r), NEW k \in Plain
    PROVE  \/ Astray(k)' \subseteq Astray(k) /\ faults <= faults'
           \/ Astray(k)' \subseteq Astray(k) \cup {r} /\ faults' = faults + 1
<1> USE DEF SafeInv
<1>0. /\ TypeOK /\ faults \in Nat /\ k \in Keys \ LongKeys
      /\ savedBy[k] # NoRequest => k \in active
  BY Constants DEF TypeOK, Plain, LiveInv
<1>1. CASE Service!Create(r)
  <2>1. /\ Service!Answer(r, 202, r) /\ UNCHANGED calm
        /\ keyOf[r] \notin active /\ Service!Keep(r)
    BY <1>1 DEF Service!Create, Service!MayCreate, Service!MayRun, Service!calm, calm
  <2>2. Service!Told(k)' \subseteq Service!Told(k) \cup (IF keyOf[r] = k THEN {r} ELSE {})
    BY <1>0, <2>1, AnswersTell DEF calm
  <2>3. CASE keyOf[r] = k
    <3>1. savedBy[k] = NoRequest /\ savedBy'[k] = r
      BY <1>0, <2>1, <2>3 DEF Service!Keep, TypeOK
    <3>2. NoRequest \notin Service!Told(k)
      BY ToldAreRequests
    <3> QED
      BY <1>0, <2>1, <2>2, <3>1, <3>2 DEF Astray, calm
  <2>4. CASE keyOf[r] # k
    <3>1. savedBy'[k] = savedBy[k]
      BY <1>0, <2>1, <2>4 DEF Service!Keep, TypeOK
    <3> QED
      BY <1>0, <2>1, <2>2, <2>4, <3>1 DEF Astray, calm
  <2> QED
    BY <2>3, <2>4
<1>2. CASE Service!CreateAndForget(r)
  <2>1. Service!Answer(r, 202, r) /\ Service!Fault /\ savedBy' = savedBy
    BY <1>2 DEF Service!CreateAndForget
  <2> QED
    BY <1>0, <2>1, AnswersTell DEF Astray, Service!Fault
<1>3. CASE Service!Replay(r)
  <2>1. /\ \E status : Service!Answer(r, status, savedBy[keyOf[r]])
        /\ savedBy' = savedBy /\ keyOf' = keyOf /\ faults' = faults
    BY <1>3 DEF Service!Replay, Service!calm
  <2> QED
    BY <1>0, <2>1, AnswersTell DEF Astray
<1>4. CASE Service!Conflict(r) \/ Service!Refuse(r) \/ Service!Break(r)
  <2>1. PICK status \in Refusals \cup {422, 500} : Service!Answer(r, status, NoRequest)
    BY <1>4 DEF Service!Conflict, Service!Refuse, Service!Break
  <2>2. savedBy' = savedBy /\ keyOf' = keyOf /\ faults <= faults'
    BY <1>0, <1>4
    DEF Service!Conflict, Service!Refuse, Service!Break, Service!Fault, Service!calm
  <2>3. status \notin {201, 202}
    BY Constants
  <2> QED
    BY <1>0, <2>1, <2>2, <2>3, AnswersTell DEF Astray
<1> QED
  BY <1>1, <1>2, <1>3, <1>4 DEF Service!Serve

LEMMA ToldNext == SafeInv /\ OrderInv /\ ToldInv /\ [Next]_vars => ToldInv'
<1> SUFFICES ASSUME SafeInv, OrderInv, ToldInv, [Next]_vars, Orderly', NEW k \in Plain
             PROVE  (IsFiniteSet(Astray(k)) /\ Cardinality(Astray(k)) <= faults)'
  BY DEF ToldInv, Plain
<1>1. Orderly /\ keyOf' = keyOf /\ LiveInv /\ TypeOK /\ TypeOK'
  BY OrderlyBefore, SafeNext DEF OrderInv, Orderly, SafeInv
<1>2. /\ faults \in Nat /\ faults' \in Nat /\ expiries = 0 /\ expiries' = 0 /\ ~overlap
      /\ IsFiniteSet(Astray(k)) /\ Cardinality(Astray(k)) <= faults
  BY <1>1, Constants DEF TypeOK, Orderly, ToldInv
<1>3. [Service!Next]_Service!vars
  BY ServiceNext
<1>4. \/ Astray(k)' \subseteq Astray(k) /\ faults <= faults'
      \/ \E r : Astray(k)' \subseteq Astray(k) \cup {r} /\ faults' = faults + 1
  <2>1. ASSUME NEW r \in Requests, Service!Serve(r)
        PROVE  \/ Astray(k)' \subseteq Astray(k) /\ faults <= faults'
               \/ Astray(k)' \subseteq Astray(k) \cup {r} /\ faults' = faults + 1
    BY <1>1, <1>2, <2>1, ServedTellFew
  <2>2. CASE Service!Lose \/ Service!FaultElsewhere \/ UNCHANGED Service!vars
    <3>1. UNCHANGED <<savedBy, code, reply, keyOf>> /\ faults <= faults'
      BY <1>1, <1>2, <2>2
      DEF Service!Lose, Service!FaultElsewhere, Service!Fault, Service!vars, Service!calm
    <3>2. Service!Told(k)' = Service!Told(k)
      BY <3>1 DEF Service!Told
    <3> QED
      BY <3>1, <3>2 DEF Astray
  <2>3. \A j : ~Service!Expire(j)
    BY <1>2 DEF Service!Expire
  <2> QED
    BY <1>3, <2>1, <2>2, <2>3 DEF Service!Next
<1> QED
  BY <1>2, <1>4, FaultsPay

\* A client that waits is told of one job under a key, and of at most one
\* more with each fault, however often it repeats the key.
THEOREM FewJobsAreEverTold == Spec => []FewJobsAreTold
<1>1. SafeInv /\ ToldInv => FewJobsAreTold
  <2> SUFFICES ASSUME SafeInv, ToldInv, Orderly, NEW k \in Plain
               PROVE  Cardinality(Service!Told(k)) <= 1 + faults
    BY SameCount DEF FewJobsAreTold, Service!FewJobsAreTold, Orderly, Plain
  <2> DEFINE first == savedBy[k]
  <2>1. faults \in Nat /\ IsFiniteSet(Astray(k)) /\ Cardinality(Astray(k)) <= faults
    BY Constants DEF SafeInv, TypeOK, ToldInv
  <2>2. Service!Told(k) \subseteq Astray(k) \cup {first}
    BY DEF Astray
  <2> HIDE DEF first
  <2> QED
    BY <2>1, <2>2, FaultsPay
<1> QED
  BY <1>1, ToldInit, ToldNext, SequentialAlways, PTL DEF Spec

=============================================================================
