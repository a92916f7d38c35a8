-------------------------- MODULE JobResultsProofs --------------------------
(***************************************************************************)
(* JobResults for any jobs, callers, bodies, keys and numbers of faults:   *)
(* what clients read and what webhooks carry was reported by a callback.   *)
(***************************************************************************)
EXTENDS JobResults, TLAPS

LEMMA Constants ==
    /\ NoKey \notin Keys /\ Unknown \notin Jobs /\ Secretless \subseteq Keys
    /\ MaxFaults \in Nat /\ MaxKeyChanges \in Nat
    /\ \A c \in Callbacks :
          /\ Body[c].status \in {"completed", "failed"}
          /\ Body[c].error \in {NoError, [code |-> Body[c].error.code,
                                         message |-> Body[c].error.message]}
BY ResultsAssumption DEF Final

LEMMA FaultsAreCounted ==
    ASSUME TypeOK, Fault
    PROVE  faults' \in 0..MaxFaults
<1>1. faults \in 0..MaxFaults /\ MaxFaults \in Nat
  BY Constants DEF TypeOK
<1> QED
  BY <1>1 DEF Fault

\* Every row has the six columns.
Rows(table) == table = [j \in Jobs |-> Columns(table[j])]

\* A callback that has found its row, and one that has started a webhook.
CallInv ==
    \A c \in Callbacks :
        /\ call[c] \in {"found", "ok"} => Known(c)
        /\ webhook[c] # "none" => call[c] = "ok"
        /\ webhook[c] # "sent" => signer[c] = NoKey

\* A URL outlives later outcomes, so it is accounted for whatever the status.
UrlReported(j) ==
    row[j].resultUrl \in {Body[b].resultUrl : b \in Named(j)} \cup {InitialRow[j].resultUrl}

\* Reported, of a given set of callbacks.
ReportedBy(named, j, v) ==
    \/ v = buildStatusResponse(InitialRow[j])
    \/ \E c \in named :
          /\ Body[c].status = v.status
          /\ \/ /\ v.status = "failed" /\ v.failedAt = c
                /\ {v.error.code, v.error.message} \cap Falsy = {}
                /\ Body[c].error.code \in {v.error.code} \cup Falsy
                /\ Body[c].error.message \in {v.error.message} \cup Falsy
             \/ /\ v.status = "completed" /\ v.completedAt = c
                /\ \/ v.resultUrl = Body[c].resultUrl
                   \/ /\ Body[c].resultUrl = Undefined
                      /\ v.resultUrl \in {Body[b].resultUrl : b \in named}
                                            \cup {InitialRow[j].resultUrl}

RowInv ==
    \A j \in Jobs : UrlReported(j) /\ ReportedBy(Named(j), j, buildStatusResponse(row[j]))

\* b is the last who wrote the row x.
Wrote(b, x) ==
    /\ x.status = Body[b].status
    /\ x.status = "completed" => Body[b].resultUrl \in {Undefined, x.resultUrl}
    /\ x.status = "failed" =>
          x.errorCode = Code(Body[b]) /\ x.errorMessage = Message(Body[b])

\* A webhook is not started before its row was written, by its own callback
\* or, since then, by another one.
WrittenInv ==
    \A c \in Callbacks : webhook[c] # "none" =>
        \E b \in Named(Body[c].jobId) : Wrote(b, row[Body[c].jobId])

ReadInv ==
    \A r \in Reads :
        /\ read[r] = "authenticated" => asked[r].token \in Keys
        /\ read[r] = "ok" =>
              /\ asked[r].job \in Jobs
              /\ ReportedBy(Named(asked[r].job), asked[r].job, view[r])
              /\ KeyUser[asked[r].token] = Owner[asked[r].job]

Views == view = [r \in Reads |-> view[r]]

IInv ==
    /\ TypeOK /\ Rows(row) /\ Views /\ CallInv /\ RowInv /\ WrittenInv /\ ReadInv
    /\ UnsignedOnlyWithoutKeys

LEMMA InitEstablishes == Init => IInv
<1> SUFFICES ASSUME Init PROVE IInv
  OBVIOUS
<1>1. TypeOK
  <2>1. \A r \in Reads : NotAsked \in [token : Keys \cup {NoKey}, job : Jobs \cup {Unknown}]
    BY DEF NotAsked
  <2> QED
    BY <2>1, ResultsAssumption DEF Init, TypeOK
<1>2. Rows(row) /\ Views
  BY ResultsAssumption DEF Init, Rows, Views
<1>3. CallInv /\ WrittenInv /\ ReadInv /\ UnsignedOnlyWithoutKeys
  BY DEF Init, CallInv, WrittenInv, ReadInv, UnsignedOnlyWithoutKeys
<1>4. RowInv
  BY DEF Init, RowInv, UrlReported, ReportedBy
<1> QED
  BY <1>1, <1>2, <1>3, <1>4 DEF IInv

-----------------------------------------------------------------------------
(***************************************************************************)
(* What a step does to the callbacks, and what it keeps.                   *)
(***************************************************************************)
\* Once a callback counts for its job, it always will.
CallsGrow ==
    \A c \in Callbacks :
        call[c] \notin {"idle", "not found"} => call'[c] \notin {"idle", "not found"}

LEMMA NamedGrows ==
    ASSUME CallsGrow, NEW j
    PROVE  Named(j) \subseteq Named(j)'
BY DEF CallsGrow, Named

LEMMA UrlsStayReported ==
    ASSUME CallsGrow, NEW j \in Jobs, UrlReported(j), row'[j].resultUrl = row[j].resultUrl
    PROVE  UrlReported(j)'
BY NamedGrows DEF UrlReported

LEMMA ReportsStay ==
    ASSUME NEW named, NEW more, named \subseteq more, NEW j, NEW v, ReportedBy(named, j, v)
    PROVE  ReportedBy(more, j, v)
BY DEF ReportedBy

\* Handle changes nothing for other callbacks.
LEMMA HandleIsLocal ==
    ASSUME TypeOK, NEW c \in Callbacks, NEW from, NEW to, NEW hook,
           Handle(c, from, to, hook)
    PROVE  /\ call[c] = from /\ call'[c] = to /\ webhook'[c] = hook /\ signer' = signer
           /\ \A b \in Callbacks \ {c} : call'[b] = call[b] /\ webhook'[b] = webhook[b]
BY DEF Handle, TypeOK

\* A row with the six columns in place of another.
LEMMA RowReplaced ==
    ASSUME Rows(row), NEW j \in Jobs, NEW y, row' = [row EXCEPT ![j] = y], y = Columns(y)
    PROVE  Rows(row')
<1>1. row' = [i \in Jobs |-> row'[i]]
  BY DEF Rows
<1>2. \A i \in Jobs : row'[i] = Columns(row'[i])
  BY DEF Rows
<1> QED
  BY <1>1, <1>2 DEF Rows

\* The row after a callback has written it.
LEMMA ResultIsWritten ==
    ASSUME Rows(row), NEW c \in Callbacks, Known(c), WriteResult(c)
    PROVE  LET j == Body[c].jobId
           IN  /\ Rows(row')
               /\ \A i \in Jobs \ {j} : row'[i] = row[i]
               /\ row'[j].status = Body[c].status
               /\ Body[c].status = "completed" =>
                     /\ row'[j].completedAt = c
                     /\ row'[j].errorCode = row[j].errorCode
                     /\ row'[j].errorMessage = row[j].errorMessage
                     /\ row'[j].resultUrl = IF Body[c].resultUrl = Undefined
                                            THEN row[j].resultUrl ELSE Body[c].resultUrl
               /\ Body[c].status = "failed" =>
                     /\ row'[j].failedAt = c
                     /\ row'[j].errorCode = Code(Body[c])
                     /\ row'[j].errorMessage = Message(Body[c])
                     /\ row'[j].resultUrl = row[j].resultUrl
<1> DEFINE j == Body[c].jobId
           x == row[j]
<1>1. j \in Jobs
  BY DEF Known
<1>2. CASE Body[c].status = "completed"
  <2> DEFINE y == [status |-> "completed",
                   resultUrl |-> IF Body[c].resultUrl = Undefined
                                 THEN x.resultUrl ELSE Body[c].resultUrl,
                   completedAt |-> c, errorCode |-> x.errorCode,
                   errorMessage |-> x.errorMessage, failedAt |-> x.failedAt]
  <2>1. row' = [row EXCEPT ![j] = y]
    BY <1>2 DEF WriteResult
  <2>2. row'[j] = y /\ \A i \in Jobs \ {j} : row'[i] = row[i]
    BY <1>1, <2>1 DEF Rows
  <2>3. y = Columns(y)
    BY DEF Columns
  <2>4. Rows(row')
    <3> HIDE DEF y
    <3> QED
      BY <1>1, <2>1, <2>3, RowReplaced
  <2> QED
    BY <1>2, <2>2, <2>4
<1>3. CASE Body[c].status = "failed"
  <2> DEFINE y == [status |-> "failed", resultUrl |-> x.resultUrl,
                   completedAt |-> x.completedAt, errorCode |-> Code(Body[c]),
                   errorMessage |-> Message(Body[c]), failedAt |-> c]
  <2>1. row' = [row EXCEPT ![j] = y]
    BY <1>3 DEF WriteResult
  <2>2. row'[j] = y /\ \A i \in Jobs \ {j} : row'[i] = row[i]
    BY <1>1, <2>1 DEF Rows
  <2>3. y = Columns(y)
    BY DEF Columns
  <2>4. Rows(row')
    <3> HIDE DEF y
    <3> QED
      BY <1>1, <2>1, <2>3, RowReplaced
  <2> QED
    BY <1>3, <2>2, <2>4
<1> QED
  BY <1>2, <1>3, Constants

\* When nothing is written, everything that was reported still is.
LEMMA UnwrittenRowsStay ==
    ASSUME RowInv, CallsGrow, row' = row
    PROVE  RowInv'
<1> SUFFICES ASSUME NEW j \in Jobs
             PROVE  /\ UrlReported(j)'
                    /\ ReportedBy(Named(j)', j, buildStatusResponse(row'[j]))
  BY DEF RowInv
<1>1. UrlReported(j)'
  BY UrlsStayReported DEF RowInv
<1>2. ReportedBy(Named(j), j, buildStatusResponse(row[j]))
  BY DEF RowInv
<1>3. ReportedBy(Named(j)', j, buildStatusResponse(row[j]))
  BY <1>2, NamedGrows, ReportsStay
<1> QED
  BY <1>1, <1>3

\* The row a callback writes shows what the callback reports.
LEMMA WriteReports ==
    ASSUME IInv, NEW c \in Callbacks, call[c] = "found", WriteResult(c),
           NEW named, c \in named, Named(Body[c].jobId) \subseteq named
    PROVE  LET j == Body[c].jobId
           IN  /\ row'[j].resultUrl \in {Body[b].resultUrl : b \in named}
                                           \cup {InitialRow[j].resultUrl}
               /\ ReportedBy(named, j, buildStatusResponse(row'[j]))
<1> DEFINE j == Body[c].jobId
           job == row'[j]
           v == buildStatusResponse(job)
<1> USE DEF IInv
<1>1. j \in Jobs /\ Known(c)
  BY DEF CallInv, Known
<1>2. /\ job.status = Body[c].status
      /\ Body[c].status = "completed" =>
            /\ job.completedAt = c
            /\ job.resultUrl = IF Body[c].resultUrl = Undefined
                               THEN row[j].resultUrl ELSE Body[c].resultUrl
      /\ Body[c].status = "failed" =>
            /\ job.failedAt = c
            /\ job.errorCode = Code(Body[c]) /\ job.errorMessage = Message(Body[c])
            /\ job.resultUrl = row[j].resultUrl
  BY <1>1, ResultIsWritten
<1> HIDE DEF job
<1>3. row[j].resultUrl \in {Body[b].resultUrl : b \in Named(j)} \cup {InitialRow[j].resultUrl}
  BY <1>1 DEF RowInv, UrlReported
<1>4. Body[c].status \in {"completed", "failed"}
  BY Constants
<1>5. job.resultUrl \in {Body[b].resultUrl : b \in named} \cup {InitialRow[j].resultUrl}
  BY <1>2, <1>3, <1>4
<1>6. CASE Body[c].status = "completed"
  <2>1. v = [status |-> "completed", resultUrl |-> job.resultUrl, completedAt |-> c]
    BY <1>2, <1>6 DEF buildStatusResponse
  <2>2. v.status = "completed" /\ v.resultUrl = job.resultUrl /\ v.completedAt = c
    BY <2>1
  <2> HIDE DEF v
  <2>3. v.resultUrl = Body[c].resultUrl \/ Body[c].resultUrl = Undefined
    BY <1>2, <1>6, <2>2
  <2>4. ReportedBy(named, j, v)
    BY <1>5, <1>6, <2>2, <2>3 DEF ReportedBy
  <2> QED
    BY <1>5, <2>4 DEF v, job
<1>7. CASE Body[c].status = "failed"
  <2>1. v = [status |-> "failed", failedAt |-> c,
             error |-> [code |-> job.errorCode, message |-> job.errorMessage]]
    BY <1>2, <1>7 DEF buildStatusResponse
  <2>2. /\ v.status = "failed" /\ v.failedAt = c
        /\ v.error.code = Code(Body[c]) /\ v.error.message = Message(Body[c])
    BY <1>2, <1>7, <2>1
  <2> HIDE DEF v
  <2>3. /\ {v.error.code, v.error.message} \cap Falsy = {}
        /\ Body[c].error.code \in {v.error.code} \cup Falsy
        /\ Body[c].error.message \in {v.error.message} \cup Falsy
    BY <2>2 DEF Code, Message, Falsy, Null, Undefined
  <2>4. ReportedBy(named, j, v)
    BY <1>7, <2>2, <2>3 DEF ReportedBy
  <2> QED
    BY <1>5, <2>4 DEF v, job
<1> QED
  BY <1>4, <1>6, <1>7

LEMMA WriteKeepsRows ==
    ASSUME IInv, CallsGrow, NEW c \in Callbacks,
           call[c] = "found", WriteResult(c), Fits(c)
    PROVE  /\ RowInv' /\ Rows(row)'
           /\ Wrote(c, row'[Body[c].jobId]) /\ c \in Named(Body[c].jobId)'
           /\ \A i \in Jobs : i # Body[c].jobId => row'[i] = row[i]
           /\ \A i \in Jobs :
                 /\ row'[i].status \in Statuses
                 /\ {row'[i].resultUrl, row'[i].errorCode, row'[i].errorMessage}
                       \cap {Undefined, TooLong} = {}
<1> DEFINE j == Body[c].jobId
<1> USE DEF IInv
<1>1. /\ j \in Jobs /\ Known(c)
      /\ c \in Named(j)' /\ Named(j) \subseteq Named(j)'
  BY NamedGrows DEF CallInv, Known, CallsGrow, Named
<1>2. /\ Rows(row') /\ \A i \in Jobs \ {j} : row'[i] = row[i]
      /\ row'[j].status = Body[c].status
      /\ Body[c].status = "completed" =>
            /\ row'[j].errorCode = row[j].errorCode
            /\ row'[j].errorMessage = row[j].errorMessage
            /\ row'[j].resultUrl = IF Body[c].resultUrl = Undefined
                                   THEN row[j].resultUrl ELSE Body[c].resultUrl
      /\ Body[c].status = "failed" =>
            /\ row'[j].errorCode = Code(Body[c])
            /\ row'[j].errorMessage = Message(Body[c])
            /\ row'[j].resultUrl = row[j].resultUrl
  BY <1>1, ResultIsWritten
<1>3. Body[c].status \in {"completed", "failed"}
  BY Constants
<1>4. RowInv'
  <2> SUFFICES ASSUME NEW i \in Jobs
               PROVE  /\ row'[i].resultUrl \in {Body[b].resultUrl : b \in Named(i)'}
                                                  \cup {InitialRow[i].resultUrl}
                      /\ ReportedBy(Named(i)', i, buildStatusResponse(row'[i]))
    BY DEF RowInv, UrlReported
  <2>1. CASE i = j
    BY <1>1, <2>1, WriteReports
  <2>2. CASE i # j
    <3>1. row'[i] = row[i] /\ Named(i) \subseteq Named(i)'
      BY <1>2, <2>2, NamedGrows
    <3>2. UrlReported(i) /\ ReportedBy(Named(i), i, buildStatusResponse(row[i]))
      BY DEF RowInv
    <3> QED
      BY <3>1, <3>2, ReportsStay DEF UrlReported
  <2> QED
    BY <2>1, <2>2
<1>5. Wrote(c, row'[j])
  BY <1>2, <1>3 DEF Wrote
<1>6. /\ row'[j].status \in Statuses
      /\ {row'[j].resultUrl, row'[j].errorCode, row'[j].errorMessage} \cap {Undefined, TooLong} = {}
  <2>1. {row[j].resultUrl, row[j].errorCode, row[j].errorMessage} \cap {Undefined, TooLong} = {}
    BY <1>1 DEF TypeOK
  <2>2. \/ {Code(Body[c]), Message(Body[c])} \cap {Undefined, TooLong} = {}
        \/ Body[c].status = "completed"
    BY <1>3 DEF Code, Message, Fits, Falsy, Undefined, TooLong
  <2>3. row'[j].resultUrl \notin {Undefined, TooLong}
    BY <1>2, <1>3, <2>1 DEF Fits
  <2>4. {row'[j].errorCode, row'[j].errorMessage} \cap {Undefined, TooLong} = {}
    BY <1>2, <1>3, <2>1, <2>2
  <2>5. row'[j].status \in Statuses
    BY <1>2, <1>3 DEF Statuses, Final
  <2> QED
    BY <2>3, <2>4, <2>5
<1> QED
  BY <1>1, <1>2, <1>4, <1>5, <1>6 DEF TypeOK

\* A webhook agrees with whoever wrote the row last.
LEMMA UnwrittenStays ==
    ASSUME WrittenInv, CallsGrow, row' = row,
           \A c \in Callbacks : webhook'[c] # "none" => webhook[c] # "none"
    PROVE  WrittenInv'
BY NamedGrows DEF WrittenInv

LEMMA WrittenAnew ==
    ASSUME IInv, CallsGrow, NEW c \in Callbacks,
           call[c] = "found", WriteResult(c), Fits(c),
           \A b \in Callbacks \ {c} : webhook'[b] # "none" => webhook[b] # "none"
    PROVE  WrittenInv'
<1> SUFFICES ASSUME NEW d \in Callbacks, webhook'[d] # "none"
             PROVE  \E b \in Named(Body[d].jobId)' : Wrote(b, row'[Body[d].jobId])
  BY DEF WrittenInv
<1>1. CASE Body[d].jobId = Body[c].jobId
  BY <1>1, WriteKeepsRows
<1>2. CASE Body[d].jobId # Body[c].jobId
  <2>1. webhook[d] # "none" /\ Body[d].jobId \in Jobs
    BY <1>2 DEF IInv, CallInv, Known
  <2>2. row'[Body[d].jobId] = row[Body[d].jobId]
    BY <1>2, <2>1, WriteKeepsRows
  <2> QED
    BY <2>1, <2>2, NamedGrows DEF IInv, WrittenInv
<1> QED
  BY <1>1, <1>2

\* What was read stays reported.
LEMMA OldReadsStay ==
    ASSUME ReadInv, CallsGrow, NEW r \in Reads,
           asked'[r] = asked[r], view'[r] = view[r],
           read'[r] \in {"authenticated", "ok"} => read'[r] = read[r]
    PROVE  /\ read'[r] = "authenticated" => asked'[r].token \in Keys
           /\ read'[r] = "ok" =>
                 /\ asked'[r].job \in Jobs
                 /\ ReportedBy(Named(asked[r].job)', asked'[r].job, view'[r])
                 /\ KeyUser[asked'[r].token] = Owner[asked'[r].job]
<1> DEFINE j == asked[r].job
           v == view[r]
<1>1. ASSUME read[r] = "ok" PROVE ReportedBy(Named(j)', j, v)
  <2>1. ReportedBy(Named(j), j, v) /\ Named(j) \subseteq Named(j)'
    BY <1>1, NamedGrows DEF ReadInv
  <2> QED
    BY <2>1, ReportsStay
<1> QED
  BY <1>1 DEF ReadInv

LEMMA ReadsStay ==
    ASSUME ReadInv, CallsGrow, UNCHANGED <<asked, view>>,
           \A r \in Reads : read'[r] \in {"authenticated", "ok"} => read'[r] = read[r]
    PROVE  ReadInv'
BY OldReadsStay DEF ReadInv

\* A key that was revoked stays so, and the reason of a signature with it.
LEMMA SignaturesStay ==
    ASSUME UnsignedOnlyWithoutKeys, UNCHANGED signer,
           \A k \in Keys : keys[k] = "revoked" => keys'[k] = "revoked",
           \A c \in Callbacks : webhook'[c] = "sent" => webhook[c] = "sent"
    PROVE  UnsignedOnlyWithoutKeys'
BY DEF UnsignedOnlyWithoutKeys

-----------------------------------------------------------------------------
(***************************************************************************)
(* The steps.                                                              *)
(***************************************************************************)
\* A step of a callback, but for the row it may write.
LEMMA HandleKeeps ==
    ASSUME IInv, NEW c \in Callbacks, NEW from \in {"idle", "found"},
           NEW to \in {"found", "ok", "not found", "error"}, NEW hook \in {"none", "lookup"},
           Handle(c, from, to, hook),
           to \in {"found", "ok"} => Known(c),
           from = "found" => to # "not found",
           hook = "lookup" => to = "ok",
           faults' \in 0..MaxFaults
    PROVE  /\ CallsGrow /\ CallInv' /\ UnsignedOnlyWithoutKeys'
           /\ \A b \in Callbacks \ {c} : webhook'[b] # "none" => webhook[b] # "none"
           /\ UNCHANGED <<keys, signer, read, asked, view, keyChanges>>
           /\ call' \in [Callbacks -> {"idle", "found", "ok", "not found", "error", "lost"}]
           /\ webhook' \in [Callbacks -> {"none", "lookup", "sent", "lost"}]
<1> USE DEF IInv
<1>1. /\ call[c] = from /\ call'[c] = to /\ webhook'[c] = hook /\ signer' = signer
      /\ \A b \in Callbacks \ {c} : call'[b] = call[b] /\ webhook'[b] = webhook[b]
  BY HandleIsLocal
<1>2. webhook[c] = "none" /\ signer[c] = NoKey
  BY <1>1 DEF CallInv
<1>3. UNCHANGED <<keys, signer, read, asked, view, keyChanges>>
  BY DEF Handle
<1>4. CallsGrow
  BY <1>1 DEF CallsGrow
<1>5. CallInv'
  BY <1>1, <1>2 DEF CallInv, Known
<1>6. UnsignedOnlyWithoutKeys'
  BY <1>1, <1>3, SignaturesStay
<1> QED
  BY <1>1, <1>3, <1>4, <1>5, <1>6 DEF Handle, TypeOK

\* ... when it writes none.
LEMMA UnwrittenPreserves ==
    ASSUME IInv, NEW c \in Callbacks, NEW from \in {"idle", "found"},
           NEW to \in {"found", "not found", "error"},
           Handle(c, from, to, "none"), row' = row,
           to = "found" => Known(c), from = "found" => to # "not found",
           faults' \in 0..MaxFaults
    PROVE  IInv'
<1>1. /\ CallsGrow /\ CallInv' /\ UnsignedOnlyWithoutKeys'
      /\ \A b \in Callbacks \ {c} : webhook'[b] # "none" => webhook[b] # "none"
      /\ UNCHANGED <<keys, signer, read, asked, view, keyChanges>>
      /\ call' \in [Callbacks -> {"idle", "found", "ok", "not found", "error", "lost"}]
      /\ webhook' \in [Callbacks -> {"none", "lookup", "sent", "lost"}]
  BY HandleKeeps
<1>2. webhook'[c] = "none"
  BY HandleIsLocal DEF IInv
<1>3. RowInv' /\ WrittenInv' /\ ReadInv'
  BY <1>1, <1>2, UnwrittenRowsStay, UnwrittenStays, ReadsStay DEF IInv
<1>4. TypeOK' /\ Rows(row)'
  BY <1>1 DEF IInv, TypeOK, Rows
<1> QED
  BY <1>1, <1>3, <1>4 DEF IInv, Views

\* ... and when it does.
LEMMA WrittenPreserves ==
    ASSUME IInv, NEW c \in Callbacks, NEW to \in {"ok", "error"},
           NEW hook \in {"none", "lookup"}, hook = "lookup" => to = "ok",
           Handle(c, "found", to, hook), Fits(c), WriteResult(c),
           faults' \in 0..MaxFaults
    PROVE  IInv'
<1>0. call[c] = "found" /\ Known(c)
  BY DEF Handle, IInv, CallInv
<1>1. /\ CallsGrow /\ CallInv' /\ UnsignedOnlyWithoutKeys'
      /\ \A b \in Callbacks \ {c} : webhook'[b] # "none" => webhook[b] # "none"
      /\ UNCHANGED <<keys, signer, read, asked, view, keyChanges>>
      /\ call' \in [Callbacks -> {"idle", "found", "ok", "not found", "error", "lost"}]
      /\ webhook' \in [Callbacks -> {"none", "lookup", "sent", "lost"}]
  BY <1>0, HandleKeeps
<1>2. /\ RowInv' /\ Rows(row)' /\ WrittenInv'
      /\ \A i \in Jobs :
            /\ row'[i].status \in Statuses
            /\ {row'[i].resultUrl, row'[i].errorCode, row'[i].errorMessage}
                       \cap {Undefined, TooLong} = {}
  BY <1>0, <1>1, WriteKeepsRows, WrittenAnew
<1>3. ReadInv'
  BY <1>1, ReadsStay DEF IInv
<1>4. TypeOK'
  BY <1>1, <1>2 DEF IInv, TypeOK
<1> QED
  BY <1>1, <1>2, <1>3, <1>4 DEF IInv, Views

LEMMA CallbackPreserves ==
    ASSUME IInv, NEW c \in Callbacks,
           FindJob(c) \/ UpdateJob(c) \/ UpdateRefused(c) \/ CallbackFails(c)
    PROVE  IInv'
<1>0. faults' \in 0..MaxFaults
  <2>1. faults' = faults \/ Fault
    BY DEF FindJob, UpdateJob, UpdateRefused, CallbackFails
  <2> QED
    BY <2>1, FaultsAreCounted DEF IInv, TypeOK
<1>1. CASE FindJob(c)
  BY <1>0, <1>1, UnwrittenPreserves DEF FindJob, FindsNothing
<1>2. CASE UpdateJob(c)
  BY <1>0, <1>2, WrittenPreserves DEF UpdateJob
<1>3. CASE UpdateRefused(c)
  BY <1>0, <1>3, UnwrittenPreserves DEF UpdateRefused
<1>4. CASE CallbackFails(c)
  BY <1>0, <1>4, UnwrittenPreserves, WrittenPreserves DEF CallbackFails
<1> QED
  BY <1>1, <1>2, <1>3, <1>4

LEMMA LookupSecretPreserves ==
    ASSUME IInv, NEW c \in Callbacks, LookupSecret(c)
    PROVE  IInv'
<1> USE DEF IInv
<1>1. /\ webhook[c] = "lookup" /\ webhook'[c] = "sent"
      /\ \A b \in Callbacks \ {c} : webhook'[b] = webhook[b] /\ signer'[b] = signer[b]
      /\ UNCHANGED <<row, keys, call, read, asked, view, keyChanges, faults>>
  BY DEF LookupSecret, Sign, TypeOK
<1>2. signer[c] = NoKey
  BY <1>1 DEF CallInv
<1>3. CallsGrow
  BY <1>1 DEF CallsGrow
<1>4. TypeOK' /\ Rows(row)'
  <2>1. signer' \in [Callbacks -> Keys \cup {NoKey}]
    BY DEF LookupSecret, Sign, Eligible, TypeOK
  <2>2. webhook' \in [Callbacks -> {"none", "lookup", "sent", "lost"}]
    BY DEF LookupSecret, Sign, TypeOK
  <2> QED
    BY <1>1, <2>1, <2>2 DEF TypeOK, Rows
<1>5. CallInv'
  BY <1>1 DEF CallInv, Known
<1>6. RowInv' /\ WrittenInv' /\ ReadInv'
  BY <1>1, <1>3, UnwrittenRowsStay, UnwrittenStays, ReadsStay
<1>7. UnsignedOnlyWithoutKeys'
  <2> DEFINE own == {k \in Keys : KeyUser[k] = Owner[Body[c].jobId]}
  <2>1. \/ signer'[c] \in own \ Secretless
        \/ /\ signer'[c] = NoKey
           /\ own \cap Secretless # {} \/ \A k \in own : keys[k] = "revoked"
    <3>1. CASE Eligible(c) = {} /\ UNCHANGED signer
      BY <1>2, <3>1 DEF Eligible
    <3>2. ASSUME NEW k \in Eligible(c),
                 signer' = [signer EXCEPT ![c] = IF k \in Secretless THEN NoKey ELSE k]
          PROVE  k \in own /\ signer'[c] = IF k \in Secretless THEN NoKey ELSE k
      BY <3>2 DEF Eligible, TypeOK
    <3> QED
      BY <3>1, <3>2 DEF LookupSecret, Sign
  <2> QED
    BY <1>1, <2>1 DEF UnsignedOnlyWithoutKeys
<1> QED
  BY <1>1, <1>4, <1>5, <1>6, <1>7 DEF Views

\* A view is never taken for the absence of one.
LEMMA ViewsAreViews ==
    ASSUME NEW x, x.status \in Statuses
    PROVE  buildStatusResponse(x) # NoView
<1> DEFINE v == buildStatusResponse(x)
<1>1. v.status = x.status
  <2>1. CASE x.status = "completed"
    BY <2>1 DEF buildStatusResponse
  <2>2. CASE x.status = "failed"
    BY <2>2 DEF buildStatusResponse
  <2>3. CASE x.status \notin {"completed", "failed"}
    <3>1. v = [status |-> x.status]
      BY <2>3 DEF buildStatusResponse
    <3> QED
      BY <3>1
  <2> QED
    BY <2>1, <2>2, <2>3
<1>2. NoView.status = "undefined" /\ x.status # "undefined"
  BY DEF NoView, Undefined, Statuses, Final
<1> QED
  BY <1>1, <1>2

\* Whoever reads leaves alone what the callbacks do.
LEMMA AnswerKeeps ==
    ASSUME IInv, NEW r \in Reads, NEW from, NEW to, Answer(r, from, to)
    PROVE  /\ CallsGrow /\ CallInv' /\ RowInv' /\ WrittenInv' /\ UnsignedOnlyWithoutKeys'
           /\ Rows(row)' /\ UNCHANGED <<row, keys, call, webhook, signer, keyChanges>>
           /\ read[r] = from /\ read'[r] = to
           /\ \A s \in Reads \ {r} : read'[s] = read[s]
<1> USE DEF IInv
<1>1. UNCHANGED <<row, keys, call, webhook, signer, keyChanges>>
  BY DEF Answer
<1>2. CallsGrow /\ CallInv' /\ Rows(row)'
  BY <1>1 DEF CallsGrow, CallInv, Rows, Known
<1>3. RowInv' /\ WrittenInv'
  BY <1>1, <1>2, UnwrittenRowsStay, UnwrittenStays
<1>4. UnsignedOnlyWithoutKeys'
  BY <1>1, SignaturesStay
<1> QED
  BY <1>1, <1>2, <1>3, <1>4 DEF Answer, TypeOK

LEMMA AuthenticatePreserves ==
    ASSUME IInv, NEW r \in Reads, NEW token \in Keys \cup {NoKey},
           NEW job \in Jobs \cup {Unknown}, Authenticate(r, token, job)
    PROVE  IInv'
<1> USE DEF IInv
<1>1. PICK to \in {"authenticated", "unauthorized"} :
         /\ Answer(r, "idle", to)
         /\ \/ /\ to = "authenticated" /\ token \in Keys
               /\ asked' = [asked EXCEPT ![r] = [token |-> token, job |-> job]]
            \/ to = "unauthorized" /\ asked' = asked
  BY DEF Authenticate
<1>2. view' = view /\ faults' = faults
  BY DEF Authenticate
<1>3. /\ CallsGrow /\ CallInv' /\ RowInv' /\ WrittenInv' /\ UnsignedOnlyWithoutKeys'
      /\ Rows(row)' /\ UNCHANGED <<row, keys, call, webhook, signer, keyChanges>>
      /\ read[r] = "idle" /\ read'[r] = to
      /\ \A s \in Reads \ {r} : read'[s] = read[s]
  BY <1>1, AnswerKeeps
<1> DEFINE Asked == [token : Keys \cup {NoKey}, job : Jobs \cup {Unknown}]
           question == [token |-> token, job |-> job]
<1>4. /\ asked' \in [Reads -> Asked]
      /\ to = "authenticated" => asked'[r].token \in Keys
      /\ \A s \in Reads \ {r} : asked'[s] = asked[s]
  <2>1. question \in Asked /\ question.token = token
    OBVIOUS
  <2>2. asked \in [Reads -> Asked]
    BY DEF TypeOK
  <2> HIDE DEF Asked, question
  <2>3. CASE to = "authenticated" /\ token \in Keys /\ asked' = [asked EXCEPT ![r] = question]
    BY <2>1, <2>2, <2>3
  <2>4. CASE to = "unauthorized" /\ asked' = asked
    BY <2>2, <2>4
  <2> QED
    BY <1>1, <2>3, <2>4 DEF question
<1>5. TypeOK'
  <2>1. read' = [read EXCEPT ![r] = to]
    BY <1>1 DEF Answer
  <2>2. \A s \in Reads : view'[s] # NoView <=> read'[s] = "ok"
    BY <1>2, <1>3 DEF TypeOK
  <2>3. read' \in [Reads -> {"idle", "authenticated", "ok", "unauthorized",
                             "not found", "error", "lost"}]
    BY <2>1 DEF TypeOK
  <2> QED
    BY <1>2, <1>3, <1>4, <2>2, <2>3 DEF TypeOK
<1>6. ReadInv'
  <2> SUFFICES ASSUME NEW s \in Reads
               PROVE  /\ read'[s] = "authenticated" => asked'[s].token \in Keys
                      /\ read'[s] = "ok" =>
                            /\ asked'[s].job \in Jobs
                            /\ ReportedBy(Named(asked[s].job)', asked'[s].job, view'[s])
                            /\ KeyUser[asked'[s].token] = Owner[asked'[s].job]
    BY DEF ReadInv
  <2>1. CASE s = r
    BY <1>3, <1>4, <2>1
  <2>2. CASE s # r
    BY <1>2, <1>3, <1>4, <2>2, OldReadsStay
  <2> QED
    BY <2>1, <2>2
<1> QED
  BY <1>2, <1>3, <1>5, <1>6 DEF Views

LEMMA GetJobPreserves ==
    ASSUME IInv, NEW r \in Reads, GetJob(r)
    PROVE  IInv'
<1> DEFINE job == asked[r].job
           v == buildStatusResponse(row[job])
<1> USE DEF IInv
<1>1. PICK to \in {"ok", "not found", "error"} :
         /\ Answer(r, "authenticated", to)
         /\ \/ /\ to = "ok" /\ job \in Jobs /\ Owner[job] = KeyUser[asked[r].token]
               /\ view' = [view EXCEPT ![r] = v]
            \/ to # "ok" /\ view' = view
  BY DEF GetJob
<1>2. asked' = asked /\ faults' = faults
  BY DEF GetJob
<1>3. /\ CallsGrow /\ CallInv' /\ RowInv' /\ WrittenInv' /\ UnsignedOnlyWithoutKeys'
      /\ Rows(row)' /\ UNCHANGED <<row, keys, call, webhook, signer, keyChanges>>
      /\ read[r] = "authenticated" /\ read'[r] = to
      /\ \A s \in Reads \ {r} : read'[s] = read[s]
  BY <1>1, AnswerKeeps
<1>4. to = "ok" => v # NoView
  BY <1>1, ViewsAreViews DEF TypeOK
<1>5. /\ Views' /\ \A s \in Reads \ {r} : view'[s] = view[s]
      /\ to = "ok" => view'[r] = v
      /\ to # "ok" => view'[r] = view[r]
  <2> HIDE DEF v
  <2> QED
    BY <1>1 DEF Views
<1>6. ReadInv'
  <2> SUFFICES ASSUME NEW s \in Reads
               PROVE  /\ read'[s] = "authenticated" => asked'[s].token \in Keys
                      /\ read'[s] = "ok" =>
                            /\ asked'[s].job \in Jobs
                            /\ ReportedBy(Named(asked[s].job)', asked'[s].job, view'[s])
                            /\ KeyUser[asked'[s].token] = Owner[asked'[s].job]
    BY DEF ReadInv
  <2>1. CASE s = r /\ to = "ok"
    <3>1. job \in Jobs /\ Owner[job] = KeyUser[asked[r].token]
      BY <1>1, <2>1
    <3>2. ReportedBy(Named(job), job, v) /\ Named(job) = Named(job)'
      BY <1>2, <1>3, <3>1 DEF RowInv, Named
    <3> QED
      BY <1>2, <1>3, <1>5, <2>1, <3>1, <3>2
  <2>2. CASE s = r /\ to # "ok"
    BY <1>1, <1>3, <2>2
  <2>3. CASE s # r
    BY <1>2, <1>3, <1>5, <2>3, OldReadsStay
  <2> QED
    BY <2>1, <2>2, <2>3
<1>7. TypeOK'
  <2>1. read' \in [Reads -> {"idle", "authenticated", "ok", "unauthorized",
                             "not found", "error", "lost"}]
    BY <1>1 DEF Answer, TypeOK
  <2>2. \A s \in Reads : view'[s] # NoView <=> read'[s] = "ok"
    BY <1>3, <1>4, <1>5 DEF TypeOK
  <2> QED
    BY <1>2, <1>3, <2>1, <2>2 DEF TypeOK
<1> QED
  BY <1>3, <1>5, <1>6, <1>7

LEMMA ReadFailsPreserves ==
    ASSUME IInv, NEW r \in Reads, ReadFails(r)
    PROVE  IInv'
<1> USE DEF IInv
<1>1. PICK from \in {"idle", "authenticated"} : Answer(r, from, "error")
  BY DEF ReadFails
<1>2. /\ UNCHANGED <<asked, view>> /\ faults' \in 0..MaxFaults
  BY FaultsAreCounted DEF ReadFails
<1>3. /\ CallsGrow /\ CallInv' /\ RowInv' /\ WrittenInv' /\ UnsignedOnlyWithoutKeys'
      /\ Rows(row)' /\ UNCHANGED <<row, keys, call, webhook, signer, keyChanges>>
      /\ read[r] = from /\ read'[r] = "error"
      /\ \A s \in Reads \ {r} : read'[s] = read[s]
  BY <1>1, AnswerKeeps
<1>4. ReadInv'
  BY <1>2, <1>3, ReadsStay
<1>5. TypeOK'
  <2>1. read' \in [Reads -> {"idle", "authenticated", "ok", "unauthorized",
                             "not found", "error", "lost"}]
    BY <1>1 DEF Answer, TypeOK
  <2>2. \A s \in Reads : view'[s] # NoView <=> read'[s] = "ok"
    BY <1>2, <1>3 DEF TypeOK
  <2> QED
    BY <1>2, <1>3, <2>1, <2>2 DEF TypeOK
<1> QED
  BY <1>2, <1>3, <1>4, <1>5 DEF Views

LEMMA ChangeKeyPreserves ==
    ASSUME IInv, NEW k \in Keys, NEW to \in {"revoked", "deleted"}, ChangeKey(k, to)
    PROVE  IInv'
<1> USE DEF IInv
<1>1. UNCHANGED <<row, call, webhook, signer, read, asked, view, faults>>
  BY DEF ChangeKey
<1>2. CallsGrow /\ CallInv' /\ Rows(row)' /\ Views'
  BY <1>1 DEF CallsGrow, CallInv, Rows, Known, Views
<1>3. RowInv' /\ WrittenInv' /\ ReadInv'
  BY <1>1, <1>2, UnwrittenRowsStay, UnwrittenStays, ReadsStay
<1>4. UnsignedOnlyWithoutKeys'
  <2>1. \A l \in Keys : keys[l] = "revoked" => keys'[l] = "revoked"
    BY DEF ChangeKey, TypeOK
  <2> QED
    BY <1>1, <2>1, SignaturesStay
<1>5. TypeOK'
  <2>1. keyChanges \in 0..MaxKeyChanges /\ MaxKeyChanges \in Nat
    BY Constants DEF TypeOK
  <2>2. keyChanges' \in 0..MaxKeyChanges
    BY <2>1 DEF ChangeKey
  <2>3. keys' \in [Keys -> {"active", "revoked", "deleted"}]
    BY DEF ChangeKey, TypeOK
  <2> QED
    BY <1>1, <2>2, <2>3 DEF TypeOK
<1> QED
  BY <1>2, <1>3, <1>4, <1>5

LEMMA DiePreserves == ASSUME IInv, Die PROVE IInv'
<1> USE DEF IInv
<1>1. /\ UNCHANGED <<row, keys, signer, asked, view, keyChanges>>
      /\ \A c \in Callbacks :
            /\ call'[c] = IF call[c] = "found" THEN "lost" ELSE call[c]
            /\ webhook'[c] = IF webhook[c] = "lookup" THEN "lost" ELSE webhook[c]
      /\ \A r \in Reads : read'[r] = IF read[r] = "authenticated" THEN "lost" ELSE read[r]
  BY DEF Die
<1>2. CallsGrow /\ CallInv' /\ Rows(row)' /\ Views'
  BY <1>1 DEF CallsGrow, CallInv, Rows, Known, Views
<1>3. RowInv' /\ WrittenInv' /\ ReadInv'
  BY <1>1, <1>2, UnwrittenRowsStay, UnwrittenStays, ReadsStay
<1>4. UnsignedOnlyWithoutKeys'
  BY <1>1, SignaturesStay
<1>5. TypeOK'
  <2>1. faults' \in 0..MaxFaults
    BY FaultsAreCounted DEF Die
  <2>2. \A r \in Reads : view'[r] # NoView <=> read'[r] = "ok"
    BY <1>1 DEF TypeOK
  <2> QED
    BY <1>1, <2>1, <2>2 DEF TypeOK, Die
<1> QED
  BY <1>2, <1>3, <1>4, <1>5

LEMMA NextPreserves == IInv /\ [Next]_vars => IInv'
<1> SUFFICES ASSUME IInv, [Next]_vars PROVE IInv'
  OBVIOUS
<1>1. CASE UNCHANGED vars
  <2>1. UNCHANGED <<row, keys, call, webhook, signer, read, asked, view, keyChanges, faults>>
    BY <1>1 DEF vars
  <2>2. CallsGrow
    BY <2>1 DEF CallsGrow
  <2>3. TypeOK' /\ Rows(row)' /\ Views' /\ CallInv'
    BY <2>1 DEF IInv, TypeOK, Rows, Views, CallInv, Known
  <2> QED
    BY <2>1, <2>2, <2>3, UnwrittenRowsStay, UnwrittenStays, ReadsStay, SignaturesStay DEF IInv
<1> QED
  BY <1>1, CallbackPreserves, LookupSecretPreserves, AuthenticatePreserves,
     GetJobPreserves, ReadFailsPreserves, ChangeKeyPreserves, DiePreserves
  DEF Next, LookupSecretFails, Quiescent

-----------------------------------------------------------------------------
\* Every reachable state accounts for its rows, views and webhooks.
THEOREM Invariance == Spec => []IInv
BY InitEstablishes, NextPreserves, PTL DEF Spec

\* TypeOK holds in every reachable state.
THEOREM ResultsTypeCorrect == Spec => []TypeOK
<1>1. IInv => TypeOK
  BY DEF IInv
<1> QED
  BY <1>1, Invariance, PTL

\* For any callers that repeat, overlap and contradict each other, a client
\* reads a status that one of them reported, with a key of the job's owner.
THEOREM ViewsAreAlwaysReported == Spec => []ViewsAreReported
<1>1. IInv => ViewsAreReported
  BY DEF IInv, ReadInv, ViewsAreReported, Reported, ReportedBy
<1> QED
  BY <1>1, Invariance, PTL

\* As long as a job's callbacks carry one body, its webhooks agree with it.
THEOREM DuplicatesStayHarmless == Spec => []DuplicatesAreHarmless
<1>1. IInv => DuplicatesAreHarmless
  <2> SUFFICES ASSUME IInv, NEW c \in Callbacks, webhook[c] # "none",
                      \A b \in Named(Body[c].jobId) : Body[b] = Body[c]
               PROVE  LET job == row[Body[c].jobId]
                          sent == Payload(c)
                      IN  /\ job.status = sent.status
                          /\ sent.status = "completed" =>
                                sent.resultUrl \in {job.resultUrl, Undefined}
                          /\ sent.status = "failed" =>
                                /\ sent.error.code \in {job.errorCode} \cup Falsy
                                /\ \/ Body[c].error = NoError
                                   \/ sent.error.message \in {job.errorMessage} \cup Falsy
    BY DEF DuplicatesAreHarmless
  <2> DEFINE job == row[Body[c].jobId]
             sent == Payload(c)
  <2>1. Wrote(c, job)
    BY DEF IInv, WrittenInv, Wrote
  <2>2. CASE Body[c].status = "completed"
    <3>1. sent = [status |-> "completed", resultUrl |-> Body[c].resultUrl]
      BY <2>2 DEF Payload
    <3>2. sent.status = "completed" /\ sent.resultUrl = Body[c].resultUrl
      BY <3>1
    <3> QED
      BY <2>1, <2>2, <3>2 DEF Wrote
  <2>3. CASE Body[c].status = "failed"
    <3> DEFINE own == [code |-> "PROCESSING_FAILED", message |-> "Processing failed"]
               told == IF Body[c].error = NoError THEN own ELSE Body[c].error
    <3>1. sent = [status |-> "failed", error |-> told]
      BY <2>3 DEF Payload
    <3>2. /\ sent.status = "failed"
          /\ Body[c].error = NoError => sent.error.code = "PROCESSING_FAILED"
          /\ Body[c].error # NoError => sent.error = Body[c].error
      <4>1. own.code = "PROCESSING_FAILED"
        OBVIOUS
      <4> HIDE DEF sent, own
      <4> QED
        BY <3>1, <4>1
    <3>3. job.errorCode = Code(Body[c]) /\ job.errorMessage = Message(Body[c])
      BY <2>1, <2>3 DEF Wrote
    <3> HIDE DEF sent, job
    <3>4. sent.error.code \in {job.errorCode} \cup Falsy
      <4>1. NoError.code = Undefined
        BY DEF NoError
      <4> QED
        BY <3>2, <3>3, <4>1 DEF Code, Falsy
    <3>5. Body[c].error # NoError => sent.error.message \in {job.errorMessage} \cup Falsy
      BY <3>2, <3>3 DEF Message
    <3>6. job.status = sent.status /\ sent.status # "completed"
      BY <2>1, <2>3, <3>2 DEF Wrote
    <3> QED
      BY <3>4, <3>5, <3>6 DEF sent, job
  <2> QED
    BY <2>2, <2>3, Constants
<1> QED
  BY <1>1, Invariance, PTL

\* Nobody's webhook is signed with another user's secret, and the empty
\* secret has a reason.
THEOREM SignaturesAreOwned == Spec => []UnsignedOnlyWithoutKeys
<1>1. IInv => UnsignedOnlyWithoutKeys
  BY DEF IInv
<1> QED
  BY <1>1, Invariance, PTL
=============================================================================
