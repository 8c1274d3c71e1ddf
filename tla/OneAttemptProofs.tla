-------------------------- MODULE OneAttemptProofs --------------------------
(***************************************************************************)
(* What holds as long as no two goroutines work on one request: not of     *)
(* every behaviour of the code, which lets two retries of a request run    *)
(* side by side, but of every behaviour in which that does not happen,     *)
(* with any number of requests worked on concurrently, and with crashes,   *)
(* failing statements, sweeps and retries one after the other.             *)
(*                                                                         *)
(* The inductive invariant, AloneInv, ties the locals of an attempt to the *)
(* tables: the status of the request to the step the goroutine is at, its  *)
(* copy of the hash to the row, its sets of sizes to the size rows, what   *)
(* it counts as produced to the output rows, and its heartbeat to the age  *)
(* the sweep sees.  With it every step of the service is a step of         *)
(* RequestLifecycle, or leaves what RequestLifecycle shows unchanged.      *)
(*                                                                         *)
(* Last, how work ends: WritingInv, of every behaviour, says who stands    *)
(* behind an output row without a path; EndInv, that a run which returns   *)
(* has ended its request.  The proofs about the answers need both.         *)
(***************************************************************************)
EXTENDS ImagePipelineProofs

\* One goroutine at a time works on a request.
OneAttempt ==
  \A h \in Handlers : \A g \in Handlers \ {h} :
    call[g].req = call[h].req => call[g].req = NULL

\* A goroutine on its way to Handle, and one between marking the request
\* processing and its terminal write.
Waiting == {"upload", "record", "acquire", "load", "mark"}
Working == JobSteps \ {"load", "mark", "cleanup"}

\* Nothing that g knows or works on has changed.
Untouched(g) ==
  /\ pc'[g] = pc[g] /\ call'[g] = call[g]
  /\ \A q \in Requests : call[g].req = q =>
       /\ row'[q] = row[q] /\ sizeStatus'[q] = sizeStatus[q]
       /\ output'[q] = output[q]

\* A step of one goroutine is about one request, which is its own before or
\* after the step, and touches no other goroutine's.
LEMMA OneMoves ==
  ASSUME StateOK, OneAttempt, OneAttempt', NEW h \in Handlers,
         \/ CreateRequest(h) \/ CheckRetryable(h) \/ Acquire(h) \/ Progress(h)
  PROVE  /\ \A g \in Handlers \ {h} : Untouched(g)
         /\ \E r \in Requests : /\ OthersKept(r)
                                /\ r \in {call[h].req, call'[h].req}
<1>null. NULL \notin Requests
  BY PipelineAssumption
<1>1. OthersStay(h) /\ \E r \in Requests : /\ OthersKept(r)
                                           /\ r \in {call[h].req, call'[h].req}
  <2>1. CASE CreateRequest(h)
    BY <2>1, CreateRequestDoes
  <2>2. CASE CheckRetryable(h)
    <3>1. OthersStay(h) /\ \A q \in Requests : OthersKept(q)
      BY <2>2, CheckRetryableDoes DEF OthersKept, tables, disks
    <3>2. call'[h].req \in Requests
      BY <2>2, CheckRetryableDoes
    <3>3. QED
      BY <3>1, <3>2
  <2>3. CASE PutUploadedFile(h) \/ RecordSourcePath(h)
    BY <2>3, PutUploadedFileDoes, RecordSourcePathDoes
  <2>4. CASE ResetRequest(h)
    BY <2>4, ResetRequestDoes
  <2>5. CASE Acquire(h) \/ Return(h)
    <3>1. OthersStay(h) /\ \A q \in Requests : OthersKept(q)
      BY <2>5, SlotStepsDo DEF OthersKept, tables, disks
    <3>2. call[h].req \in Requests
      BY <2>5, SlotStepsDo DEF StateOK, LocalsOK
    <3>3. QED
      BY <3>1, <3>2
  <2>6. CASE RunJob(h)
    <3>1. HandleStep(h)
      BY <2>6 DEF RunJob
    <3>2. call[h].req \in Requests
      BY <3>1, JobGoto DEF StateOK, LocalsOK, JobSteps
    <3>3. QED
      BY <3>1, <3>2, JobIsLocal DEF OthersStay, OthersKept
  <2>7. QED
    BY <2>1, <2>2, <2>3, <2>4, <2>5, <2>6 DEF Progress
<1>2. PICK r \in Requests : OthersKept(r) /\ r \in {call[h].req, call'[h].req}
  BY <1>1
<1>3. ASSUME NEW g \in Handlers \ {h}
      PROVE  Untouched(g)
  <2>1. pc'[g] = pc[g] /\ call'[g] = call[g]
    BY <1>1 DEF OthersStay
  <2>2. call[g].req # r
    BY <1>2, <2>1, <1>null DEF OneAttempt
  <2>3. QED
    BY <1>2, <2>1, <2>2 DEF Untouched, OthersKept
<1>4. QED
  BY <1>1, <1>2, <1>3

(***************************************************************************)
(* The status of a request and the step of its attempt.                    *)
(***************************************************************************)
StatusOf(h) ==
  LET mine == row[call[h].req] IN
  /\ pc[h] \in Waiting => mine.status = "pending"
  /\ pc[h] = "reset" => mine.status \in RetryableStatuses
  /\ pc[h] \in Working =>
       \/ mine.status = "processing"
       \/ mine.status = "failed" /\ mine.error = "interrupted"
  /\ pc[h] = "fail" => call[h].error # "none"
  /\ pc[h] = "cleanup" /\ Faultless => mine.status \in TerminalStatuses

\* The attempt itself moves the status as it moves.
LEMMA JobKeepsStatus ==
  ASSUME StateOK, NEW h \in Handlers, HandleStep(h), StatusOf(h)
  PROVE  StatusOf(h)'
<1>1. PICK r \in Requests : call[h].req = r
  BY JobGoto DEF StateOK, LocalsOK, JobSteps
<1>2. call'[h].req = r
  BY <1>1, JobIsLocal
<1>pc. pc'[h] \in JobSteps \cup {"return"}
  BY JobGoto DEF StateOK
<1>3. CASE LoadRequest(h)
  <2>1. pc[h] = "load" /\ row[r].status = "pending" /\ UNCHANGED row
    BY <1>1, <1>3, LoadRequestDoes DEF StatusOf, Waiting, LoadRequest, tables
  <2>2. pc'[h] \in {"mark", "return"}
    BY <1>3, LoadRequestDoes
  <2>3. QED
    BY <1>2, <2>1, <2>2 DEF StatusOf, Waiting, Working, JobSteps
<1>4. CASE MarkProcessing(h)
  <2>1. \/ pc'[h] = "return"
        \/ pc'[h] = "sizes" /\ row'[r].status = "processing"
    <3>1. \/ pc'[h] = "return"
          \/ /\ pc'[h] = "sizes"
             /\ row' = [row EXCEPT ![r].status = "processing",
                                   ![r].started = TRUE, ![r].beat = "fresh"]
      BY <1>1, <1>4, StepFacts DEF MarkProcessing
    <3>2. QED
      BY <3>1 DEF StateOK, TablesTypeOK, RequestRow
  <2>2. QED
    BY <1>2, <2>1 DEF StatusOf, Waiting, Working, JobSteps
<1>5. ASSUME pc[h] \in Working,
             \/ UNCHANGED row
             \/ row'[r].status = row[r].status /\ row'[r].error = row[r].error,
             \/ pc'[h] \in Working \cup {"return"}
             \/ pc'[h] = "cleanup" /\ ~Faultless',
             pc'[h] = "fail" => call'[h].error # "none"
      PROVE  StatusOf(h)'
  <2>1. \/ row[r].status = "processing"
        \/ row[r].status = "failed" /\ row[r].error = "interrupted"
    BY <1>1, <1>5 DEF StatusOf
  <2>2. \/ row'[r].status = "processing"
        \/ row'[r].status = "failed" /\ row'[r].error = "interrupted"
    BY <1>5, <2>1
  <2>3. /\ pc'[h] \notin Waiting /\ pc'[h] # "reset"
        /\ pc'[h] = "cleanup" => ~Faultless'
    BY <1>5 DEF Waiting, Working, JobSteps
  <2>4. QED
    BY <1>2, <1>5, <2>2, <2>3 DEF StatusOf
<1>6. CASE LoadSizes(h) \/ Inspect(h)
  <2>1. UNCHANGED row /\ pc[h] \in {"sizes", "inspect"}
    BY <1>6, LoadSizesDoes, InspectDoes DEF LoadSizes, Inspect, tables
  <2>2. /\ \/ pc'[h] \in {"inspect", "limits", "fail", "return"}
           \/ pc'[h] = "cleanup" /\ ~Faultless'
        /\ pc'[h] = "fail" => call'[h].error # "none"
    BY <1>6, LoadSizesDoes, InspectDoes
  <2>3. QED
    BY <1>5, <2>1, <2>2 DEF Working, JobSteps
<1>7. CASE MarkNextBad(h) \/ ProcessSizes(h)
  <2>1. UNCHANGED row /\ pc[h] \in {"limits", "errors"}
    BY <1>7, MarkNextBadDoes, ProcessSizesDoes
       DEF MarkNextBad, ProcessSizes, tables
  <2>2. /\ pc'[h] \in {"limits", "errors", "fail"}
        /\ pc'[h] = "fail" => call'[h].error # "none"
    BY <1>7, <2>1, MarkNextBadDoes, ProcessSizesDoes
  <2>3. QED
    BY <1>5, <2>1, <2>2 DEF Working, JobSteps
<1>8. CASE OutputHashFor(h)
  <2>1. /\ pc[h] = "errors" /\ pc'[h] \in {"persist", "fail"}
        /\ pc'[h] = "fail" => call'[h].error # "none"
    BY <1>8, OutputHashForDoes
  <2>2. \/ UNCHANGED row
        \/ row'[r].status = row[r].status /\ row'[r].error = row[r].error
    <3>1. ~MarkProcessing(h) /\ ~Finish(h) /\ ~Fail(h)
      BY <2>1, MarkProcessingDoes, OtherStepsDo
    <3>2. QED
      BY <1>1, <3>1, JobRowDoes
  <2>3. QED
    BY <1>5, <2>1, <2>2 DEF Working, JobSteps
<1>9. CASE LookupOutput(h) \/ MarkSizeCompleted(h)
  <2>1. /\ UNCHANGED row /\ pc[h] \in {"persist", "succeed"}
        /\ pc'[h] \in {"create", "succeed", "persist"}
    BY <1>9, LookupOutputDoes, MarkSizeCompletedDoes
       DEF LookupOutput, MarkSizeCompleted, tables
  <2>2. QED
    BY <1>5, <2>1 DEF Working, JobSteps
<1>10. CASE \/ CreateOutput(h) \/ PutOutput(h) \/ Rollback(h)
            \/ RecordStoragePath(h) \/ MarkSizeFailed(h)
  <2>1. UNCHANGED row
    BY <1>10 DEF CreateOutput, PutOutput, Rollback, RecordStoragePath,
                 MarkSizeFailed, tables
  <2>2. /\ pc[h] \in {"create", "put", "rollback", "path", "giveup"}
        /\ pc'[h] \in {"put", "giveup", "path", "rollback", "succeed",
                       "persist"}
    BY <1>10, OtherStepsDo
  <2>3. QED
    BY <1>5, <2>1, <2>2 DEF Working, JobSteps
<1>11. CASE Finish(h) \/ Fail(h)
  <2>1. pc'[h] \in {"cleanup", "return"}
    BY <1>11, OtherStepsDo
  <2>2. Faultless' => row'[r].status \in TerminalStatuses
    <3>1. ~(UNCHANGED spent) => ~Faultless'
      BY <1>11, StepFacts DEF Finish, Fail
    <3>2. CASE /\ Finish(h)
               /\ row' = [row EXCEPT ![r].status =
                                       FinalStatus(call[h].won, Asked(r))]
      BY <3>2 DEF FinalStatus, TerminalStatuses, StateOK, TablesTypeOK,
                  RequestRow
    <3>3. CASE /\ Fail(h)
               /\ row' = [row EXCEPT ![r].status = "failed",
                                     ![r].error = call[h].error]
      BY <3>3 DEF TerminalStatuses, StateOK, TablesTypeOK, RequestRow
    <3>4. QED
      BY <1>1, <1>11, <3>2, <3>3, StepFacts DEF Finish, Fail
  <2>3. pc'[h] \notin Waiting \cup Working \cup {"reset", "fail"}
    BY <2>1 DEF Waiting, Working, JobSteps
  <2>4. QED
    BY <1>2, <2>2, <2>3 DEF StatusOf
<1>12. CASE CleanupSource(h)
  BY <1>12, OtherStepsDo DEF StatusOf, Waiting, Working, JobSteps
<1>13. QED
  BY <1>3, <1>4, <1>6, <1>7, <1>8, <1>9, <1>10, <1>11, <1>12 DEF HandleStep

\* So do the steps around it, and the sweep touches only "processing".
LEMMA NextKeepsStatus ==
  ASSUME StateOK, OneAttempt, OneAttempt', \A h \in Handlers : StatusOf(h),
         [Next]_vars
  PROVE  \A h \in Handlers : StatusOf(h)'
<1>req. \A g \in Handlers : pc[g] # "idle" => call[g].req \in Requests
  BY DEF StateOK, LocalsOK
<1>faults. Faultless' => Faultless
  BY FaultsStay
<1>1. ASSUME NEW h \in Handlers,
             \/ CreateRequest(h) \/ CheckRetryable(h) \/ Acquire(h)
             \/ Progress(h)
      PROVE  StatusOf(h)'
  <2>1. CASE CreateRequest(h)
    <3>1. PICK r \in Requests : /\ call'[h].req = r
                                /\ row'[r].status = "pending"
      BY <2>1, CreateRequestDoes
    <3>2. pc'[h] = "upload"
      BY <2>1, CreateRequestDoes
    <3>3. QED
      BY <3>1, <3>2 DEF StatusOf, Waiting, Working, JobSteps
  <2>2. CASE CheckRetryable(h)
    <3>1. PICK r \in Requests : /\ call'[h].req = r
                                /\ row[r].status \in RetryableStatuses
      BY <2>2, CheckRetryableDoes
    <3>2. pc'[h] = "reset" /\ UNCHANGED row
      BY <2>2, CheckRetryableDoes DEF tables
    <3>3. QED
      BY <3>1, <3>2 DEF StatusOf, Waiting, Working, JobSteps
  <2>3. CASE \/ PutUploadedFile(h) \/ RecordSourcePath(h) \/ ResetRequest(h)
             \/ Acquire(h)
    <3>1. pc[h] \in {"upload", "record", "reset", "acquire"}
      BY <2>3, PutUploadedFileDoes, RecordSourcePathDoes, ResetRequestDoes,
         SlotStepsDo
    <3>2. PICK r \in Requests : call[h].req = r
      BY <3>1, <1>req
    <3>3. pc[h] # "reset" => row[r].status = "pending"
      BY <3>1, <3>2 DEF StatusOf, Waiting
    <3>4. \/ pc'[h] = "idle"
          \/ /\ pc'[h] \in {"record", "acquire", "load"}
             /\ call'[h] = call[h] /\ row'[r].status = "pending"
      <4>1. CASE PutUploadedFile(h)
        BY <4>1, <3>2, <3>3, PutUploadedFileDoes
      <4>2. CASE RecordSourcePath(h)
        BY <4>2, <3>2, <3>3, RecordSourcePathDoes
      <4>3. CASE ResetRequest(h)
        BY <4>3, <3>2, ResetRequestDoes
      <4>4. CASE Acquire(h)
        BY <4>4, <3>2, <3>3, SlotStepsDo DEF tables
      <4>5. QED
        BY <2>3, <4>1, <4>2, <4>3, <4>4
    <3>5. QED
      BY <3>2, <3>4 DEF StatusOf, Waiting, Working, JobSteps
  <2>4. CASE Return(h)
    BY <2>4, SlotStepsDo DEF StatusOf, Waiting, Working, JobSteps
  <2>5. CASE RunJob(h)
    BY <2>5, JobKeepsStatus DEF RunJob
  <2>6. QED
    BY <1>1, <2>1, <2>2, <2>3, <2>4, <2>5 DEF Progress
<1>2. ASSUME NEW g \in Handlers, Untouched(g)
      PROVE  StatusOf(g)'
  <2>1. CASE pc[g] = "idle"
    BY <2>1, <1>2 DEF StatusOf, Untouched, Waiting, Working, JobSteps
  <2>2. CASE pc[g] # "idle"
    <3>1. PICK r \in Requests : call[g].req = r
      BY <2>2, <1>req
    <3>2. row'[r] = row[r] /\ pc'[g] = pc[g] /\ call'[g] = call[g]
      BY <3>1, <1>2 DEF Untouched
    <3>3. QED
      BY <3>1, <3>2, <1>faults DEF StatusOf
  <2>3. QED
    BY <2>1, <2>2
<1>3. ASSUME NEW h \in Handlers,
             \/ CreateRequest(h) \/ CheckRetryable(h) \/ Acquire(h)
             \/ Progress(h)
      PROVE  \A g \in Handlers : StatusOf(g)'
  BY <1>1, <1>2, <1>3, OneMoves
<1>4. CASE \/ SweepStaleProcessingRequests \/ UNCHANGED vars
           \/ \E h \in Handlers : Tick(h)
           \/ \E r \in Requests : Lapse(r) \/ Stall(r)
  <2>1. UNCHANGED <<pc, call>> /\ \A r \in Requests :
          \/ row'[r].status = row[r].status /\ row'[r].error = row[r].error
          \/ /\ row[r].status = "processing"
             /\ row'[r].status = "failed" /\ row'[r].error = "interrupted"
    BY <1>4, SweepDoes, BeatStepsDo DEF SameButBeat, vars
  <2>2. ASSUME NEW g \in Handlers PROVE StatusOf(g)'
    <3>1. CASE pc[g] = "idle"
      BY <3>1, <2>1 DEF StatusOf, Waiting, Working, JobSteps
    <3>2. CASE pc[g] # "idle"
      <4>1. PICK r \in Requests : call[g].req = r
        BY <3>2, <1>req
      <4>2. StatusOf(g) /\ call'[g] = call[g] /\ pc'[g] = pc[g]
        BY <2>1
      <4>3. CASE /\ row'[r].status = row[r].status
                 /\ row'[r].error = row[r].error
        BY <4>1, <4>2, <4>3, <1>faults DEF StatusOf
      <4>4. CASE /\ row[r].status = "processing"
                 /\ row'[r].status = "failed" /\ row'[r].error = "interrupted"
        BY <4>1, <4>2, <4>4, <1>faults
           DEF StatusOf, RetryableStatuses, TerminalStatuses
      <4>5. QED
        BY <2>1, <4>3, <4>4
    <3>3. QED
      BY <3>1, <3>2
  <2>3. QED
    BY <2>2
<1>5. CASE Crash
  BY <1>5, CrashDoes DEF StatusOf, Waiting, Working, JobSteps
<1>6. QED
  BY <1>3, <1>4, <1>5 DEF Next

\* The two steps at which Handle begins.
LEMMA JobBegins ==
  ASSUME StateOK, NEW h \in Handlers, HandleStep(h)
  PROVE  /\ pc[h] = "load" => LoadRequest(h)
         /\ pc[h] = "mark" => MarkProcessing(h)
<1>1. CASE \/ LoadSizes(h) \/ Inspect(h) \/ MarkNextBad(h)
           \/ ProcessSizes(h) \/ OutputHashFor(h)
  BY <1>1, LoadSizesDoes, InspectDoes, MarkNextBadDoes, ProcessSizesDoes,
     OutputHashForDoes
<1>2. CASE LookupOutput(h) \/ MarkSizeCompleted(h)
  BY <1>2, LookupOutputDoes, MarkSizeCompletedDoes
<1>3. CASE LoadRequest(h) \/ MarkProcessing(h)
  BY <1>3, LoadRequestDoes, MarkProcessingDoes
<1>4. QED
  BY <1>1, <1>2, <1>3, OtherStepsDo DEF HandleStep

(***************************************************************************)
(* The hash of a request.                                                  *)
(***************************************************************************)

\* What is loaded or assigned is what the row says, and what it says names
\* every object served.
HashOf(h) == pc[h] \in JobSteps \ {"load"} =>
               call[h].hash = row[call[h].req].hash

SharedAt(r) == \A s \in Served(r) : output[r][s] = row[r].hash

\* A path is made of the hash in the row, and the hash is drawn only while
\* nothing is served.
LEMMA JobKeepsHash ==
  ASSUME StateOK, NEW h \in Handlers, HandleStep(h), HashOf(h),
         NEW r \in Requests, call[h].req = r, SharedAt(r)
  PROVE  HashOf(h)' /\ SharedAt(r)'
<1>types. /\ output \in [Requests -> [Sizes -> Nat \cup {NoRow}]]
          /\ row \in [Requests -> RequestRow] /\ pc[h] \in JobSteps
  BY JobGoto DEF StateOK, TablesTypeOK
<1>same. ASSUME UNCHANGED output, row'[r].hash = row[r].hash
         PROVE  SharedAt(r)'
  BY <1>same DEF SharedAt, Served
<1>1. CASE LoadRequest(h)
  <2>1. UNCHANGED <<row, output>>
    BY <1>1 DEF LoadRequest, tables
  <2>2. \/ pc'[h] = "mark" /\ call'[h].hash = row[r].hash
        \/ pc'[h] = "return"
    BY <1>1, LoadRequestDoes
  <2>3. call'[h].req = r
    BY JobIsLocal
  <2>4. QED
    BY <1>same, <2>1, <2>2, <2>3 DEF HashOf, JobSteps
<1>2. ASSUME pc[h] # "load"
      PROVE  HashOf(h)' /\ SharedAt(r)'
  <2>0. call[h].hash = row[r].hash /\ call'[h].req = r
    BY <1>2, <1>types, JobIsLocal DEF HashOf
  <2>1. CASE OutputHashFor(h)
    <3>1. UNCHANGED output
      BY <2>1 DEF OutputHashFor
    <3>2. CASE SameRun(h) /\ UNCHANGED row
      BY <2>0, <3>1, <3>2, <1>same DEF SameRun, HashOf
    <3>3. ASSUME NEW n, call'[h].hash = n, row' = [row EXCEPT ![r].hash = n],
                 call[h].hash = NoHash
          PROVE  HashOf(h)' /\ SharedAt(r)'
      <4>1. row'[r].hash = n
        BY <3>3, <1>types DEF RequestRow
      <4>2. Served(r) = {}
        BY <2>0, <3>3 DEF SharedAt, Served, NoHash, EmptyPath
      <4>3. QED
        BY <2>0, <3>1, <3>3, <4>1, <4>2 DEF HashOf, SharedAt, Served
    <3>4. \/ SameRun(h) /\ UNCHANGED row
          \/ /\ call'[h].hash = minted[r] + 1 /\ call[h].hash = NoHash
             /\ row' = [row EXCEPT ![r].hash = minted[r] + 1]
      BY <2>1, OutputHashForDoes
    <3>5. QED
      BY Zenon, <3>2, <3>3, <3>4
  <2>2. CASE ~OutputHashFor(h)
    <3>1. row'[r].hash = row[r].hash
      BY <2>2, JobRowDoes
    <3>2. call'[h].hash = call[h].hash
      BY <2>2, <1>2, JobFrames, MarkProcessingDoes, LoadRequestDoes
         DEF SameRun
    <3>3. HashOf(h)'
      BY <2>0, <3>1, <3>2 DEF HashOf
    <3>4. ASSUME NEW s \in Served(r)'
          PROVE  output'[r][s] = row[r].hash
      <4>1. CASE UNCHANGED output
        BY <3>4, <4>1 DEF SharedAt, Served
      <4>2. CASE CreateOutput(h) \/ Rollback(h) \/ RecordStoragePath(h)
        <5>1. PICK x \in {NoRow, EmptyPath, row[r].hash} :
                 \/ output' = [output EXCEPT ![r][call[h].size] = x]
                 \/ output' = output
          BY <4>2, <2>0 DEF CreateOutput, Rollback, RecordStoragePath
        <5>2. CASE output' = [output EXCEPT ![r][call[h].size] = x]
          <6>1. s \in Sizes /\ output'[r][s] \notin {NoRow, EmptyPath}
            BY <3>4 DEF Served
          <6>2. output'[r][s] = output[r][s] \/ output'[r][s] = x
            BY <5>2, <6>1, <1>types
          <6>3. output'[r][s] = output[r][s] => s \in Served(r)
            BY <6>1 DEF Served
          <6>4. QED
            BY <6>1, <6>2, <6>3, <5>1 DEF SharedAt
        <5>3. QED
          BY <4>1, <5>1, <5>2
      <4>3. QED
        BY <4>1, <4>2, JobFrames
    <3>5. QED
      BY <3>1, <3>3, <3>4 DEF SharedAt
  <2>3. QED
    BY <2>1, <2>2
<1>3. QED
  BY <1>1, <1>2, JobBegins

\* One hash per request, whatever crashes and retries come between.
LEMMA NextKeepsHash ==
  ASSUME StateOK, OneAttempt, OneAttempt', SharedHash,
         \A h \in Handlers : HashOf(h), [Next]_vars
  PROVE  SharedHash' /\ \A h \in Handlers : HashOf(h)'
<1>req. \A g \in Handlers : pc[g] # "idle" => call[g].req \in Requests
  BY DEF StateOK, LocalsOK
<1>shared. \A r \in Requests : SharedAt(r)
  BY DEF SharedHash, SharedAt
<1>same. ASSUME NEW r \in Requests, output'[r] = output[r],
                row'[r].hash = row[r].hash
         PROVE  SharedAt(r)'
  BY <1>same, <1>shared DEF SharedAt, Served
<1>1. ASSUME NEW g \in Handlers, Untouched(g)
      PROVE  HashOf(g)'
  <2>1. CASE pc[g] = "idle"
    BY <2>1, <1>1 DEF HashOf, Untouched, JobSteps
  <2>2. CASE pc[g] # "idle"
    <3>1. PICK r \in Requests : call[g].req = r
      BY <2>2, <1>req
    <3>2. HashOf(g) /\ row'[r] = row[r] /\ pc'[g] = pc[g]
          /\ call'[g] = call[g]
      BY <3>1, <1>1 DEF Untouched
    <3>3. QED
      BY <3>1, <3>2 DEF HashOf
  <2>3. QED
    BY <2>1, <2>2
<1>2. ASSUME NEW h \in Handlers,
             \/ CreateRequest(h) \/ CheckRetryable(h) \/ Acquire(h)
             \/ Progress(h)
      PROVE  /\ \A r \in Requests : SharedAt(r)'
             /\ \A g \in Handlers : HashOf(g)'
  <2>0. \A g \in Handlers \ {h} : HashOf(g)'
    BY <1>1, <1>2, OneMoves
  <2>1. CASE RunJob(h)
    <3>1. HandleStep(h) /\ pc[h] # "idle"
      BY <2>1, JobGoto DEF RunJob, JobSteps
    <3>2. PICK r \in Requests : call[h].req = r
      BY <3>1, <1>req
    <3>3. HashOf(h)' /\ SharedAt(r)'
      BY <3>1, <3>2, <1>shared, JobKeepsHash
    <3>4. \A q \in Requests \ {r} : SharedAt(q)'
      BY <3>1, <3>2, <1>same, JobIsLocal
    <3>5. QED
      BY <2>0, <3>3, <3>4
  <2>2. CASE ~RunJob(h)
    <3>1. pc'[h] \notin JobSteps \ {"load"}
      BY <1>2, <2>2, CreateRequestDoes, CheckRetryableDoes, SlotStepsDo,
         PutUploadedFileDoes, RecordSourcePathDoes, ResetRequestDoes
         DEF Progress, JobSteps
    <3>2. UNCHANGED output
      BY <1>2, <2>2, CreateRequestDoes, CheckRetryableDoes, SlotStepsDo,
         PutUploadedFileDoes, RecordSourcePathDoes, ResetRequestDoes
         DEF Progress, tables
    <3>3. \A r \in Requests : row'[r].hash = row[r].hash
      <4>1. CASE CreateRequest(h)
        BY <4>1, CreateRequestDoes DEF OthersKept
      <4>2. CASE RecordSourcePath(h)
        BY <4>2, RecordSourcePathDoes DEF OthersKept
      <4>3. CASE ResetRequest(h)
        BY <4>3, ResetRequestDoes DEF OthersKept
      <4>4. CASE \/ CheckRetryable(h) \/ Acquire(h) \/ Return(h)
                 \/ PutUploadedFile(h)
        BY <4>4, CheckRetryableDoes, SlotStepsDo, PutUploadedFileDoes
           DEF tables
      <4>5. QED
        BY <1>2, <2>2, <4>1, <4>2, <4>3, <4>4 DEF Progress
    <3>4. \A r \in Requests : SharedAt(r)'
      BY <1>same, <3>2, <3>3
    <3>5. QED
      BY <2>0, <3>1, <3>4 DEF HashOf
  <2>3. QED
    BY <2>1, <2>2
<1>3. CASE \/ SweepStaleProcessingRequests \/ UNCHANGED vars
           \/ \E h \in Handlers : Tick(h)
           \/ \E r \in Requests : Lapse(r) \/ Stall(r)
  <2>1. /\ UNCHANGED <<output, pc, call>>
        /\ \A r \in Requests : row'[r].hash = row[r].hash
    BY <1>3, SweepDoes, BeatStepsDo DEF SameButBeat, vars
  <2>2. \A g \in Handlers : HashOf(g)'
    BY <2>1, <1>req DEF HashOf, JobSteps
  <2>3. QED
    BY <2>1, <2>2, <1>same DEF SharedHash, SharedAt
<1>4. CASE Crash
  <2>1. UNCHANGED <<row, output>> /\ \A g \in Handlers : pc'[g] = "idle"
    BY <1>4, CrashDoes DEF tables
  <2>2. QED
    BY <2>1, <1>same DEF HashOf, JobSteps, SharedHash, SharedAt
<1>5. QED
  BY <1>2, <1>3, <1>4 DEF Next, SharedHash, SharedAt

(***************************************************************************)
(* The size rows of a request and the locals of its attempt.               *)
(***************************************************************************)
Starting == Waiting \cup {"reset", "sizes", "inspect"}
Marking  == {"limits", "errors"}
Storing  == SizeSteps \cup {"persist"}

\* A size is in one of the local sets only.
LocalSets(h) ==
  /\ pc[h] \in Starting => call[h].won = {}
  /\ pc[h] \in Marking => /\ call[h].won = {}
                          /\ call[h].todo \cap call[h].bad = {}
  /\ pc[h] \in Storing => /\ call[h].bad = {}
                          /\ call[h].todo \cap call[h].won = {}
  /\ pc[h] \in SizeSteps => call[h].size \notin call[h].todo \cup call[h].won

Unfinished(r) == {s \in Sizes : sizeStatus[r][s] = "pending"}
Finished(r)   == {s \in Sizes : sizeStatus[r][s] = "completed"}

\* The size persistOutput is at.
Current(h) == IF pc[h] \in SizeSteps THEN {call[h].size} ELSE {}

\* The rows say "pending" for what the locals still hold and "completed" for
\* what they count.
SizesOf(h) ==
  /\ pc[h] \in Starting \ {"reset"} =>
       Unfinished(call[h].req) = Asked(call[h].req)
  /\ pc[h] \in Marking \cup Storing =>
       /\ Unfinished(call[h].req) =
            call[h].todo \cup call[h].bad \cup Current(h)
       /\ Finished(call[h].req) = call[h].won

\* The steps that move a goroutine from one of these phases to the next.
LEMMA JobPhases ==
  ASSUME StateOK, NEW h \in Handlers, HandleStep(h)
  PROVE  \/ /\ LoadRequest(h) \/ MarkProcessing(h) \/ LoadSizes(h)
            /\ pc[h] \in Starting \ {"reset"}
            /\ pc'[h] \in (Starting \ {"reset"}) \cup {"fail", "return"}
            /\ SameSizes(h) /\ UNCHANGED <<sizeStatus, output>>
         \/ Inspect(h) /\ pc[h] = "inspect"
         \/ MarkNextBad(h) /\ pc[h] \in Marking /\ pc'[h] = pc[h]
         \/ ProcessSizes(h) /\ pc[h] = "limits"
         \/ /\ OutputHashFor(h) /\ pc[h] = "errors" /\ call[h].bad = {}
            /\ pc'[h] \in {"persist", "fail"}
            /\ SameSizes(h) /\ UNCHANGED <<sizeStatus, output>>
         \/ LookupOutput(h) /\ pc[h] = "persist"
         \/ /\ CreateOutput(h) \/ PutOutput(h) \/ Rollback(h)
               \/ RecordStoragePath(h)
            /\ pc[h] \in SizeSteps /\ pc'[h] \in SizeSteps
            /\ SameSizes(h) /\ UNCHANGED sizeStatus
         \/ MarkSizeCompleted(h) /\ pc[h] = "succeed" /\ pc'[h] = "persist"
         \/ /\ MarkSizeFailed(h) /\ pc[h] = "giveup" /\ pc'[h] = "persist"
            /\ SameSizes(h)
         \/ /\ Finish(h) \/ Fail(h) \/ CleanupSource(h)
            /\ pc'[h] \in {"cleanup", "return"}
<1>1. CASE LoadRequest(h) \/ MarkProcessing(h) \/ LoadSizes(h)
  <2>1. /\ pc[h] \in {"load", "mark", "sizes"} /\ SameSizes(h)
        /\ pc'[h] \in {"mark", "sizes", "inspect", "fail", "return"}
    BY <1>1, LoadRequestDoes, MarkProcessingDoes, LoadSizesDoes
  <2>2. UNCHANGED <<sizeStatus, output>>
    BY <1>1 DEF LoadRequest, MarkProcessing, LoadSizes, tables
  <2>3. QED
    BY <1>1, <2>1, <2>2 DEF Starting, Waiting
<1>2. CASE Inspect(h) \/ MarkNextBad(h) \/ ProcessSizes(h)
  BY <1>2, InspectDoes, MarkNextBadDoes, ProcessSizesDoes DEF Marking
<1>3. CASE OutputHashFor(h)
  BY <1>3, OutputHashForDoes DEF OutputHashFor
<1>4. CASE LookupOutput(h) \/ MarkSizeCompleted(h)
  BY <1>4, LookupOutputDoes, MarkSizeCompletedDoes
<1>5. CASE \/ CreateOutput(h) \/ PutOutput(h) \/ Rollback(h)
           \/ RecordStoragePath(h) \/ MarkSizeFailed(h)
  <2>1. SameSizes(h)
    BY <1>5, SameLocals
       DEF CreateOutput, PutOutput, Rollback, RecordStoragePath,
           MarkSizeFailed
  <2>2. MarkSizeFailed(h) \/ UNCHANGED sizeStatus
    BY <1>5 DEF CreateOutput, PutOutput, Rollback, RecordStoragePath, tables
  <2>3. QED
    BY <1>5, <2>1, <2>2, OtherStepsDo DEF SizeSteps
<1>6. CASE Finish(h) \/ Fail(h) \/ CleanupSource(h)
  BY <1>6, OtherStepsDo
<1>7. QED
  BY <1>1, <1>2, <1>3, <1>4, <1>5, <1>6 DEF HandleStep

\* The phases exclude each other.
LEMMA PhasesDiffer ==
  /\ Starting \cap Marking = {} /\ Starting \cap Storing = {}
  /\ Marking \cap Storing = {} /\ SizeSteps \subseteq Storing
  /\ "persist" \in Storing \ SizeSteps
  /\ {"fail", "return", "cleanup", "idle"}
       \cap (Starting \cup Marking \cup Storing) = {}
BY DEF Starting, Waiting, Marking, Storing, SizeSteps

\* No size is taken up twice.
LEMMA JobKeepsLocalSets ==
  ASSUME StateOK, NEW h \in Handlers, HandleStep(h), LocalSets(h)
  PROVE  LocalSets(h)'
<1>1. CASE /\ pc[h] \in Starting
           /\ pc'[h] \in (Starting \ {"reset"}) \cup {"fail", "return"}
           /\ SameSizes(h)
  BY <1>1, PhasesDiffer DEF LocalSets, SameSizes
<1>2. CASE Inspect(h) /\ pc[h] = "inspect"
  <2>1. call[h].won = {}
    BY <1>2 DEF LocalSets, Starting
  <2>2. \/ /\ pc'[h] = "limits" /\ call'[h].won = {}
           /\ call'[h].todo \cap call'[h].bad = {}
        \/ pc'[h] \in {"fail", "cleanup"}
    BY <1>2, <2>1, InspectDoes
  <2>3. QED
    BY <2>2, PhasesDiffer DEF LocalSets, Marking
<1>3. CASE MarkNextBad(h) /\ pc[h] \in Marking /\ pc'[h] = pc[h]
  <2>1. call'[h].won = {} /\ call'[h].todo \cap call'[h].bad = {}
    BY <1>3, MarkNextBadDoes DEF LocalSets
  <2>2. QED
    BY <1>3, <2>1, PhasesDiffer DEF LocalSets
<1>4. CASE ProcessSizes(h) /\ pc[h] = "limits"
  <2>1. call'[h].won = {}
    BY <1>4, ProcessSizesDoes DEF LocalSets, Marking
  <2>2. \/ pc'[h] = "errors" /\ call'[h].todo \cap call'[h].bad = {}
        \/ pc'[h] = "fail"
    BY <1>4, ProcessSizesDoes
  <2>3. QED
    BY <2>1, <2>2, PhasesDiffer DEF LocalSets, Marking
<1>5. CASE /\ pc[h] = "errors" /\ call[h].bad = {}
           /\ pc'[h] \in {"persist", "fail"} /\ SameSizes(h)
  <2>1. call'[h].won = {} /\ call'[h].bad = {}
    BY <1>5 DEF LocalSets, Marking, SameSizes
  <2>2. QED
    BY <1>5, <2>1, PhasesDiffer DEF LocalSets
<1>6. CASE LookupOutput(h) /\ pc[h] = "persist"
  <2>1. call[h].bad = {} /\ call[h].todo \cap call[h].won = {}
    BY <1>6, PhasesDiffer DEF LocalSets
  <2>2. /\ call'[h].bad = {} /\ call'[h].todo \cap call'[h].won = {}
        /\ call'[h].size \notin call'[h].todo \cup call'[h].won
    BY <1>6, <2>1, LookupOutputDoes
  <2>3. pc'[h] \in SizeSteps
    BY <1>6, LookupOutputDoes DEF SizeSteps
  <2>4. QED
    BY <2>2, <2>3, PhasesDiffer DEF LocalSets
<1>7. CASE pc[h] \in SizeSteps /\ pc'[h] \in SizeSteps /\ SameSizes(h)
  BY <1>7, PhasesDiffer DEF LocalSets, SameSizes
<1>8. CASE MarkSizeCompleted(h) /\ pc[h] = "succeed" /\ pc'[h] = "persist"
  <2>1. /\ call[h].bad = {} /\ call[h].todo \cap call[h].won = {}
        /\ call[h].size \notin call[h].todo
    BY <1>8, PhasesDiffer DEF LocalSets, SizeSteps
  <2>2. call'[h].bad = {} /\ call'[h].todo \cap call'[h].won = {}
    BY <1>8, <2>1, MarkSizeCompletedDoes
  <2>3. QED
    BY <1>8, <2>2, PhasesDiffer DEF LocalSets
<1>9. CASE pc[h] = "giveup" /\ pc'[h] = "persist" /\ SameSizes(h)
  BY <1>9, PhasesDiffer DEF LocalSets, SameSizes, SizeSteps
<1>10. CASE pc'[h] \in {"cleanup", "return"}
  BY <1>10, PhasesDiffer DEF LocalSets
<1>11. QED
  BY <1>1, <1>2, <1>3, <1>4, <1>5, <1>6, <1>7, <1>8, <1>9, <1>10, JobPhases

\* One size row changes.
LEMMA OneSizeMarked ==
  ASSUME sizeStatus \in [Requests -> [Sizes -> SizeStatuses]],
         NEW r \in Requests, NEW s \in Sizes, NEW status,
         sizeStatus' = [sizeStatus EXCEPT ![r][s] = status]
  PROVE  /\ status = "failed" => /\ Unfinished(r)' = Unfinished(r) \ {s}
                                 /\ Finished(r)' = Finished(r) \ {s}
         /\ status = "completed" => /\ Unfinished(r)' = Unfinished(r) \ {s}
                                    /\ Finished(r)' = Finished(r) \cup {s}
BY DEF Unfinished, Finished

\* While every mark lands, rows and locals stay in step.
LEMMA JobKeepsSizes ==
  ASSUME StateOK, AskedInv, NEW h \in Handlers, HandleStep(h),
         LocalSets(h), SizesOf(h), Faultless'
  PROVE  SizesOf(h)'
<1>types. /\ sizeStatus \in [Requests -> [Sizes -> SizeStatuses]]
          /\ pc[h] \in JobSteps /\ call[h] \in Calls
  BY JobGoto DEF StateOK, TablesTypeOK
<1>1. PICK r \in Requests : call[h].req = r
  BY <1>types DEF StateOK, LocalsOK, JobSteps
<1>2. call'[h].req = r /\ Asked(r)' = Asked(r)
  BY <1>1, JobIsLocal, JobKeepsAsked
<1>3. UNCHANGED sizeStatus => /\ Unfinished(r)' = Unfinished(r)
                              /\ Finished(r)' = Finished(r)
  BY DEF Unfinished, Finished
<1>4. ASSUME pc'[h] \in Marking \cup Storing =>
               /\ Unfinished(r)' =
                    call'[h].todo \cup call'[h].bad \cup Current(h)'
               /\ Finished(r)' = call'[h].won,
             pc'[h] \in Starting \ {"reset"} => Unfinished(r)' = Asked(r)'
      PROVE  SizesOf(h)'
  BY <1>2, <1>4 DEF SizesOf
<1>5. CASE /\ pc[h] \in Starting \ {"reset"}
           /\ pc'[h] \in (Starting \ {"reset"}) \cup {"fail", "return"}
           /\ UNCHANGED sizeStatus
  <2>1. Unfinished(r) = Asked(r)
    BY <1>1, <1>5 DEF SizesOf
  <2>2. pc'[h] \notin Marking \cup Storing
    BY <1>5, PhasesDiffer
  <2>3. QED
    BY <1>2, <1>3, <1>4, <1>5, <2>1, <2>2
<1>6. CASE Inspect(h) /\ pc[h] = "inspect"
  <2>1. UNCHANGED sizeStatus
    BY <1>6 DEF Inspect, tables
  <2>2. Unfinished(r) = Asked(r) /\ call[h].won = {}
    BY <1>1, <1>6 DEF SizesOf, LocalSets, Starting
  <2>3. Finished(r) = {}
    BY <2>2 DEF Finished, Unfinished, Asked
  <2>4. CASE /\ pc'[h] = "limits"
             /\ call'[h].todo = Asked(r) \ OverPixelLimit
             /\ call'[h].bad = Asked(r) \cap OverPixelLimit
             /\ call'[h].won = call[h].won
    <3>1. Current(h)' = {}
      BY <2>4 DEF Current, SizeSteps
    <3>2. pc'[h] \notin Starting
      BY <2>4, PhasesDiffer DEF Marking
    <3>3. Unfinished(r)' =
            call'[h].todo \cup call'[h].bad \cup Current(h)'
      BY <1>3, <2>1, <2>2, <2>4, <3>1
    <3>4. QED
      BY <1>3, <1>4, <2>1, <2>2, <2>3, <2>4, <3>2, <3>3
  <2>5. CASE pc'[h] \in {"fail", "cleanup"}
    BY <2>5, <1>4, PhasesDiffer
  <2>6. QED
    BY <1>1, <1>6, <2>4, <2>5, InspectDoes
<1>7. CASE MarkNextBad(h) /\ pc[h] \in Marking /\ pc'[h] = pc[h]
  <2>1. /\ Unfinished(r) = call[h].todo \cup call[h].bad \cup Current(h)
        /\ Finished(r) = call[h].won /\ call[h].won = {}
        /\ call[h].todo \cap call[h].bad = {}
    BY <1>1, <1>7 DEF SizesOf, LocalSets
  <2>2. Current(h) = {} /\ Current(h)' = {} /\ pc'[h] \notin Starting
    BY <1>7, PhasesDiffer DEF Current
  <2>3. PICK s \in call[h].bad :
          /\ call'[h].bad = call[h].bad \ {s}
          /\ call'[h].todo = call[h].todo /\ call'[h].won = call[h].won
          /\ sizeStatus' = [sizeStatus EXCEPT ![r][s] = "failed"]
    BY <1>1, <1>7, MarkNextBadDoes
  <2>4. s \in Sizes
    BY <1>types, <2>3 DEF Calls
  <2>5. /\ Unfinished(r)' = Unfinished(r) \ {s}
        /\ Finished(r)' = Finished(r) \ {s}
    BY <1>types, <2>3, <2>4, OneSizeMarked
  <2>6. QED
    BY <1>4, <2>1, <2>2, <2>3, <2>5
<1>8. CASE ProcessSizes(h) /\ pc[h] = "limits"
  <2>1. UNCHANGED sizeStatus
    BY <1>8 DEF ProcessSizes, tables
  <2>2. /\ Unfinished(r) = call[h].todo \cup call[h].bad \cup Current(h)
        /\ Finished(r) = call[h].won /\ call[h].bad = {}
    BY <1>1, <1>8, ProcessSizesDoes DEF SizesOf, Marking
  <2>3. CASE /\ pc'[h] = "errors" /\ call'[h].won = call[h].won
             /\ \E broken \in SUBSET call[h].todo :
                  /\ call'[h].todo = call[h].todo \ broken
                  /\ call'[h].bad = broken
    <3>1. Current(h) = {} /\ Current(h)' = {} /\ pc'[h] \notin Starting
      BY <1>8, <2>3, PhasesDiffer DEF Current, Marking
    <3>2. Unfinished(r)' = call'[h].todo \cup call'[h].bad \cup Current(h)'
      BY <1>3, <2>1, <2>2, <2>3, <3>1
    <3>3. QED
      BY <1>3, <1>4, <2>1, <2>2, <2>3, <3>1, <3>2
  <2>4. CASE pc'[h] = "fail"
    BY <2>4, <1>4, PhasesDiffer
  <2>5. QED
    BY <1>8, <2>3, <2>4, ProcessSizesDoes
<1>9. CASE /\ pc[h] = "errors" /\ pc'[h] \in {"persist", "fail"}
           /\ SameSizes(h) /\ UNCHANGED sizeStatus
  <2>1. /\ Unfinished(r) = call[h].todo \cup call[h].bad \cup Current(h)
        /\ Finished(r) = call[h].won
    BY <1>1, <1>9 DEF SizesOf, Marking
  <2>2. Current(h) = {} /\ Current(h)' = {} /\ pc'[h] \notin Starting
    BY <1>9, PhasesDiffer DEF Current, Marking
  <2>3. QED
    BY <1>3, <1>4, <1>9, <2>1, <2>2 DEF SameSizes
<1>10. CASE LookupOutput(h) /\ pc[h] = "persist"
  <2>1. UNCHANGED sizeStatus
    BY <1>10 DEF LookupOutput, tables
  <2>2. /\ Unfinished(r) = call[h].todo \cup call[h].bad \cup Current(h)
        /\ Finished(r) = call[h].won
    BY <1>1, <1>10 DEF SizesOf, Storing
  <2>3. PICK s \in call[h].todo :
          call'[h].todo = call[h].todo \ {s} /\ call'[h].size = s
    BY <1>10, LookupOutputDoes
  <2>4. /\ call'[h].bad = call[h].bad /\ call'[h].won = call[h].won
        /\ pc'[h] \in SizeSteps
    BY <1>10, LookupOutputDoes DEF SizeSteps
  <2>5. Current(h) = {} /\ Current(h)' = {s} /\ pc'[h] \notin Starting
    BY <1>10, <2>3, <2>4, PhasesDiffer DEF Current
  <2>6. Unfinished(r)' = call'[h].todo \cup call'[h].bad \cup Current(h)'
    BY <1>3, <2>1, <2>2, <2>3, <2>4, <2>5
  <2>7. QED
    BY <1>3, <1>4, <2>1, <2>2, <2>4, <2>5, <2>6
<1>11. CASE /\ pc[h] \in SizeSteps /\ pc'[h] \in SizeSteps
            /\ SameSizes(h) /\ UNCHANGED sizeStatus
  <2>1. /\ Unfinished(r) = call[h].todo \cup call[h].bad \cup Current(h)
        /\ Finished(r) = call[h].won
    BY <1>1, <1>11 DEF SizesOf, Storing
  <2>2. Current(h)' = Current(h) /\ pc'[h] \notin Starting
    BY <1>11, PhasesDiffer DEF Current, SameSizes
  <2>3. QED
    BY <1>3, <1>4, <1>11, <2>1, <2>2 DEF SameSizes
<1>12. CASE MarkSizeCompleted(h) /\ pc[h] = "succeed" /\ pc'[h] = "persist"
  <2> DEFINE s == call[h].size
  <2>1. /\ Unfinished(r) = call[h].todo \cup call[h].bad \cup {s}
        /\ Finished(r) = call[h].won /\ s \notin call[h].todo
        /\ call[h].bad = {}
    BY <1>1, <1>12 DEF SizesOf, LocalSets, Storing, SizeSteps, Current
  <2>2. /\ call'[h].todo = call[h].todo /\ call'[h].bad = call[h].bad
        /\ call'[h].won = call[h].won \cup {s}
        /\ sizeStatus' = [sizeStatus EXCEPT ![r][s] = "completed"]
    BY <1>1, <1>12, MarkSizeCompletedDoes
  <2>3. s \in Sizes
    BY <1>12 DEF StateOK, LocalsOK, SizeSteps
  <2>4. /\ Unfinished(r)' = Unfinished(r) \ {s}
        /\ Finished(r)' = Finished(r) \cup {s}
    BY <1>types, <2>2, <2>3, OneSizeMarked
  <2>5. Current(h)' = {} /\ pc'[h] \notin Starting
    BY <1>12, PhasesDiffer DEF Current
  <2>6. Unfinished(r)' = call'[h].todo \cup call'[h].bad \cup Current(h)'
    BY <2>1, <2>2, <2>4, <2>5
  <2>7. QED
    BY <1>4, <2>1, <2>2, <2>4, <2>5, <2>6
<1>13. CASE /\ MarkSizeFailed(h) /\ pc[h] = "giveup" /\ pc'[h] = "persist"
            /\ SameSizes(h)
  <2> DEFINE s == call[h].size
  <2>1. /\ Unfinished(r) = call[h].todo \cup call[h].bad \cup {s}
        /\ Finished(r) = call[h].won /\ s \notin call[h].todo \cup call[h].won
        /\ call[h].bad = {}
    BY <1>1, <1>13 DEF SizesOf, LocalSets, Storing, SizeSteps, Current
  <2>2. sizeStatus' = [sizeStatus EXCEPT ![r][s] = "failed"]
    BY <1>1, <1>13, StepFacts DEF MarkSizeFailed
  <2>3. s \in Sizes
    BY <1>13 DEF StateOK, LocalsOK, SizeSteps
  <2>4. /\ Unfinished(r)' = Unfinished(r) \ {s}
        /\ Finished(r)' = Finished(r) \ {s}
    BY <1>types, <2>2, <2>3, OneSizeMarked
  <2>5. Current(h)' = {} /\ pc'[h] \notin Starting
    BY <1>13, PhasesDiffer DEF Current
  <2>6. /\ Unfinished(r)' = call'[h].todo \cup call'[h].bad \cup Current(h)'
        /\ Finished(r)' = call'[h].won
    BY <1>13, <2>1, <2>4, <2>5 DEF SameSizes
  <2>7. QED
    BY <1>4, <2>5, <2>6
<1>14. CASE pc'[h] \in {"cleanup", "return"}
  BY <1>14, <1>4, PhasesDiffer
<1>15. QED
  BY <1>5, <1>6, <1>7, <1>8, <1>9, <1>10, <1>11, <1>12, <1>13, <1>14,
     JobPhases

\* Both, of every goroutine; the rows agree as long as no statement failed.
SizesInv ==
  \A h \in Handlers : LocalSets(h) /\ (Faultless => SizesOf(h))

\* The steps around Handle begin with no local sets and pending rows.
LEMMA ServiceKeepsSizes ==
  ASSUME StateOK, AskedInv, SizesInv, NEW h \in Handlers,
         \/ CreateRequest(h) \/ CheckRetryable(h) \/ PutUploadedFile(h)
         \/ RecordSourcePath(h) \/ ResetRequest(h) \/ Acquire(h) \/ Return(h),
         Faultless' => Faultless
  PROVE  LocalSets(h)' /\ (Faultless' => SizesOf(h)')
<1>idle. pc'[h] = "idle" => LocalSets(h)' /\ SizesOf(h)'
  BY PhasesDiffer DEF LocalSets, SizesOf
<1>1. ASSUME pc'[h] \in Starting, call'[h].won = {},
             NEW r \in Requests, call'[h].req = r,
             pc'[h] = "reset" \/ (Faultless' => Unfinished(r)' = Asked(r)')
      PROVE  LocalSets(h)' /\ (Faultless' => SizesOf(h)')
  BY <1>1, PhasesDiffer DEF LocalSets, SizesOf
<1>2. CASE CreateRequest(h)
  <2>1. PICK r \in Requests :
          /\ call'[h].req = r
          /\ \A s \in Asked(r)' : sizeStatus'[r][s] = "pending"
    BY <1>2, CreateRequestDoes
  <2>2. pc[h] = "idle" /\ pc'[h] = "upload" /\ SameSizes(h)
    BY <1>2, CreateRequestDoes
  <2>3. call'[h].won = {}
    BY <2>2 DEF AskedInv, AskedOf, SameSizes, Idle
  <2>4. Unfinished(r)' = Asked(r)'
    BY <2>1 DEF Unfinished, Asked
  <2>5. QED
    BY <1>1, <2>1, <2>2, <2>3, <2>4 DEF Starting, Waiting
<1>3. CASE CheckRetryable(h)
  <2>1. PICK r \in Requests : call'[h].req = r
    BY <1>3, CheckRetryableDoes
  <2>2. pc[h] = "idle" /\ pc'[h] = "reset" /\ SameSizes(h)
    BY <1>3, CheckRetryableDoes
  <2>3. call'[h].won = {}
    BY <2>2 DEF AskedInv, AskedOf, SameSizes, Idle
  <2>4. QED
    BY <1>1, <2>1, <2>2, <2>3 DEF Starting
<1>4. CASE PutUploadedFile(h) \/ RecordSourcePath(h) \/ Acquire(h)
  <2>1. pc[h] \in Waiting /\ UNCHANGED sizeStatus
    BY <1>4, PutUploadedFileDoes, RecordSourcePathDoes, SlotStepsDo
       DEF Waiting, tables
  <2>2. \/ pc'[h] = "idle"
        \/ pc'[h] \in Waiting /\ call'[h] = call[h]
    BY <1>4, PutUploadedFileDoes, RecordSourcePathDoes, SlotStepsDo
       DEF Waiting
  <2>3. PICK r \in Requests : call[h].req = r
    BY <2>1 DEF StateOK, LocalsOK, Waiting
  <2>4. /\ call[h].won = {} /\ Waiting \subseteq Starting \ {"reset"}
        /\ Faultless => Unfinished(r) = Asked(r)
    BY <2>1, <2>3 DEF SizesInv, SizesOf, LocalSets, Starting, Waiting
  <2>5. Unfinished(r)' = Unfinished(r) /\ Asked(r)' = Asked(r)
    BY <2>1 DEF Unfinished, Asked
  <2>6. QED
    BY <1>idle, <1>1, <2>2, <2>3, <2>4, <2>5
<1>5. CASE ResetRequest(h)
  <2>1. PICK r \in Requests : call[h].req = r
    BY <1>5, ResetRequestDoes
  <2>2. call[h].won = {}
    BY <1>5, ResetRequestDoes DEF SizesInv, LocalSets, Starting
  <2>3. CASE /\ pc'[h] = "acquire" /\ call'[h] = call[h]
             /\ \A s \in Asked(r) : sizeStatus'[r][s] = "pending"
             /\ Asked(r)' = Asked(r)
    <3>1. Unfinished(r)' = Asked(r)'
      BY <2>3 DEF Unfinished, Asked
    <3>2. QED
      BY <1>1, <2>1, <2>2, <2>3, <3>1 DEF Starting, Waiting
  <2>4. QED
    BY <1>idle, <1>5, <2>1, <2>3, ResetRequestDoes
<1>6. CASE Return(h)
  BY <1>6, <1>idle, SlotStepsDo
<1>7. QED
  BY <1>2, <1>3, <1>4, <1>5, <1>6

\* Every step keeps the local sets apart and in step with the rows.
LEMMA NextKeepsSizes ==
  ASSUME StateOK, AskedInv, OneAttempt, OneAttempt', SizesInv, [Next]_vars
  PROVE  SizesInv'
<1>faults. Faultless' => Faultless
  BY FaultsStay
<1>req. \A g \in Handlers : pc[g] # "idle" => call[g].req \in Requests
  BY DEF StateOK, LocalsOK
<1>idle. \A g \in Handlers : pc'[g] = "idle" => LocalSets(g)' /\ SizesOf(g)'
  BY PhasesDiffer DEF LocalSets, SizesOf
<1>1. ASSUME NEW g \in Handlers, pc'[g] = pc[g], call'[g] = call[g],
             \A q \in Requests : call[g].req = q =>
               sizeStatus'[q] = sizeStatus[q]
      PROVE  LocalSets(g)' /\ (Faultless' => SizesOf(g)')
  <2>1. CASE pc[g] # "idle"
    <3>1. PICK r \in Requests : call[g].req = r
      BY <2>1, <1>req
    <3>2. /\ Unfinished(r)' = Unfinished(r) /\ Finished(r)' = Finished(r)
          /\ Asked(r)' = Asked(r) /\ Current(g)' = Current(g)
      BY <3>1, <1>1 DEF Unfinished, Finished, Asked, Current
    <3>3. LocalSets(g)'
      BY <1>1 DEF SizesInv, LocalSets
    <3>4. Faultless' => SizesOf(g)'
      BY <3>1, <3>2, <1>1, <1>faults DEF SizesInv, SizesOf
    <3>5. QED
      BY <3>3, <3>4
  <2>2. QED
    BY <1>1, <1>idle, <2>1
<1>2. ASSUME NEW h \in Handlers,
             \/ CreateRequest(h) \/ CheckRetryable(h) \/ Acquire(h)
             \/ Progress(h)
      PROVE  SizesInv'
  <2>1. \A g \in Handlers \ {h} : LocalSets(g)' /\ (Faultless' => SizesOf(g)')
    BY <1>1, <1>2, OneMoves DEF Untouched
  <2>2. LocalSets(h)' /\ (Faultless' => SizesOf(h)')
    <3>1. CASE RunJob(h)
      BY <3>1, <1>faults, JobKeepsLocalSets, JobKeepsSizes
         DEF RunJob, SizesInv
    <3>2. QED
      BY <1>2, <3>1, <1>faults, ServiceKeepsSizes DEF Progress
  <2>3. QED
    BY <2>1, <2>2 DEF SizesInv
<1>3. CASE \/ SweepStaleProcessingRequests \/ UNCHANGED vars
           \/ \E h \in Handlers : Tick(h)
           \/ \E r \in Requests : Lapse(r) \/ Stall(r)
  <2>1. UNCHANGED <<sizeStatus, pc, call>>
    BY <1>3, SweepDoes, BeatStepsDo DEF vars
  <2>2. QED
    BY <1>1, <2>1 DEF SizesInv
<1>4. CASE Crash
  BY <1>4, <1>idle, CrashDoes DEF SizesInv
<1>5. QED
  BY <1>2, <1>3, <1>4 DEF Next

\* A terminal status without an error message was written over finished rows.
LEMMA NextKeepsAgreement ==
  ASSUME StateOK, AskedInv, OneAttempt, OneAttempt', SizesInv,
         \A h \in Handlers : StatusOf(h), StatusAgreesWithSizes, [Next]_vars
  PROVE  StatusAgreesWithSizes'
<1>1. SUFFICES ASSUME NEW r \in Requests, Faultless',
                      row'[r].status \in TerminalStatuses,
                      row'[r].error = "none"
      PROVE  LET done == {s \in Asked(r)' : sizeStatus'[r][s] = "completed"} IN
             /\ \A s \in Asked(r)' \ done : sizeStatus'[r][s] = "failed"
             /\ row'[r].status = "completed" <=> done = Asked(r)'
             /\ row'[r].status = "failed" <=> done = {}
  BY DEF StatusAgreesWithSizes
<1>faults. Faultless
  BY <1>1, FaultsStay
<1>same. CASE /\ row'[r].status = row[r].status
              /\ row'[r].error = row[r].error
              /\ sizeStatus'[r] = sizeStatus[r]
  <2>1. Asked(r)' = Asked(r)
    BY <1>same DEF Asked
  <2>2. QED
    BY <1>1, <1>same, <1>faults, <2>1 DEF StatusAgreesWithSizes
<1>2. ASSUME NEW h \in Handlers, RunJob(h), call[h].req = r
      PROVE  \/ /\ row'[r].status = row[r].status
                /\ row'[r].error = row[r].error
                /\ sizeStatus'[r] = sizeStatus[r]
             \/ /\ Finish(h) /\ call[h].todo = {}
                /\ row'[r].status = FinalStatus(call[h].won, Asked(r))
  <2>0. HandleStep(h)
    BY <1>2 DEF RunJob
  <2>1. CASE MarkNextBad(h) \/ MarkSizeCompleted(h) \/ MarkSizeFailed(h)
    <3>1. UNCHANGED row
      BY <2>1 DEF MarkNextBad, MarkSizeCompleted, MarkSizeFailed
    <3>2. pc[h] \in {"limits", "errors", "succeed", "giveup"}
      BY <2>1, MarkNextBadDoes, MarkSizeCompletedDoes, OtherStepsDo
    <3>3. \/ row[r].status = "processing"
          \/ row[r].error = "interrupted"
      BY <1>2, <3>2 DEF StatusOf, Working, JobSteps
    <3>4. QED
      BY <1>1, <3>1, <3>3 DEF TerminalStatuses
  <2>2. CASE UNCHANGED sizeStatus
    <3>1. CASE Fail(h) /\ row' # row
      <4>1. call[h].error # "none"
        BY <3>1, OtherStepsDo DEF StatusOf
      <4>2. row'[r].error = call[h].error
        <5>1. row' = [row EXCEPT ![r].status = "failed",
                                 ![r].error = call[h].error]
          BY <1>2, <3>1 DEF Fail
        <5>2. QED
          BY <5>1 DEF StateOK, TablesTypeOK, RequestRow
      <4>3. QED
        BY <4>1, <4>2, <1>1
    <3>2. CASE ~(Fail(h) /\ row' # row)
      BY <1>1, <1>2, <2>0, <2>2, <3>2, JobRowDoes DEF TerminalStatuses
    <3>3. QED
      BY <3>1, <3>2
  <2>3. QED
    BY <2>0, <2>1, <2>2, JobFrames
<1>3. ASSUME NEW h \in Handlers, Finish(h), RunJob(h), call[h].req = r,
             call[h].todo = {},
             row'[r].status = FinalStatus(call[h].won, Asked(r))
      PROVE  LET done == {s \in Asked(r)' : sizeStatus'[r][s] = "completed"} IN
             /\ \A s \in Asked(r)' \ done : sizeStatus'[r][s] = "failed"
             /\ row'[r].status = "completed" <=> done = Asked(r)'
             /\ row'[r].status = "failed" <=> done = {}
  <2>1. pc[h] = "persist"
    BY <1>3, OtherStepsDo
  <2>2. UNCHANGED sizeStatus /\ Asked(r)' = Asked(r)
    BY <1>3 DEF Finish, Asked
  <2>3. /\ Unfinished(r) = call[h].todo \cup call[h].bad \cup Current(h)
        /\ Finished(r) = call[h].won /\ call[h].bad = {} /\ Current(h) = {}
    BY <1>3, <1>faults, <2>1
       DEF SizesInv, SizesOf, LocalSets, Storing, Current, SizeSteps
  <2>4. Unfinished(r) = {} /\ Finished(r) = call[h].won
    BY <1>3, <2>3
  <2>5. {s \in Asked(r) : sizeStatus[r][s] = "completed"} = call[h].won
    BY <2>4 DEF Finished, Asked
  <2>6. \A s \in Asked(r) \ call[h].won : sizeStatus[r][s] = "failed"
    BY <2>4 DEF Finished, Unfinished, Asked, StateOK, TablesTypeOK,
                SizeStatuses
  <2>7. Asked(r) # {}
    BY <1>3, <2>1 DEF AskedInv, AskedOf
  <2>8. /\ FinalStatus(call[h].won, Asked(r)) = "completed"
               <=> call[h].won = Asked(r)
        /\ FinalStatus(call[h].won, Asked(r)) = "failed" <=> call[h].won = {}
    BY <2>7 DEF FinalStatus
  <2>9. /\ Asked(r)' = Asked(r)
        /\ {s \in Asked(r)' : sizeStatus'[r][s] = "completed"} = call[h].won
        /\ \A s \in Asked(r)' \ call[h].won : sizeStatus'[r][s] = "failed"
    BY <2>2, <2>5, <2>6
  <2>10. /\ row'[r].status = "completed" <=> call[h].won = Asked(r)'
         /\ row'[r].status = "failed" <=> call[h].won = {}
    BY <1>3, <2>8, <2>9
  <2>11. QED
    BY <2>9, <2>10
<1>4. ASSUME NEW h \in Handlers, RunJob(h)
      PROVE  LET done == {s \in Asked(r)' : sizeStatus'[r][s] = "completed"} IN
             /\ \A s \in Asked(r)' \ done : sizeStatus'[r][s] = "failed"
             /\ row'[r].status = "completed" <=> done = Asked(r)'
             /\ row'[r].status = "failed" <=> done = {}
  <2>1. CASE call[h].req = r
    BY <1>4, <2>1, <1>2, <1>3, <1>same
  <2>2. CASE call[h].req # r
    BY <1>4, <2>2, <1>same, JobIsLocal DEF RunJob
  <2>3. QED
    BY <2>1, <2>2
<1>5. ASSUME NEW h \in Handlers,
             \/ CreateRequest(h) \/ CheckRetryable(h) \/ PutUploadedFile(h)
             \/ RecordSourcePath(h) \/ ResetRequest(h) \/ Acquire(h)
             \/ Return(h)
      PROVE  /\ row'[r].status = row[r].status
             /\ row'[r].error = row[r].error
             /\ sizeStatus'[r] = sizeStatus[r]
  <2>1. CASE CreateRequest(h)
    BY <1>1, <2>1, CreateRequestDoes DEF OthersKept, TerminalStatuses
  <2>2. CASE ResetRequest(h)
    BY <1>1, <2>2, ResetRequestDoes DEF OthersKept, TerminalStatuses
  <2>3. CASE RecordSourcePath(h)
    BY <2>3, RecordSourcePathDoes DEF OthersKept
  <2>4. CASE \/ CheckRetryable(h) \/ PutUploadedFile(h) \/ Acquire(h)
             \/ Return(h)
    BY <2>4, CheckRetryableDoes, PutUploadedFileDoes, SlotStepsDo DEF tables
  <2>5. QED
    BY <1>5, <2>1, <2>2, <2>3, <2>4
<1>6. CASE \/ SweepStaleProcessingRequests \/ UNCHANGED vars \/ Crash
           \/ \E h \in Handlers : Tick(h)
           \/ \E q \in Requests : Lapse(q) \/ Stall(q)
  <2>1. /\ row'[r].status = row[r].status
        /\ row'[r].error = row[r].error
        /\ sizeStatus'[r] = sizeStatus[r]
    BY <1>1, <1>6, SweepDoes, BeatStepsDo, CrashDoes
       DEF SameButBeat, vars, tables
  <2>2. QED
    BY <1>same, <2>1
<1>7. QED
  BY <1>same, <1>4, <1>5, <1>6 DEF Next, Progress

(***************************************************************************)
(* The rows behind the successes counted.                                  *)
(***************************************************************************)
WonOf(h) ==
  /\ pc[h] \in Storing => call[h].won \subseteq Recorded(call[h].req)
  /\ pc[h] = "succeed" => call[h].size \in Recorded(call[h].req)

\* An attempt rolls back only the row of the size it is at.
LEMMA JobKeepsWon ==
  ASSUME StateOK, NEW h \in Handlers, HandleStep(h), LocalSets(h), WonOf(h)
  PROVE  WonOf(h)'
<1>types. /\ output \in [Requests -> [Sizes -> Nat \cup {NoRow}]]
          /\ pc[h] \in JobSteps /\ call[h] \in Calls
          /\ pc[h] \in SizeSteps => call[h].size \in Sizes
  BY JobGoto DEF StateOK, TablesTypeOK, LocalsOK
<1>1. PICK r \in Requests : call[h].req = r
  BY <1>types DEF StateOK, LocalsOK, JobSteps
<1>2. call'[h].req = r
  BY <1>1, JobIsLocal
<1>3. UNCHANGED output => Recorded(r)' = Recorded(r)
  BY DEF Recorded
<1>4. CASE pc'[h] \notin Storing
  BY <1>4, PhasesDiffer DEF WonOf, SizeSteps
<1>5. CASE /\ OutputHashFor(h) /\ pc[h] = "errors" /\ SameSizes(h)
           /\ pc'[h] \in {"persist", "fail"}
  <2>1. call'[h].won = {}
    BY <1>5 DEF LocalSets, Marking, SameSizes
  <2>2. QED
    BY <1>5, <2>1 DEF WonOf
<1>6. CASE LookupOutput(h) /\ pc[h] = "persist"
  <2>1. UNCHANGED output /\ call[h].won \subseteq Recorded(r)
    BY <1>1, <1>6, PhasesDiffer DEF LookupOutput, tables, WonOf
  <2>2. call'[h].won = call[h].won
    BY <1>6, LookupOutputDoes
  <2>3. pc'[h] = "succeed" => call'[h].size \in Recorded(r)
    <3>1. pc'[h] = "succeed" => /\ output[r][call'[h].size] # NoRow
                                /\ call'[h].size \in Sizes
      BY <1>1, <1>6, <1>types, LookupOutputDoes DEF Calls
    <3>2. QED
      BY <3>1 DEF Recorded
  <2>4. QED
    BY <1>2, <1>3, <2>1, <2>2, <2>3 DEF WonOf
<1>7. CASE /\ CreateOutput(h) \/ PutOutput(h) \/ Rollback(h)
              \/ RecordStoragePath(h)
           /\ pc[h] \in SizeSteps /\ SameSizes(h)
  <2> DEFINE s == call[h].size
  <2>1. /\ call[h].won \subseteq Recorded(r) /\ s \notin call[h].won
        /\ s \in Sizes
    BY <1>1, <1>7, <1>types, PhasesDiffer DEF WonOf, LocalSets
  <2>2. ASSUME NEW x, output' = [output EXCEPT ![r][s] = x]
        PROVE  /\ Recorded(r) \ {s} \subseteq Recorded(r)'
               /\ x # NoRow => s \in Recorded(r)'
    BY <2>1, <2>2, <1>types DEF Recorded
  <2>3. PICK x : output' = [output EXCEPT ![r][s] = x] \/ output' = output
    BY <1>1, <1>7
       DEF CreateOutput, PutOutput, Rollback, RecordStoragePath, tables
  <2>4. call[h].won \subseteq Recorded(r)'
    BY <1>3, <2>1, <2>2, <2>3
  <2>5. pc'[h] = "succeed" => s \in Recorded(r)'
    <3>1. pc'[h] = "succeed" => RecordStoragePath(h)
      BY <1>7, OtherStepsDo
    <3>2. ASSUME RecordStoragePath(h), pc'[h] = "succeed"
          PROVE  output' = [output EXCEPT ![r][s] = call[h].hash]
      BY <1>1, <3>2, StepFacts DEF RecordStoragePath
    <3>3. call[h].hash # NoRow
      BY <1>types DEF Calls, NoRow
    <3>4. QED
      BY <2>2, <3>1, <3>2, <3>3
  <2>6. QED
    BY <1>2, <1>7, <2>4, <2>5 DEF WonOf, SameSizes
<1>8. CASE MarkSizeCompleted(h) /\ pc[h] = "succeed" /\ pc'[h] = "persist"
  <2>1. /\ call[h].won \subseteq Recorded(r) /\ call[h].size \in Recorded(r)
        /\ UNCHANGED output
    BY <1>1, <1>8, PhasesDiffer
       DEF WonOf, MarkSizeCompleted, SizeSteps
  <2>2. call'[h].won = call[h].won \cup {call[h].size}
    BY <1>8, MarkSizeCompletedDoes
  <2>3. QED
    BY <1>2, <1>3, <1>8, <2>1, <2>2 DEF WonOf
<1>9. CASE /\ MarkSizeFailed(h) /\ pc[h] = "giveup" /\ pc'[h] = "persist"
           /\ SameSizes(h)
  <2>1. call[h].won \subseteq Recorded(r) /\ UNCHANGED output
    BY <1>1, <1>9, PhasesDiffer DEF WonOf, MarkSizeFailed, SizeSteps
  <2>2. QED
    BY <1>2, <1>3, <1>9, <2>1 DEF WonOf, SameSizes
<1>10. CASE Inspect(h) \/ ProcessSizes(h)
  <2>1. pc'[h] \in {"limits", "errors", "fail", "cleanup"}
    BY <1>10, InspectDoes, ProcessSizesDoes
  <2>2. QED
    BY <1>4, <2>1, PhasesDiffer DEF Marking
<1>11. CASE \/ pc'[h] \in (Starting \ {"reset"}) \cup {"fail", "return"}
            \/ pc[h] \in Marking /\ pc'[h] = pc[h]
            \/ pc'[h] \in {"cleanup", "return"}
  BY <1>4, <1>11, PhasesDiffer
<1>12. QED
  BY <1>5, <1>6, <1>7, <1>8, <1>9, <1>10, <1>11, JobPhases

\* The steps around Handle count nothing.
LEMMA NextKeepsWon ==
  ASSUME StateOK, OneAttempt, OneAttempt', SizesInv,
         \A h \in Handlers : WonOf(h), [Next]_vars
  PROVE  \A h \in Handlers : WonOf(h)'
<1>req. \A g \in Handlers : pc[g] # "idle" => call[g].req \in Requests
  BY DEF StateOK, LocalsOK
<1>away. \A g \in Handlers : pc'[g] \notin Storing => WonOf(g)'
  BY PhasesDiffer DEF WonOf, SizeSteps
<1>1. ASSUME NEW g \in Handlers, pc'[g] = pc[g], call'[g] = call[g],
             \A q \in Requests : call[g].req = q => output'[q] = output[q]
      PROVE  WonOf(g)'
  <2>1. CASE pc[g] # "idle"
    <3>1. PICK r \in Requests : call[g].req = r
      BY <2>1, <1>req
    <3>2. Recorded(r)' = Recorded(r)
      BY <3>1, <1>1 DEF Recorded
    <3>3. QED
      BY <3>1, <3>2, <1>1 DEF WonOf
  <2>2. QED
    BY <1>1, <1>away, <2>1, PhasesDiffer
<1>2. ASSUME NEW h \in Handlers,
             \/ CreateRequest(h) \/ CheckRetryable(h) \/ Acquire(h)
             \/ Progress(h)
      PROVE  \A g \in Handlers : WonOf(g)'
  <2>1. \A g \in Handlers \ {h} : WonOf(g)'
    BY <1>1, <1>2, OneMoves DEF Untouched
  <2>2. CASE RunJob(h)
    BY <2>1, <2>2, JobKeepsWon DEF RunJob, SizesInv
  <2>3. CASE ~RunJob(h)
    <3>1. pc'[h] \in {"upload", "record", "reset", "acquire", "load", "idle"}
      BY <1>2, <2>3, CreateRequestDoes, CheckRetryableDoes, SlotStepsDo,
         PutUploadedFileDoes, RecordSourcePathDoes, ResetRequestDoes
         DEF Progress
    <3>2. pc'[h] \notin Storing
      BY <3>1 DEF Storing, SizeSteps
    <3>3. QED
      BY <2>1, <3>2, <1>away
  <2>4. QED
    BY <2>2, <2>3
<1>3. CASE \/ SweepStaleProcessingRequests \/ UNCHANGED vars
           \/ \E h \in Handlers : Tick(h)
           \/ \E r \in Requests : Lapse(r) \/ Stall(r)
  <2>1. UNCHANGED <<output, pc, call>>
    BY <1>3, SweepDoes, BeatStepsDo DEF vars
  <2>2. QED
    BY <1>1, <2>1
<1>4. CASE Crash
  BY <1>4, <1>away, CrashDoes, PhasesDiffer
<1>5. QED
  BY <1>2, <1>3, <1>4 DEF Next

(***************************************************************************)
(* Heartbeats.                                                             *)
(***************************************************************************)
\* No heartbeat has been lost for so long that its row could look abandoned.
Unstalled == spent["stall"] = 0

\* While heartbeats land, a working attempt is never taken for abandoned.
BeatOf(h) ==
  Unstalled /\ pc[h] \in Working =>
    /\ call[h].beating
    /\ row[call[h].req].beat = "fresh"
    /\ row[call[h].req].status = "processing"

\* A stall is noted too.
LEMMA StallsStay ==
  ASSUME StateOK, [Next]_vars
  PROVE  /\ Unstalled' => Unstalled
         /\ \A r \in Requests : Stall(r) => ~Unstalled'
<1>1. ASSUME NEW k, Spend(k), Unstalled'
      PROVE  Unstalled /\ k # "stall"
  BY <1>1 DEF Spend, Unstalled, StateOK, TablesTypeOK, Kinds
<1>2. QED
  BY <1>1, StepsSpend DEF Unstalled, Stall

\* The heartbeat starts with the status and stops after the terminal write.
LEMMA JobKeepsBeating ==
  ASSUME StateOK, NEW h \in Handlers, HandleStep(h), BeatOf(h),
         Unstalled' => Unstalled
  PROVE  BeatOf(h)'
<1>1. PICK r \in Requests : call[h].req = r
  BY JobGoto DEF StateOK, LocalsOK, JobSteps
<1>2. call'[h].req = r
  BY <1>1, JobIsLocal
<1>3. CASE pc'[h] \notin Working
  BY <1>3 DEF BeatOf
<1>4. CASE MarkProcessing(h) /\ pc'[h] \in Working
  <2>1. pc'[h] = "sizes" /\ call'[h].beating
    BY <1>4, MarkProcessingDoes DEF Working, JobSteps
  <2>2. row' = [row EXCEPT ![r].status = "processing",
                           ![r].started = TRUE, ![r].beat = "fresh"]
    BY <1>1, <1>4, <2>1, StepFacts DEF MarkProcessing
  <2>3. row'[r].status = "processing" /\ row'[r].beat = "fresh"
    BY <2>2 DEF StateOK, TablesTypeOK, RequestRow
  <2>4. QED
    BY <1>2, <2>1, <2>3 DEF BeatOf
<1>5. CASE ~MarkProcessing(h) /\ pc'[h] \in Working
  <2>1. ~LoadRequest(h) /\ ~Finish(h) /\ ~Fail(h) /\ ~CleanupSource(h)
    BY <1>5, LoadRequestDoes, OtherStepsDo DEF Working, JobSteps
  <2>2. pc[h] \in Working
    <3>1. pc[h] \in JobSteps
      BY JobGoto
    <3>2. pc[h] \notin {"load", "mark"}
      BY <1>5, <2>1, JobBegins
    <3>3. pc[h] # "cleanup"
      <4>1. CASE LoadSizes(h) \/ Inspect(h) \/ MarkNextBad(h)
        BY <4>1, LoadSizesDoes, InspectDoes, MarkNextBadDoes
      <4>2. CASE ProcessSizes(h) \/ OutputHashFor(h)
        BY <4>2, ProcessSizesDoes, OutputHashForDoes
      <4>3. CASE LookupOutput(h) \/ MarkSizeCompleted(h)
        BY <4>3, LookupOutputDoes, MarkSizeCompletedDoes
      <4>4. QED
        BY <1>5, <2>1, <4>1, <4>2, <4>3, OtherStepsDo DEF HandleStep
    <3>4. QED
      BY <3>1, <3>2, <3>3 DEF Working
  <2>3. Unstalled => /\ call[h].beating /\ row[r].beat = "fresh"
                     /\ row[r].status = "processing"
    BY <1>1, <2>2 DEF BeatOf
  <2>4. call'[h].beating = call[h].beating
    BY <1>5, <2>1, JobFrames, OutputHashForDoes DEF SameRun
  <2>5. row'[r].beat = row[r].beat /\ row'[r].status = row[r].status
    BY <1>1, <1>5, <2>1, JobRowDoes
  <2>6. QED
    BY <1>2, <2>3, <2>4, <2>5 DEF BeatOf
<1>6. QED
  BY <1>3, <1>4, <1>5

\* No row that beats lapses or is swept.
LEMMA NextKeepsBeating ==
  ASSUME StateOK, OneAttempt, OneAttempt', \A h \in Handlers : BeatOf(h),
         [Next]_vars
  PROVE  \A h \in Handlers : BeatOf(h)'
<1>req. \A g \in Handlers : pc[g] # "idle" => call[g].req \in Requests
  BY DEF StateOK, LocalsOK
<1>stalls. Unstalled' => Unstalled
  BY StallsStay
<1>away. \A g \in Handlers : pc'[g] \notin Working => BeatOf(g)'
  BY DEF BeatOf
<1>idle. "idle" \notin Working
  BY DEF Working, JobSteps
<1>1. ASSUME NEW g \in Handlers, pc'[g] = pc[g], call'[g] = call[g],
             \A q \in Requests : Unstalled' /\ call[g].req = q =>
               /\ row'[q].beat = row[q].beat \/ row'[q].beat = "fresh"
               /\ \/ row'[q].status = row[q].status
                  \/ row[q].beat # "fresh"
      PROVE  BeatOf(g)'
  <2>1. CASE pc[g] \in Working /\ Unstalled'
    <3>1. PICK r \in Requests : call[g].req = r
      BY <2>1, <1>req, <1>idle
    <3>2. /\ call[g].beating /\ row[r].beat = "fresh"
          /\ row[r].status = "processing"
      BY <2>1, <3>1, <1>stalls DEF BeatOf
    <3>3. QED
      BY <2>1, <3>1, <3>2, <1>1 DEF BeatOf
  <2>2. QED
    BY <1>1, <2>1, <1>away DEF BeatOf
<1>2. ASSUME NEW h \in Handlers,
             \/ CreateRequest(h) \/ CheckRetryable(h) \/ Acquire(h)
             \/ Progress(h)
      PROVE  \A g \in Handlers : BeatOf(g)'
  <2>1. \A g \in Handlers \ {h} : BeatOf(g)'
    BY <1>1, <1>2, OneMoves DEF Untouched
  <2>2. CASE RunJob(h)
    BY <2>1, <2>2, <1>stalls, JobKeepsBeating DEF RunJob
  <2>3. CASE ~RunJob(h)
    <3>1. pc'[h] \in {"upload", "record", "reset", "acquire", "load", "idle"}
      BY <1>2, <2>3, CreateRequestDoes, CheckRetryableDoes, SlotStepsDo,
         PutUploadedFileDoes, RecordSourcePathDoes, ResetRequestDoes
         DEF Progress
    <3>2. pc'[h] \notin Working
      BY <3>1 DEF Working, JobSteps
    <3>3. QED
      BY <2>1, <3>2, <1>away
  <2>4. QED
    BY <2>2, <2>3
<1>3. ASSUME NEW h \in Handlers, Tick(h)
      PROVE  \A g \in Handlers : BeatOf(g)'
  <2>1. /\ UNCHANGED <<pc, call>>
        /\ row' = [row EXCEPT ![call[h].req].beat = "fresh"]
    BY <1>3 DEF Tick, Heartbeat
  <2>2. \A q \in Requests :
          /\ row'[q].beat = row[q].beat \/ row'[q].beat = "fresh"
          /\ row'[q].status = row[q].status
    BY <2>1 DEF StateOK, TablesTypeOK, RequestRow
  <2>3. QED
    BY <1>1, <2>1, <2>2
<1>4. CASE SweepStaleProcessingRequests
  <2>1. /\ UNCHANGED <<pc, call>>
        /\ \A r \in Requests : /\ ~Abandoned(r) => row'[r] = row[r]
                               /\ row'[r].beat = row[r].beat
                               /\ Abandoned(r) => row[r].beat # "fresh"
    BY ZenonT(30), <1>4 DEF SweepStaleProcessingRequests, Swept, Abandoned, StateOK,
                TablesTypeOK, RequestRow
  <2>2. QED
    BY <1>1, <2>1
<1>5. ASSUME NEW r \in Requests, Lapse(r)
      PROVE  \A g \in Handlers : BeatOf(g)'
  <2>1. /\ UNCHANGED <<pc, call>> /\ ~Beating(r)
        /\ row' = [row EXCEPT ![r].beat = "stale"]
    BY <1>5 DEF Lapse, Age
  <2>2. \A q \in Requests \ {r} : row'[q] = row[q]
    BY <2>1 DEF StateOK, TablesTypeOK
  <2>3. ASSUME NEW g \in Handlers PROVE BeatOf(g)'
    <3>1. CASE call[g].req = r
      <4>1. ~(Unstalled /\ pc[g] \in Working)
        BY <2>1, <3>1 DEF BeatOf, Beating
      <4>2. QED
        BY <2>1, <4>1, <1>stalls DEF BeatOf
    <3>2. CASE call[g].req # r
      BY <1>1, <2>1, <2>2, <3>2
    <3>3. QED
      BY <3>1, <3>2
  <2>4. QED
    BY <2>3
<1>6. ASSUME NEW r \in Requests, Stall(r)
      PROVE  \A g \in Handlers : BeatOf(g)'
  BY <1>6, StallsStay DEF BeatOf
<1>7. CASE Crash
  BY <1>7, <1>away, <1>idle, CrashDoes
<1>8. CASE UNCHANGED vars
  BY <1>1, <1>8 DEF vars
<1>9. QED
  BY <1>2, <1>3, <1>4, <1>5, <1>6, <1>7, <1>8 DEF Next

(***************************************************************************)
(* The theorems.                                                           *)
(***************************************************************************)
\* Everything that is true of a lone attempt.
AloneInv ==
  /\ \A h \in Handlers : StatusOf(h) /\ HashOf(h) /\ WonOf(h) /\ BeatOf(h)
  /\ SizesInv /\ SharedHash /\ StatusAgreesWithSizes

\* Idle goroutines and empty tables agree.
LEMMA InitAlone ==
  ASSUME Init
  PROVE  AloneInv
<1>1. \A h \in Handlers : pc[h] = "idle"
  BY DEF Init
<1>2. \A h \in Handlers : StatusOf(h) /\ HashOf(h) /\ WonOf(h) /\ BeatOf(h)
  BY <1>1, PhasesDiffer
     DEF StatusOf, HashOf, WonOf, BeatOf, Waiting, Working, JobSteps
<1>3. SizesInv
  BY <1>1, PhasesDiffer DEF SizesInv, LocalSets, SizesOf
<1>4. SharedHash /\ StatusAgreesWithSizes
  BY DEF Init, TablesInit, AbsentRow, SharedHash, Served, TerminalStatuses,
         StatusAgreesWithSizes
<1>5. QED
  BY <1>2, <1>3, <1>4 DEF AloneInv

\* As long as no two goroutines work on one request, what an attempt knows, what
\* the tables say and what is served agree in every reachable state.
THEOREM LoneAttemptsAgree == Spec /\ []OneAttempt => []AloneInv
<1>1. Init => AloneInv
  BY InitAlone
<1>2. /\ Inv /\ AttemptInv /\ OneAttempt /\ OneAttempt' /\ AloneInv
      /\ [Next]_vars
      => AloneInv'
  <2>1. SUFFICES ASSUME StateOK, AskedInv, OneAttempt, OneAttempt', AloneInv,
                        [Next]_vars
                 PROVE  AloneInv'
    BY DEF Inv, AttemptInv
  <2>2. \A h \in Handlers : StatusOf(h)'
    BY <2>1, NextKeepsStatus DEF AloneInv
  <2>3. SharedHash' /\ \A h \in Handlers : HashOf(h)'
    BY <2>1, NextKeepsHash DEF AloneInv
  <2>4. SizesInv' /\ \A h \in Handlers : WonOf(h)'
    BY <2>1, NextKeepsSizes, NextKeepsWon DEF AloneInv
  <2>5. \A h \in Handlers : BeatOf(h)'
    BY <2>1, NextKeepsBeating DEF AloneInv
  <2>6. StatusAgreesWithSizes'
    BY <2>1, NextKeepsAgreement DEF AloneInv
  <2>7. QED
    BY <2>2, <2>3, <2>4, <2>5, <2>6 DEF AloneInv
<1>3. QED
  BY <1>1, <1>2, Invariance, AttemptsAreSound, PTL DEF Spec

\* The hypothesis is met by a server that runs one goroutine at a time.
LEMMA LoneHandlerIsAlone ==
  ASSUME NEW h, Handlers = {h}
  PROVE  Spec => []OneAttempt
<1>1. OneAttempt
  BY DEF OneAttempt
<1>2. QED
  BY <1>1, PTL

\* One hash names all that is ever served for a request.
THEOREM OneHashPerRequest == Spec /\ []OneAttempt => []SharedHash
<1>1. AloneInv => SharedHash
  BY DEF AloneInv
<1>2. QED
  BY <1>1, LoneAttemptsAgree, PTL

\* The status an attempt ends with counts the size rows.
THEOREM StatusCountsSizes == Spec /\ []OneAttempt => []StatusAgreesWithSizes
<1>1. AloneInv => StatusAgreesWithSizes
  BY DEF AloneInv
<1>2. QED
  BY <1>1, LoneAttemptsAgree, PTL

\* The upload is removed by an attempt that has written its terminal status.
THEOREM SourceOutlivesWork == Spec /\ []OneAttempt => SourceKeptUntilDone
<1>1. ASSUME StateOK, AloneInv, [Next]_vars, NEW r \in Requests,
             Faultless, upload[r] # "none", upload'[r] = "none"
      PROVE  row[r].status \in TerminalStatuses
  <2>1. PICK h \in Handlers : CleanupSource(h) /\ call[h].req = r
    <3>1. ASSUME NEW h \in Handlers, RunJob(h)
          PROVE  CleanupSource(h) /\ call[h].req = r
      BY <1>1, <3>1, JobIsLocal, JobFrames DEF RunJob
    <3>2. ASSUME NEW h \in Handlers PROVE ~PutUploadedFile(h)
      <4>1. SUFFICES ASSUME PutUploadedFile(h) PROVE FALSE
        OBVIOUS
      <4>2. PICK image \in Images \cup {upload[call[h].req]} :
              upload' = [upload EXCEPT ![call[h].req] = image]
        BY <1>1, <4>1 DEF PutUploadedFile, StateOK, TablesTypeOK
      <4>3. "none" \notin Images
        BY TablesAssumption DEF ImageKinds
      <4>4. QED
        BY <1>1, <4>2, <4>3 DEF StateOK, TablesTypeOK
    <3>3. ASSUME NEW h \in Handlers,
                 \/ CreateRequest(h) \/ CheckRetryable(h) \/ ResetRequest(h)
                 \/ RecordSourcePath(h) \/ Acquire(h) \/ Return(h)
          PROVE  FALSE
      BY <1>1, <3>3, CreateRequestDoes, CheckRetryableDoes, ResetRequestDoes,
         RecordSourcePathDoes, SlotStepsDo DEF disks
    <3>4. ~ \/ SweepStaleProcessingRequests \/ UNCHANGED vars \/ Crash
            \/ \E h \in Handlers : Tick(h)
            \/ \E q \in Requests : Lapse(q) \/ Stall(q)
      BY <1>1, SweepDoes, BeatStepsDo, CrashDoes DEF disks, vars
    <3>5. QED
      BY <1>1, <3>1, <3>2, <3>3, <3>4 DEF Next, Progress
  <2>2. pc[h] = "cleanup"
    BY <2>1 DEF CleanupSource, At
  <2>3. QED
    BY <1>1, <2>1, <2>2 DEF AloneInv, StatusOf
<1>2. Inv /\ AloneInv /\ [Next]_vars =>
        [\A r \in Requests :
           Faultless /\ upload[r] # "none" /\ upload'[r] = "none" =>
             row[r].status \in TerminalStatuses]_vars
  BY <1>1 DEF Inv
<1>3. QED
  BY <1>2, Invariance, LoneAttemptsAgree, PTL DEF Spec, SourceKeptUntilDone

(***************************************************************************)
(* The refinement of RequestLifecycle, one abstract action after another.  *)
(***************************************************************************)

\* What a step leaves alone in the abstract state.
KeepsAsked    == \A q \in Requests : Asked(q)' = Asked(q)
KeepsRecorded == \A q \in Requests : Recorded(q)' = Recorded(q)
KeepsServed   == \A q \in Requests : Served(q)' = Served(q)
KeepsStatusBut(r) ==
  \A q \in Requests \ {r} : row'[q].status = row[q].status

\* A step that changes none of the four is a stutter.
LEMMA Stutters ==
  ASSUME \A q \in Requests : row'[q].status = row[q].status,
         KeepsAsked, KeepsRecorded, KeepsServed
  PROVE  UNCHANGED Lifecycle!vars
BY DEF KeepsAsked, KeepsRecorded, KeepsServed, Lifecycle!vars

\* A change of one status is the abstract change.
LEMMA Becoming ==
  ASSUME NEW r \in Requests, NEW from, NEW to, row[r].status \in from,
         row'[r].status = to, KeepsStatusBut(r)
  PROVE  Lifecycle!Becomes(r, from, to)
BY DEF KeepsStatusBut, Lifecycle!Becomes

\* A created request.
LEMMA Creates ==
  ASSUME NEW r \in Requests, row[r].status = "absent",
         row'[r].status = "pending", KeepsStatusBut(r),
         Asked(r)' # {}, \A q \in Requests \ {r} : Asked(q)' = Asked(q),
         KeepsRecorded, KeepsServed
  PROVE  Lifecycle!Create(r)
<1>1. Lifecycle!Becomes(r, {"absent"}, "pending")
  BY Becoming
<1>2. Asked(r)' \in (SUBSET Sizes) \ {{}}
  BY DEF Asked
<1>3. \E sizes \in (SUBSET Sizes) \ {{}} :
        [q \in Requests |-> Asked(q)'] =
          [[q \in Requests |-> Asked(q)] EXCEPT ![r] = sizes]
  BY <1>2
<1>4. QED
  BY <1>1, <1>3 DEF Lifecycle!Create, KeepsRecorded, KeepsServed

\* An output row created for a size that had none.
LEMMA Records ==
  ASSUME NEW r \in Requests, row[r].status = "processing",
         NEW s \in Asked(r), s \notin Recorded(r),
         Recorded(r)' = Recorded(r) \cup {s},
         \A q \in Requests \ {r} : Recorded(q)' = Recorded(q),
         \A q \in Requests : row'[q].status = row[q].status,
         KeepsAsked, KeepsServed
  PROVE  Lifecycle!Record(r)
BY ZenonT(30) DEF Lifecycle!Record, KeepsAsked, KeepsServed

\* An empty row taken back.
LEMMA Forgets ==
  ASSUME NEW r \in Requests, row[r].status = "processing",
         NEW s \in Recorded(r), s \notin Served(r),
         Recorded(r)' = Recorded(r) \ {s},
         \A q \in Requests \ {r} : Recorded(q)' = Recorded(q),
         \A q \in Requests : row'[q].status = row[q].status,
         KeepsAsked, KeepsServed
  PROVE  Lifecycle!Forget(r)
BY DEF Lifecycle!Forget, KeepsAsked, KeepsServed

\* A path written into an empty row.
LEMMA Serves ==
  ASSUME NEW r \in Requests, row[r].status = "processing",
         NEW s \in Recorded(r), s \notin Served(r),
         Served(r)' = Served(r) \cup {s},
         \A q \in Requests \ {r} : Served(q)' = Served(q),
         \A q \in Requests : row'[q].status = row[q].status,
         KeepsAsked, KeepsRecorded
  PROVE  Lifecycle!Serve(r)
BY ZenonT(30) DEF Lifecycle!Serve, KeepsAsked, KeepsRecorded

\* A status written at the beginning, at the end and by a retry.
LEMMA ChangesStatus ==
  ASSUME NEW r \in Requests, KeepsStatusBut(r),
         KeepsAsked, KeepsRecorded, KeepsServed
  PROVE  /\ row[r].status = "pending" /\ row'[r].status = "processing" =>
              Lifecycle!Begin(r)
         /\ row[r].status = "processing" /\
            \/ row'[r].status = "completed" /\ Recorded(r) = Asked(r)
            \/ row'[r].status = "partially_completed" /\ Recorded(r) # {}
            \/ row'[r].status = "failed"
            => Lifecycle!Finish(r)
         /\ row[r].status \in RetryableStatuses
            /\ row'[r].status = "pending" => Lifecycle!Retry(r)
<1>1. UNCHANGED <<[q \in Requests |-> Asked(q)],
                  [q \in Requests |-> Recorded(q)],
                  [q \in Requests |-> Served(q)]>>
  BY DEF KeepsAsked, KeepsRecorded, KeepsServed
<1>2. ASSUME row[r].status = "processing",
             \/ row'[r].status = "completed" /\ Recorded(r) = Asked(r)
             \/ row'[r].status = "partially_completed" /\ Recorded(r) # {}
             \/ row'[r].status = "failed"
      PROVE  Lifecycle!Finish(r)
  <2>1. \/ /\ Lifecycle!Becomes(r, {"processing"}, "completed")
           /\ Recorded(r) = Asked(r)
        \/ /\ Lifecycle!Becomes(r, {"processing"}, "partially_completed")
           /\ Recorded(r) # {}
        \/ Lifecycle!Becomes(r, {"processing"}, "failed")
    BY <1>2, Becoming
  <2>2. QED
    BY <1>1, <2>1 DEF Lifecycle!Finish
<1>3. QED
  BY <1>1, <1>2, Becoming
     DEF Lifecycle!Begin, Lifecycle!Retry, RetryableStatuses

\* The sweep gives up several requests at once.
LEMMA Interrupts ==
  ASSUME NEW lost \in (SUBSET Requests) \ {{}},
         \A q \in lost : row[q].status = "processing"
                         /\ row'[q].status = "failed",
         \A q \in Requests \ lost : row'[q].status = row[q].status,
         KeepsAsked, KeepsRecorded, KeepsServed
  PROVE  Lifecycle!Interrupt
<1>1. UNCHANGED <<[q \in Requests |-> Asked(q)],
                  [q \in Requests |-> Recorded(q)],
                  [q \in Requests |-> Served(q)]>>
  BY DEF KeepsAsked, KeepsRecorded, KeepsServed
<1>2. [q \in Requests |-> row'[q].status] =
        [q \in Requests |-> IF q \in lost THEN "failed"
                            ELSE [p \in Requests |-> row[p].status][q]]
  OBVIOUS
<1>3. \A q \in lost : [p \in Requests |-> row[p].status][q] = "processing"
  OBVIOUS
<1>4. QED
  BY <1>1, <1>2, <1>3 DEF Lifecycle!Interrupt

\* While heartbeats land, a statement of Handle is a step of the life cycle of
\* its request, or no step of it.
LEMMA JobImplements ==
  ASSUME StateOK, AskedInv, OneWriterPerRow, Unstalled, NEW h \in Handlers,
         HandleStep(h), StatusOf(h), WonOf(h), BeatOf(h)
  PROVE  [Lifecycle!Next]_(Lifecycle!vars)
<1>1. PICK r \in Requests : call[h].req = r
  BY JobGoto DEF StateOK, LocalsOK, JobSteps
<1>types. /\ output \in [Requests -> [Sizes -> Nat \cup {NoRow}]]
          /\ call[h] \in Calls
          /\ pc[h] \in SizeSteps => call[h].size \in Asked(r)
  <2>1. pc[h] # "idle"
    BY JobGoto DEF JobSteps
  <2>2. QED
    BY <1>1, <2>1 DEF StateOK, TablesTypeOK, AskedInv, AskedOf
<1>asked. KeepsAsked
  BY JobKeepsAsked DEF KeepsAsked
<1>rows. KeepsStatusBut(r)
  BY <1>1, JobIsLocal DEF KeepsStatusBut
<1>same. ~MarkProcessing(h) /\ ~Finish(h) /\ ~Fail(h) =>
           \A q \in Requests : row'[q].status = row[q].status
  BY <1>1, <1>rows, JobRowDoes DEF KeepsStatusBut
<1>output. UNCHANGED output => KeepsRecorded /\ KeepsServed
  BY DEF KeepsRecorded, KeepsServed, Recorded, Served
<1>working. pc[h] \in Working => row[r].status = "processing"
  BY <1>1 DEF BeatOf
<1>2. CASE MarkProcessing(h)
  <2>1. UNCHANGED output /\ pc[h] = "mark"
    BY <1>2, MarkProcessingDoes DEF MarkProcessing
  <2>2. row[r].status = "pending"
    BY <1>1, <2>1 DEF StatusOf, Waiting
  <2>3. row'[r].status = "processing" \/ UNCHANGED row
    <3>1. ~Finish(h) /\ ~Fail(h) /\ ~OutputHashFor(h)
      BY <2>1, OtherStepsDo, OutputHashForDoes
    <3>2. QED
      BY <1>1, <3>1, JobRowDoes
  <2>4. CASE row'[r].status = "processing"
    BY <1>asked, <1>rows, <1>output, <2>1, <2>2, <2>4, ChangesStatus
       DEF Lifecycle!Next
  <2>5. CASE UNCHANGED row
    BY <1>asked, <1>output, <2>1, <2>5, Stutters
  <2>6. QED
    BY <2>3, <2>4, <2>5
<1>3. CASE Finish(h)
  <2>1. UNCHANGED output /\ pc[h] = "persist"
    BY <1>3, OtherStepsDo DEF Finish
  <2>2. row[r].status = "processing"
    BY <1>working, <2>1 DEF Working, JobSteps
  <2>3. call[h].won \subseteq Recorded(r) /\ Recorded(r) \subseteq Asked(r)
    BY <1>1, <2>1 DEF WonOf, Storing, AskedInv
  <2>4. row'[r].status = FinalStatus(call[h].won, Asked(r)) \/ UNCHANGED row
    <3>1. ~MarkProcessing(h) /\ ~Fail(h) /\ ~OutputHashFor(h)
      BY <2>1, OtherStepsDo, OutputHashForDoes, MarkProcessingDoes
    <3>2. QED
      BY <1>1, <3>1, JobRowDoes
  <2>5. CASE row'[r].status = FinalStatus(call[h].won, Asked(r))
    <3>1. \/ row'[r].status = "completed" /\ Recorded(r) = Asked(r)
          \/ row'[r].status = "partially_completed" /\ Recorded(r) # {}
          \/ row'[r].status = "failed"
      BY <2>3, <2>5 DEF FinalStatus
    <3>2. QED
      BY <1>asked, <1>rows, <1>output, <2>1, <2>2, <3>1, ChangesStatus
         DEF Lifecycle!Next
  <2>6. CASE UNCHANGED row
    BY <1>asked, <1>output, <2>1, <2>6, Stutters
  <2>7. QED
    BY <2>4, <2>5, <2>6
<1>4. CASE Fail(h)
  <2>1. UNCHANGED output /\ pc[h] = "fail"
    BY <1>4, OtherStepsDo DEF Fail
  <2>2. row[r].status = "processing"
    BY <1>working, <2>1 DEF Working, JobSteps
  <2>3. row'[r].status = "failed" \/ UNCHANGED row
    <3>1. ~MarkProcessing(h) /\ ~Finish(h) /\ ~OutputHashFor(h)
      BY <2>1, OtherStepsDo, OutputHashForDoes, MarkProcessingDoes
    <3>2. QED
      BY <1>1, <3>1, JobRowDoes
  <2>4. CASE row'[r].status = "failed"
    BY <1>asked, <1>rows, <1>output, <2>1, <2>2, <2>4, ChangesStatus
       DEF Lifecycle!Next
  <2>5. CASE UNCHANGED row
    BY <1>asked, <1>output, <2>1, <2>5, Stutters
  <2>6. QED
    BY <2>3, <2>4, <2>5
<1>5. ASSUME NEW s \in Asked(r), NEW path \in Nat \cup {NoRow},
             pc[h] \in SizeSteps, call[h].size = s,
             \A q \in Requests : row'[q].status = row[q].status,
             output' = [output EXCEPT ![r][s] = path]
      PROVE  /\ s \in Sizes /\ row[r].status = "processing"
             /\ output'[r][s] = path
             /\ \A t \in Sizes \ {s} : output'[r][t] = output[r][t]
             /\ \A q \in Requests \ {r} : /\ Recorded(q)' = Recorded(q)
                                          /\ Served(q)' = Served(q)
  <2>1. s \in Sizes
    BY DEF Asked
  <2>2. row[r].status = "processing"
    BY <1>working, <1>5 DEF SizeSteps, Working, JobSteps
  <2>3. QED
    BY <1>types, <1>5, <2>1, <2>2 DEF Recorded, Served
<1>6. CASE CreateOutput(h)
  <2>1. PICK s \in Asked(r) : call[h].size = s
    BY <1>6, <1>types, OtherStepsDo DEF SizeSteps
  <2>2. /\ pc[h] \in SizeSteps
        /\ \A q \in Requests : row'[q].status = row[q].status
    BY <1>6, OtherStepsDo DEF CreateOutput, SizeSteps
  <2>3. CASE UNCHANGED output
    BY <1>asked, <1>output, <2>2, <2>3, Stutters
  <2>4. CASE /\ output[r][s] = NoRow
             /\ output' = [output EXCEPT ![r][s] = EmptyPath]
    <3>1. /\ s \in Sizes /\ row[r].status = "processing"
          /\ output'[r][s] = EmptyPath
          /\ \A t \in Sizes \ {s} : output'[r][t] = output[r][t]
          /\ \A q \in Requests \ {r} : /\ Recorded(q)' = Recorded(q)
                                       /\ Served(q)' = Served(q)
      BY <1>5, <2>1, <2>2, <2>4 DEF EmptyPath
    <3>2. /\ s \notin Recorded(r) /\ Recorded(r)' = Recorded(r) \cup {s}
          /\ Served(r)' = Served(r)
      BY <2>4, <3>1 DEF Recorded, Served, EmptyPath, NoRow
    <3>3. KeepsServed
      BY <3>1, <3>2 DEF KeepsServed
    <3>4. Lifecycle!Record(r)
      BY <1>asked, <2>2, <3>1, <3>2, <3>3, Records
    <3>5. QED
      BY <3>4 DEF Lifecycle!Next
  <2>5. QED
    BY <1>1, <1>6, <2>1, <2>3, <2>4 DEF CreateOutput
<1>7. CASE Rollback(h)
  <2>1. PICK s \in Asked(r) : call[h].size = s
    BY <1>7, <1>types, OtherStepsDo DEF SizeSteps
  <2>2. /\ pc[h] \in SizeSteps
        /\ \A q \in Requests : row'[q].status = row[q].status
    BY <1>7, OtherStepsDo DEF Rollback, SizeSteps
  <2>3. CASE UNCHANGED output
    BY <1>asked, <1>output, <2>2, <2>3, Stutters
  <2>4. CASE output' = [output EXCEPT ![r][s] = NoRow]
    <3>1. /\ s \in Sizes /\ row[r].status = "processing"
          /\ output'[r][s] = NoRow
          /\ \A t \in Sizes \ {s} : output'[r][t] = output[r][t]
          /\ \A q \in Requests \ {r} : /\ Recorded(q)' = Recorded(q)
                                       /\ Served(q)' = Served(q)
      BY <1>5, <2>1, <2>2, <2>4
    <3>2. output[r][s] = EmptyPath
      BY <1>1, <1>7, <2>1, OtherStepsDo DEF OneWriterPerRow
    <3>3. /\ s \in Recorded(r) /\ s \notin Served(r)
          /\ Recorded(r)' = Recorded(r) \ {s} /\ Served(r)' = Served(r)
      BY <3>1, <3>2 DEF Recorded, Served, EmptyPath, NoRow
    <3>4. KeepsServed
      BY <3>1, <3>3 DEF KeepsServed
    <3>5. Lifecycle!Forget(r)
      BY <1>asked, <2>2, <3>1, <3>3, <3>4, Forgets
    <3>6. QED
      BY <3>5 DEF Lifecycle!Next
  <2>5. QED
    BY <1>1, <1>7, <2>1, <2>3, <2>4 DEF Rollback
<1>8. CASE RecordStoragePath(h)
  <2>1. PICK s \in Asked(r) : call[h].size = s
    BY <1>8, <1>types, OtherStepsDo DEF SizeSteps
  <2>2. /\ pc[h] \in SizeSteps
        /\ \A q \in Requests : row'[q].status = row[q].status
    BY <1>8, OtherStepsDo DEF RecordStoragePath, SizeSteps
  <2>3. CASE UNCHANGED output
    BY <1>asked, <1>output, <2>2, <2>3, Stutters
  <2>4. ASSUME NEW path \in Nat, output' = [output EXCEPT ![r][s] = path]
        PROVE  [Lifecycle!Next]_(Lifecycle!vars)
    <3>1. /\ s \in Sizes /\ row[r].status = "processing"
          /\ output'[r][s] = path
          /\ \A t \in Sizes \ {s} : output'[r][t] = output[r][t]
          /\ \A q \in Requests \ {r} : /\ Recorded(q)' = Recorded(q)
                                       /\ Served(q)' = Served(q)
      BY <1>5, <2>1, <2>2, <2>4
    <3>2. output[r][s] = EmptyPath
      BY <1>1, <1>8, <2>1, OtherStepsDo DEF OneWriterPerRow
    <3>3. /\ s \in Recorded(r) /\ s \notin Served(r)
          /\ Recorded(r)' = Recorded(r)
          /\ path = EmptyPath => Served(r)' = Served(r)
          /\ path # EmptyPath => Served(r)' = Served(r) \cup {s}
      BY <3>1, <3>2 DEF Recorded, Served, EmptyPath, NoRow
    <3>4. KeepsRecorded
      BY <3>1, <3>3 DEF KeepsRecorded
    <3>5. CASE path = EmptyPath
      BY <1>asked, <2>2, <3>1, <3>3, <3>4, <3>5, Stutters DEF KeepsServed
    <3>6. CASE path # EmptyPath
      <4>1. Lifecycle!Serve(r)
        BY <1>asked, <2>2, <3>1, <3>3, <3>4, <3>6, Serves
      <4>2. QED
        BY <4>1 DEF Lifecycle!Next
    <3>7. QED
      BY <3>5, <3>6
  <2>5. call[h].hash \in Nat
    BY <1>types DEF Calls
  <2>6. QED
    BY <1>1, <1>8, <2>1, <2>3, <2>4, <2>5 DEF RecordStoragePath
<1>9. CASE /\ ~MarkProcessing(h) /\ ~Finish(h) /\ ~Fail(h)
           /\ ~CreateOutput(h) /\ ~Rollback(h) /\ ~RecordStoragePath(h)
  <2>1. UNCHANGED output
    BY <1>9, JobFrames
  <2>2. QED
    BY <1>9, <1>asked, <1>same, <1>output, <2>1, Stutters
<1>10. QED
  BY <1>2, <1>3, <1>4, <1>6, <1>7, <1>8, <1>9

\* So is every other step.
LEMMA NextImplements ==
  ASSUME Inv, AskedInv, AloneInv, Unstalled, [Next]_vars
  PROVE  [Lifecycle!Next]_(Lifecycle!vars)
<1>types. StateOK /\ OneWriterPerRow
  BY DEF Inv, StorageInv
<1>output. UNCHANGED output => KeepsRecorded /\ KeepsServed
  BY DEF KeepsRecorded, KeepsServed, Recorded, Served
<1>sizes. UNCHANGED sizeStatus => KeepsAsked
  BY DEF KeepsAsked, Asked
<1>1. ASSUME NEW h \in Handlers, CreateRequest(h)
      PROVE  [Lifecycle!Next]_(Lifecycle!vars)
  <2>1. PICK r \in Requests :
          /\ OthersKept(r) /\ row[r].status = "absent"
          /\ row'[r].status = "pending" /\ Asked(r)' # {}
    BY <1>1, <1>types, CreateRequestDoes
  <2>2. UNCHANGED output
    BY <1>1, <1>types, CreateRequestDoes
  <2>3. /\ KeepsStatusBut(r)
        /\ \A q \in Requests \ {r} : Asked(q)' = Asked(q)
    BY <2>1 DEF OthersKept, KeepsStatusBut, Asked
  <2>4. Lifecycle!Create(r)
    BY <1>output, <2>1, <2>2, <2>3, Creates
  <2>5. QED
    BY <2>4 DEF Lifecycle!Next
<1>2. ASSUME NEW h \in Handlers, ResetRequest(h)
      PROVE  [Lifecycle!Next]_(Lifecycle!vars)
  <2>1. PICK r \in Requests : call[h].req = r
    BY <1>2, <1>types, ResetRequestDoes
  <2>2. UNCHANGED output /\ KeepsAsked /\ KeepsStatusBut(r)
    BY <1>2, <1>types, <2>1, ResetRequestDoes
       DEF OthersKept, KeepsAsked, KeepsStatusBut
  <2>3. row[r].status \in RetryableStatuses
    BY <1>2, <1>types, <2>1, ResetRequestDoes DEF AloneInv, StatusOf
  <2>4. row'[r].status = "pending" \/ UNCHANGED row
    BY <1>2, <1>types, <2>1, ResetRequestDoes
  <2>5. CASE row'[r].status = "pending"
    BY <1>output, <2>2, <2>3, <2>5, ChangesStatus DEF Lifecycle!Next
  <2>6. CASE UNCHANGED row
    BY <1>output, <2>2, <2>6, Stutters
  <2>7. QED
    BY <2>4, <2>5, <2>6
<1>3. ASSUME NEW h \in Handlers,
             \/ CheckRetryable(h) \/ PutUploadedFile(h) \/ RecordSourcePath(h)
             \/ Acquire(h) \/ Return(h)
      PROVE  [Lifecycle!Next]_(Lifecycle!vars)
  <2>1. UNCHANGED <<sizeStatus, output>>
    BY <1>3, <1>types, CheckRetryableDoes, PutUploadedFileDoes,
       RecordSourcePathDoes, SlotStepsDo DEF tables
  <2>2. \A q \in Requests : row'[q].status = row[q].status
    <3>1. CASE RecordSourcePath(h)
      BY <3>1, <1>types, RecordSourcePathDoes DEF OthersKept
    <3>2. CASE UNCHANGED row
      BY <3>2
    <3>3. QED
      BY <1>3, <1>types, <3>1, <3>2, CheckRetryableDoes, PutUploadedFileDoes,
         SlotStepsDo DEF tables
  <2>3. QED
    BY <1>output, <1>sizes, <2>1, <2>2, Stutters
<1>4. ASSUME NEW h \in Handlers, RunJob(h)
      PROVE  [Lifecycle!Next]_(Lifecycle!vars)
  BY <1>4, <1>types, JobImplements DEF RunJob, AloneInv
<1>5. CASE SweepStaleProcessingRequests
  <2> DEFINE lost == {q \in Requests : Abandoned(q)}
  <2>1. lost \in (SUBSET Requests) \ {{}}
    BY <1>5 DEF SweepStaleProcessingRequests
  <2>2. UNCHANGED <<sizeStatus, output>>
    BY <1>5, <1>types, SweepDoes
  <2>3. /\ \A q \in lost : /\ row[q].status = "processing"
                           /\ row'[q].status = "failed"
        /\ \A q \in Requests \ lost : row'[q].status = row[q].status
    BY <1>5, <1>types
       DEF SweepStaleProcessingRequests, Abandoned, Swept, StateOK,
           TablesTypeOK, RequestRow
  <2>4. Lifecycle!Interrupt
    <3> HIDE DEF lost
    <3>1. QED
      BY <1>output, <1>sizes, <2>1, <2>2, <2>3, Interrupts
  <2>5. QED
    BY <2>4 DEF Lifecycle!Next
<1>6. CASE \/ UNCHANGED vars \/ Crash
           \/ \E h \in Handlers : Tick(h)
           \/ \E r \in Requests : Lapse(r) \/ Stall(r)
  <2>1. /\ UNCHANGED <<sizeStatus, output>>
        /\ \A q \in Requests : row'[q].status = row[q].status
    BY <1>6, <1>types, BeatStepsDo, CrashDoes DEF SameButBeat, tables, vars
  <2>2. QED
    BY <1>output, <1>sizes, <2>1, Stutters
<1>7. QED
  BY <1>1, <1>2, <1>3, <1>4, <1>5, <1>6 DEF Next, Progress

\* As long as no two goroutines work on one request and heartbeats land, the
\* service implements the life cycle of RequestLifecycle: whatever crashes,
\* failing statements, sweeps and retries come between, a request moves as it
\* promises.
THEOREM ServiceImplementsLifecycle ==
  Spec /\ []OneAttempt /\ []Unstalled => ImplementsLifecycle
<1>1. Init => Lifecycle!Init
  BY DEF Init, TablesInit, AbsentRow, Asked, Recorded, Served, Lifecycle!Init
<1>2. /\ Inv /\ AttemptInv /\ AloneInv /\ Unstalled /\ [Next]_vars
      => [Lifecycle!Next]_(Lifecycle!vars)
  BY NextImplements DEF AttemptInv
<1>3. QED
  BY <1>1, <1>2, Invariance, AttemptsAreSound, LoneAttemptsAgree, PTL
     DEF Spec, ImplementsLifecycle, Lifecycle!Spec

\* Heartbeats land when none may stall.
LEMMA NoStalls ==
  ASSUME MaxStalls = 0
  PROVE  Spec => []Unstalled
<1>1. Init => Unstalled
  BY DEF Init, TablesInit, Unstalled
<1>2. StateOK /\ Unstalled /\ [Next]_vars => Unstalled'
  <2>1. SUFFICES ASSUME StateOK, Unstalled, [Next]_vars PROVE Unstalled'
    OBVIOUS
  <2>2. ~Spend("stall")
    BY <2>1 DEF Spend, Budget, Unstalled
  <2>3. QED
    BY <2>1, <2>2, StepsSpend
       DEF Spend, Unstalled, StateOK, TablesTypeOK, Kinds
<1>3. QED
  BY <1>1, <1>2, StateTyped, PTL DEF Spec

\* So a server that runs one goroutine at a time, and never loses every tick of
\* a heartbeat, implements the life cycle without further hypotheses.
THEOREM LoneServerImplementsLifecycle ==
  ASSUME NEW h, Handlers = {h}, MaxStalls = 0
  PROVE  Spec => ImplementsLifecycle
<1>1. (Spec => []OneAttempt) /\ (Spec => []Unstalled)
  BY LoneHandlerIsAlone, NoStalls
<1>2. QED
  BY <1>1, ServiceImplementsLifecycle, PTL

(***************************************************************************)
(* What is behind a size that is done and a row that is empty, however     *)
(* many attempts overlap.                                                  *)
(***************************************************************************)

\* Paths are made of a hash that was drawn.
HashDrawn(h) == pc[h] \in Storing => call[h].hash # NoHash

\* While nothing fails and no process dies, an empty output row is the work of a
\* goroutine that is about to store the object or to record its path.
Writer(r, s) ==
  \E h \in Handlers : /\ pc[h] \in {"put", "path"}
                      /\ call[h].req = r /\ call[h].size = s

EmptyIsWritten ==
  Undisturbed => \A r \in Requests : \A s \in Sizes :
                   output[r][s] = EmptyPath => Writer(r, s)

\* While no statement fails, a size marked completed has its output row.
DoneIsRecorded ==
  Faultless => \A r \in Requests : Finished(r) \subseteq Recorded(r)

WritingInv ==
  (\A h \in Handlers : HashDrawn(h)) /\ EmptyIsWritten /\ DoneIsRecorded

\* persistOutput is entered with a hash only.
LEMMA JobKeepsDrawn ==
  ASSUME StateOK, NEW h \in Handlers, HandleStep(h), HashDrawn(h)
  PROVE  HashDrawn(h)'
<1>1. CASE OutputHashFor(h)
  <2>1. PICK r \in Requests : call[h].req = r
    BY JobGoto DEF StateOK, LocalsOK, JobSteps
  <2>2. minted[r] \in Nat
    BY DEF StateOK, TablesTypeOK
  <2>3. \/ call'[h].hash = call[h].hash /\ call[h].hash # NoHash
        \/ call'[h].hash = minted[r] + 1
        \/ pc'[h] = "fail"
    BY <1>1, <2>1, OutputHashForDoes DEF SameRun
  <2>4. minted[r] + 1 # NoHash
    BY <2>2 DEF NoHash
  <2>5. QED
    BY <2>3, <2>4, PhasesDiffer DEF HashDrawn
<1>2. CASE ~OutputHashFor(h) /\ pc'[h] \in Storing
  <2>1. pc[h] \in Storing
    <3>1. CASE Inspect(h) \/ ProcessSizes(h)
      <4>1. pc'[h] \in {"limits", "errors", "fail", "cleanup"}
        BY <3>1, InspectDoes, ProcessSizesDoes
      <4>2. QED
        BY <1>2, <4>1, PhasesDiffer DEF Marking
    <3>2. CASE ~Inspect(h) /\ ~ProcessSizes(h)
      <4>1. \/ pc[h] \in SizeSteps \cup {"persist"}
            \/ pc'[h] \in Starting \cup Marking
                            \cup {"fail", "return", "cleanup"}
        BY <1>2, <3>2, JobPhases DEF SizeSteps
      <4>2. QED
        BY <1>2, <4>1, PhasesDiffer
    <3>3. QED
      BY <3>1, <3>2
  <2>2. ~LoadRequest(h) /\ ~MarkProcessing(h)
    BY <2>1, LoadRequestDoes, MarkProcessingDoes DEF Storing, SizeSteps
  <2>3. call'[h].hash = call[h].hash
    BY <1>2, <2>2, JobFrames DEF SameRun
  <2>4. QED
    BY <2>1, <2>3 DEF HashDrawn
<1>3. QED
  BY <1>1, <1>2 DEF HashDrawn

\* An empty row is created by its writer, which leaves it only with a path.
LEMMA JobKeepsWriters ==
  ASSUME StateOK, NEW h \in Handlers, HandleStep(h), HashDrawn(h),
         EmptyIsWritten, Undisturbed, Undisturbed',
         NEW r \in Requests, NEW s \in Sizes, output'[r][s] = EmptyPath
  PROVE  Writer(r, s)'
<1>types. /\ output \in [Requests -> [Sizes -> Nat \cup {NoRow}]]
          /\ call[h] \in Calls
  BY DEF StateOK, TablesTypeOK
<1>stay. \A g \in Handlers \ {h} : pc'[g] = pc[g] /\ call'[g] = call[g]
  BY JobIsLocal
<1>req. call'[h].req = call[h].req
  BY JobIsLocal
<1>fault. ~Spend("fault")
  BY SpendIsNoted DEF StateOK, TablesTypeOK, Undisturbed
<1>1. CASE /\ CreateOutput(h) /\ pc'[h] = "put"
           /\ call[h].req = r /\ call[h].size = s
  <2>1. call'[h].size = s
    BY <1>1 DEF CreateOutput
  <2>2. QED
    BY <1>1, <1>req, <2>1 DEF Writer
<1>2. ASSUME output[r][s] = EmptyPath,
             pc[h] \in {"put", "path"} =>
               \/ call[h].req # r \/ call[h].size # s
               \/ pc'[h] \in {"put", "path"} /\ call'[h].size = call[h].size
      PROVE  Writer(r, s)'
  <2>1. PICK g \in Handlers : /\ pc[g] \in {"put", "path"}
                              /\ call[g].req = r /\ call[g].size = s
    BY <1>2 DEF EmptyIsWritten, Writer
  <2>2. CASE g = h
    BY <1>2, <1>req, <2>1, <2>2 DEF Writer
  <2>3. CASE g # h
    BY <1>stay, <2>1, <2>3 DEF Writer
  <2>4. QED
    BY <2>2, <2>3
<1>3. CASE CreateOutput(h)
  <2>1. pc[h] \notin {"put", "path"}
    BY <1>3, OtherStepsDo
  <2>2. CASE output[r][s] = EmptyPath
    BY <1>2, <2>1, <2>2
  <2>3. CASE output[r][s] # EmptyPath
    <3>1. /\ output' = [output EXCEPT ![call[h].req][call[h].size] = EmptyPath]
          /\ Goto(h, "put")
      BY <1>3, <2>3 DEF CreateOutput
    <3>2. call[h].req = r /\ call[h].size = s
      BY <1>types, <2>3, <3>1
    <3>3. QED
      BY <1>1, <1>3, <3>1, <3>2, StepFacts
  <2>4. QED
    BY <2>2, <2>3
<1>4. CASE Rollback(h)
  <2>1. pc[h] \notin {"put", "path"}
    BY <1>4, OtherStepsDo
  <2>2. output[r][s] = EmptyPath
    BY <1>4, <1>types DEF Rollback, EmptyPath, NoRow
  <2>3. QED
    BY <1>2, <2>1, <2>2
<1>5. CASE RecordStoragePath(h)
  <2>1. /\ output' = [output EXCEPT ![call[h].req][call[h].size] = call[h].hash]
        /\ call[h].hash # EmptyPath
    <3>1. pc[h] \in Storing
      BY <1>5, OtherStepsDo DEF Storing, SizeSteps
    <3>2. QED
      BY <1>5, <1>fault, <3>1
         DEF RecordStoragePath, HashDrawn, NoHash, EmptyPath
  <2>2. output[r][s] = EmptyPath /\ (call[h].req # r \/ call[h].size # s)
    BY <1>types, <2>1
  <2>3. QED
    BY <1>2, <2>2
<1>6. CASE ~CreateOutput(h) /\ ~Rollback(h) /\ ~RecordStoragePath(h)
  <2>1. output[r][s] = EmptyPath
    BY <1>6, JobFrames
  <2>2. pc[h] \in {"put", "path"} => pc'[h] \in {"put", "path"} /\ SameSizes(h)
    <3>1. SUFFICES ASSUME pc[h] \in {"put", "path"}
                   PROVE  pc'[h] \in {"put", "path"} /\ SameSizes(h)
      OBVIOUS
    <3>2. PutOutput(h)
      BY ZenonT(30), <1>6, <3>1, LoadRequestDoes, MarkProcessingDoes, LoadSizesDoes,
         InspectDoes, MarkNextBadDoes, ProcessSizesDoes, OutputHashForDoes,
         LookupOutputDoes, MarkSizeCompletedDoes, OtherStepsDo DEF HandleStep
    <3>3. pc'[h] \in {"put", "path"}
      BY <3>2, OtherStepsDo DEF Undisturbed
    <3>4. SameSizes(h)
      BY <3>2, SameLocals DEF PutOutput
    <3>5. QED
      BY <3>3, <3>4
  <2>3. QED
    BY <1>2, <2>1, <2>2 DEF SameSizes
<1>7. QED
  BY <1>3, <1>4, <1>5, <1>6

\* A size is marked completed with its row there, and no row goes.
LEMMA JobKeepsDone ==
  ASSUME StateOK, AskedInv, NEW h \in Handlers, HandleStep(h),
         RecordedOf(h), Faultless', NEW r \in Requests,
         Finished(r) \subseteq Recorded(r)
  PROVE  Finished(r)' \subseteq Recorded(r)'
<1>1. Recorded(r) \subseteq Recorded(r)'
  BY JobKeepsRecorded
<1>failing. ASSUME NEW q, NEW t,
                   sizeStatus' = [sizeStatus EXCEPT ![q][t] = "failed"],
                   NEW s \in Finished(r)'
            PROVE  s \in Finished(r)
  BY <1>failing DEF Finished, StateOK, TablesTypeOK
<1>2. ASSUME NEW s \in Finished(r)'
      PROVE  \/ s \in Finished(r)
             \/ s \in Recorded(r)
  <2>1. CASE UNCHANGED sizeStatus
    BY <2>1, <1>2 DEF Finished
  <2>2. CASE MarkNextBad(h)
    <3>1. PICK t \in call[h].bad :
            \/ sizeStatus' = [sizeStatus EXCEPT ![call[h].req][t] = "failed"]
            \/ UNCHANGED sizeStatus
      BY <2>2, MarkNextBadDoes
    <3>2. CASE sizeStatus' = [sizeStatus EXCEPT ![call[h].req][t] = "failed"]
      BY <1>2, <3>2, <1>failing
    <3>3. QED
      BY <2>1, <3>1, <3>2
  <2>3. CASE MarkSizeFailed(h)
    <3>1. \/ sizeStatus' = [sizeStatus EXCEPT
                              ![call[h].req][call[h].size] = "failed"]
          \/ UNCHANGED sizeStatus
      BY <2>3 DEF MarkSizeFailed
    <3>2. QED
      BY <1>2, <2>1, <3>1, <1>failing
  <2>4. CASE MarkSizeCompleted(h)
    <3>1. \/ sizeStatus' = [sizeStatus EXCEPT
                              ![call[h].req][call[h].size] = "completed"]
          \/ UNCHANGED sizeStatus
      BY <2>4, MarkSizeCompletedDoes
    <3>2. call[h].size \in Recorded(call[h].req)
      BY <2>4, MarkSizeCompletedDoes DEF RecordedOf
    <3>3. \/ s \in Finished(r)
          \/ call[h].req = r /\ call[h].size = s
      BY <1>2, <3>1 DEF Finished, StateOK, TablesTypeOK
    <3>4. QED
      BY <3>2, <3>3
  <2>5. QED
    BY <2>1, <2>2, <2>3, <2>4, JobFrames
<1>3. QED
  BY <1>1, <1>2

\* The steps around Handle mark nothing and write no path.
LEMMA NextKeepsWriting ==
  ASSUME StateOK, AskedInv, RecordedInv, WritingInv, [Next]_vars
  PROVE  WritingInv'
<1>faults. /\ Faultless' => Faultless
           /\ Undisturbed' => Undisturbed
  BY FaultsStay
<1>1. ASSUME NEW h \in Handlers, RunJob(h)
      PROVE  WritingInv'
  <2>1. HandleStep(h) /\ \A g \in Handlers \ {h} : pc'[g] = pc[g]
                                                 /\ call'[g] = call[g]
    BY <1>1, JobIsLocal DEF RunJob
  <2>2. \A g \in Handlers : HashDrawn(g)'
    BY <2>1, JobKeepsDrawn DEF WritingInv, HashDrawn
  <2>3. EmptyIsWritten'
    BY <1>faults, <2>1, JobKeepsWriters DEF WritingInv, EmptyIsWritten
  <2>4. DoneIsRecorded'
    BY <1>faults, <2>1, JobKeepsDone
       DEF WritingInv, DoneIsRecorded, RecordedInv
  <2>5. QED
    BY <2>2, <2>3, <2>4 DEF WritingInv
<1>2. ASSUME NEW h \in Handlers,
             \/ CreateRequest(h) \/ CheckRetryable(h) \/ PutUploadedFile(h)
             \/ RecordSourcePath(h) \/ ResetRequest(h) \/ Acquire(h)
             \/ Return(h)
      PROVE  WritingInv'
  <2>1. OthersStay(h) /\ UNCHANGED output
    BY <1>2, CreateRequestDoes, CheckRetryableDoes, PutUploadedFileDoes,
       RecordSourcePathDoes, ResetRequestDoes, SlotStepsDo DEF tables
  <2>2. /\ pc[h] \in {"idle", "upload", "record", "reset", "acquire", "return"}
        /\ pc'[h] \in {"upload", "record", "reset", "acquire", "load", "idle"}
    BY <1>2, CreateRequestDoes, CheckRetryableDoes, SlotStepsDo,
       PutUploadedFileDoes, RecordSourcePathDoes, ResetRequestDoes
  <2>3. \A g \in Handlers : HashDrawn(g)'
    BY <2>1, <2>2 DEF WritingInv, HashDrawn, OthersStay, Storing, SizeSteps
  <2>4. EmptyIsWritten'
    <3>1. ASSUME NEW r \in Requests, NEW s \in Sizes, Writer(r, s)
          PROVE  Writer(r, s)'
      BY <2>1, <2>2, <3>1 DEF Writer, OthersStay
    <3>2. QED
      BY <1>faults, <2>1, <3>1 DEF WritingInv, EmptyIsWritten
  <2>5. \A r \in Requests : Finished(r)' \subseteq Finished(r)
    <3>1. CASE CreateRequest(h)
      <4>1. PICK r \in Requests :
              /\ OthersKept(r)
              /\ \A s \in Asked(r)' : sizeStatus'[r][s] = "pending"
        BY <3>1, CreateRequestDoes
      <4>2. Finished(r)' = {}
        BY <4>1 DEF Finished, Asked
      <4>3. QED
        BY <4>1, <4>2 DEF OthersKept, Finished
    <3>2. CASE ResetRequest(h)
      <4>1. PICK r \in Requests : call[h].req = r
        BY <3>2, ResetRequestDoes
      <4>2. \/ UNCHANGED sizeStatus
            \/ \A s \in Asked(r)' : sizeStatus'[r][s] = "pending"
        BY <3>2, <4>1, ResetRequestDoes
      <4>3. OthersKept(r)
        BY <3>2, <4>1, ResetRequestDoes
      <4>4. QED
        BY <4>2, <4>3 DEF OthersKept, Finished, Asked
    <3>3. CASE UNCHANGED sizeStatus
      BY <3>3 DEF Finished
    <3>4. QED
      BY <1>2, <3>1, <3>2, <3>3, CheckRetryableDoes, PutUploadedFileDoes,
         RecordSourcePathDoes, SlotStepsDo DEF tables
  <2>6. DoneIsRecorded'
    BY <1>faults, <2>1, <2>5 DEF WritingInv, DoneIsRecorded, Recorded
  <2>7. QED
    BY <2>3, <2>4, <2>6 DEF WritingInv
<1>3. CASE \/ SweepStaleProcessingRequests \/ UNCHANGED vars
           \/ \E h \in Handlers : Tick(h)
           \/ \E r \in Requests : Lapse(r) \/ Stall(r)
  <2>1. UNCHANGED <<sizeStatus, output, pc, call>>
    BY <1>3, SweepDoes, BeatStepsDo DEF vars
  <2>2. QED
    BY <1>faults, <2>1
       DEF WritingInv, HashDrawn, EmptyIsWritten, Writer, DoneIsRecorded,
           Finished, Recorded
<1>4. CASE Crash
  <2>1. UNCHANGED <<sizeStatus, output>> /\ ~Undisturbed'
    BY <1>4, CrashDoes DEF tables
  <2>2. \A g \in Handlers : HashDrawn(g)'
    BY <1>4, CrashDoes, PhasesDiffer DEF HashDrawn
  <2>3. QED
    BY <1>faults, <2>1, <2>2
       DEF WritingInv, EmptyIsWritten, DoneIsRecorded, Finished, Recorded
<1>5. QED
  BY <1>1, <1>2, <1>3, <1>4 DEF Next, Progress

\* A size marked completed has its row and an empty row has its writer, in every
\* interleaving, unless a statement fails or a process dies.
THEOREM WorkIsAccountedFor == Spec => []WritingInv
<1>1. Init => WritingInv
  <2>1. SUFFICES ASSUME Init PROVE WritingInv
    OBVIOUS
  <2>2. \A h \in Handlers : HashDrawn(h)
    BY <2>1, PhasesDiffer DEF Init, HashDrawn
  <2>3. EmptyIsWritten /\ DoneIsRecorded
    BY <2>1 DEF Init, TablesInit, EmptyIsWritten, DoneIsRecorded, Finished,
                EmptyPath, NoRow
  <2>4. QED
    BY <2>2, <2>3 DEF WritingInv
<1>2. Inv /\ AttemptInv /\ WritingInv /\ [Next]_vars => WritingInv'
  BY NextKeepsWriting DEF Inv, AttemptInv
<1>3. QED
  BY <1>1, <1>2, Invariance, AttemptsAreSound, PTL DEF Spec

(***************************************************************************)
(* What a lone attempt leaves, and that it stays.                          *)
(***************************************************************************)

\* A run that returns has left a terminal status, if no statement failed.
EndOf(h) ==
  Faultless /\ pc[h] = "return" => row[call[h].req].status \in TerminalStatuses

\* While heartbeats land, only a failed request has an error message.
OnlyFailuresHaveErrors ==
  Unstalled => \A r \in Requests :
                 row[r].status # "failed" => row[r].error = "none"

EndInv == (\A h \in Handlers : EndOf(h)) /\ OnlyFailuresHaveErrors

\* Handle returns early only on a terminal row or an error.
LEMMA JobKeepsEnd ==
  ASSUME StateOK, NEW h \in Handlers, HandleStep(h), StatusOf(h),
         Faultless' => Faultless
  PROVE  EndOf(h)'
<1>1. PICK r \in Requests : call[h].req = r
  BY JobGoto DEF StateOK, LocalsOK, JobSteps
<1>2. call'[h].req = r
  BY <1>1, JobIsLocal
<1>3. SUFFICES ASSUME Faultless', pc'[h] = "return"
               PROVE  row'[r].status \in TerminalStatuses
  BY <1>2 DEF EndOf
<1>4. CASE LoadRequest(h)
  <2>1. row[r].status \in TerminalStatuses
    BY <1>1, <1>3, <1>4, LoadRequestDoes
  <2>2. QED
    BY <1>4, <2>1 DEF LoadRequest, tables
<1>5. CASE Fail(h)
  <2>1. row' = [row EXCEPT ![r].status = "failed", ![r].error = call[h].error]
    BY <1>1, <1>3, <1>5, StepFacts DEF Fail
  <2>2. QED
    BY <2>1 DEF TerminalStatuses, StateOK, TablesTypeOK, RequestRow
<1>6. CASE CleanupSource(h)
  <2>1. row[r].status \in TerminalStatuses
    BY <1>1, <1>3, <1>6, OtherStepsDo DEF StatusOf
  <2>2. QED
    BY <1>6, <2>1 DEF CleanupSource, tables
<1>7. CASE MarkProcessing(h) \/ LoadSizes(h) \/ Inspect(h) \/ MarkNextBad(h)
  BY <1>3, <1>7, MarkProcessingDoes, LoadSizesDoes, InspectDoes,
     MarkNextBadDoes
<1>8. CASE \/ ProcessSizes(h) \/ OutputHashFor(h) \/ LookupOutput(h)
           \/ MarkSizeCompleted(h)
  BY <1>3, <1>8, ProcessSizesDoes, OutputHashForDoes, LookupOutputDoes,
     MarkSizeCompletedDoes
<1>9. CASE \/ CreateOutput(h) \/ PutOutput(h) \/ Rollback(h)
           \/ RecordStoragePath(h) \/ MarkSizeFailed(h) \/ Finish(h)
  BY <1>3, <1>9, OtherStepsDo
<1>10. QED
  BY <1>4, <1>5, <1>6, <1>7, <1>8, <1>9 DEF HandleStep

\* A terminal status stays until a retry of the request.
LEMMA TerminalStays ==
  ASSUME StateOK, [Next]_vars,
         NEW r \in Requests, row[r].status \in TerminalStatuses,
         \A h \in Handlers : call[h].req = r => pc[h] \in {"cleanup", "return"}
  PROVE  row'[r].status = row[r].status
<1>1. ASSUME NEW h \in Handlers, CreateRequest(h)
      PROVE  row'[r].status = row[r].status
  <2>1. PICK q \in Requests : OthersKept(q) /\ row[q].status = "absent"
    BY <1>1, CreateRequestDoes
  <2>2. QED
    BY <2>1 DEF OthersKept, TerminalStatuses
<1>2. ASSUME NEW h \in Handlers,
             \/ PutUploadedFile(h) \/ RecordSourcePath(h) \/ ResetRequest(h)
      PROVE  row'[r].status = row[r].status
  <2>1. OthersKept(call[h].req) /\ pc[h] \in {"upload", "record", "reset"}
    BY <1>2, PutUploadedFileDoes, RecordSourcePathDoes, ResetRequestDoes
  <2>2. call[h].req # r
    BY <2>1
  <2>3. QED
    BY <2>1, <2>2 DEF OthersKept
<1>3. ASSUME NEW h \in Handlers, RunJob(h)
      PROVE  row'[r].status = row[r].status
  <2>1. CASE call[h].req # r
    BY <1>3, <2>1, JobIsLocal DEF RunJob
  <2>2. CASE call[h].req = r
    <3>1. pc[h] = "cleanup"
      <4>1. pc[h] \in JobSteps
        BY <1>3, JobGoto DEF RunJob
      <4>2. QED
        BY <2>2, <4>1 DEF JobSteps
    <3>2. /\ ~MarkProcessing(h) /\ ~OutputHashFor(h) /\ ~Finish(h)
          /\ ~Fail(h)
      BY <3>1, MarkProcessingDoes, OutputHashForDoes, OtherStepsDo
    <3>3. QED
      BY <1>3, <3>2, JobFrames DEF RunJob
  <2>3. QED
    BY <2>1, <2>2
<1>4. CASE \/ SweepStaleProcessingRequests \/ UNCHANGED vars \/ Crash
           \/ \E h \in Handlers : Tick(h)
           \/ \E q \in Requests : Lapse(q) \/ Stall(q)
  BY <1>4, SweepDoes, BeatStepsDo, CrashDoes
     DEF SameButBeat, TerminalStatuses, tables, vars
<1>5. ASSUME NEW h \in Handlers,
             CheckRetryable(h) \/ Acquire(h) \/ Return(h)
      PROVE  row'[r].status = row[r].status
  BY <1>5, CheckRetryableDoes, SlotStepsDo DEF tables
<1>6. QED
  BY <1>1, <1>2, <1>3, <1>4, <1>5 DEF Next, Progress

\* The outcome that an attempt wrote stays until a retry resets it, and so does
\* all that belongs to it.
LEMMA OutcomeStays ==
  ASSUME StateOK, \A h \in Handlers : StatusOf(h), [Next]_vars,
         NEW r \in Requests, row[r].status \in TerminalStatuses,
         row[r].error # "interrupted",
         \A h \in Handlers : pc[h] = "reset" /\ call[h].req = r =>
           pc'[h] \in {"idle", "reset"}
  PROVE  /\ row'[r].status = row[r].status /\ row'[r].error = row[r].error
         /\ sizeStatus'[r] = sizeStatus[r] /\ output'[r] = output[r]
<1> DEFINE Stays == /\ row'[r].status = row[r].status
                    /\ row'[r].error = row[r].error
                    /\ sizeStatus'[r] = sizeStatus[r]
                    /\ output'[r] = output[r]
<1>away. \A h \in Handlers : call[h].req = r =>
           pc[h] \notin Waiting \cup Working
  BY DEF StatusOf, TerminalStatuses
<1>1. ASSUME NEW h \in Handlers, CreateRequest(h)
      PROVE  Stays
  <2>1. PICK q \in Requests : OthersKept(q) /\ row[q].status = "absent"
    BY <1>1, CreateRequestDoes
  <2>2. QED
    BY <2>1 DEF OthersKept, TerminalStatuses
<1>2. ASSUME NEW h \in Handlers, PutUploadedFile(h) \/ RecordSourcePath(h)
      PROVE  Stays
  <2>1. OthersKept(call[h].req) /\ pc[h] \in Waiting
    BY <1>2, PutUploadedFileDoes, RecordSourcePathDoes DEF Waiting
  <2>2. call[h].req # r
    BY <1>away, <2>1
  <2>3. QED
    BY <2>1, <2>2 DEF OthersKept
<1>3. ASSUME NEW h \in Handlers, ResetRequest(h)
      PROVE  Stays
  <2>1. CASE call[h].req = r
    <3>1. UNCHANGED <<row, sizeStatus, output>>
      BY <1>3, <2>1, ResetRequestDoes
    <3>2. QED
      BY <3>1
  <2>2. CASE call[h].req # r
    BY <1>3, <2>2, ResetRequestDoes DEF OthersKept
  <2>3. QED
    BY <2>1, <2>2
<1>4. ASSUME NEW h \in Handlers, RunJob(h)
      PROVE  Stays
  <2>1. CASE call[h].req # r
    BY <1>4, <2>1, JobIsLocal DEF RunJob
  <2>2. CASE call[h].req = r
    <3>1. pc[h] = "cleanup"
      <4>1. pc[h] \in JobSteps
        BY <1>4, JobGoto DEF RunJob
      <4>2. QED
        BY <1>away, <2>2, <4>1 DEF Waiting, Working
    <3>2. UNCHANGED tables
      <4>1. CleanupSource(h)
        BY <1>4, <3>1, LoadRequestDoes, MarkProcessingDoes, LoadSizesDoes,
           InspectDoes, MarkNextBadDoes, ProcessSizesDoes, OutputHashForDoes,
           LookupOutputDoes, MarkSizeCompletedDoes, OtherStepsDo
           DEF RunJob, HandleStep
      <4>2. QED
        BY <4>1 DEF CleanupSource
    <3>3. QED
      BY <3>2 DEF tables
  <2>3. QED
    BY <2>1, <2>2
<1>5. CASE \/ SweepStaleProcessingRequests \/ UNCHANGED vars \/ Crash
           \/ \E h \in Handlers : Tick(h)
           \/ \E q \in Requests : Lapse(q) \/ Stall(q)
  BY <1>5, SweepDoes, BeatStepsDo, CrashDoes
     DEF SameButBeat, TerminalStatuses, tables, vars
<1>6. ASSUME NEW h \in Handlers,
             CheckRetryable(h) \/ Acquire(h) \/ Return(h)
      PROVE  Stays
  BY <1>6, CheckRetryableDoes, SlotStepsDo DEF tables
<1>7. QED
  BY <1>1, <1>2, <1>3, <1>4, <1>5, <1>6 DEF Next, Progress

\* No step but a reset takes a lone attempt back from its end.
LEMMA NextKeepsEnd ==
  ASSUME StateOK, OneAttempt, AloneInv, EndInv, [Next]_vars
  PROVE  EndInv'
<1>faults. Faultless' => Faultless
  BY FaultsStay
<1>stalls. Unstalled' => Unstalled
  BY StallsStay
<1>null. NULL \notin Requests
  BY PipelineAssumption
<1>1. ASSUME NEW g \in Handlers
      PROVE  EndOf(g)'
  <2>1. SUFFICES ASSUME Faultless', pc'[g] = "return"
                 PROVE  row'[call'[g].req].status \in TerminalStatuses
    BY DEF EndOf
  <2>2. CASE RunJob(g)
    <3>1. HandleStep(g) /\ StatusOf(g)
      BY <2>2 DEF RunJob, AloneInv
    <3>2. EndOf(g)'
      BY <1>faults, <3>1, JobKeepsEnd
    <3>3. QED
      BY <2>1, <3>2 DEF EndOf
  <2>3. CASE pc[g] = "return" /\ call'[g] = call[g]
    <3>1. PICK r \in Requests : call[g].req = r
      BY <2>3 DEF StateOK, LocalsOK
    <3>2. row[r].status \in TerminalStatuses
      BY <1>faults, <2>1, <2>3, <3>1 DEF EndInv, EndOf
    <3>3. \A h \in Handlers : call[h].req = r => pc[h] \in {"cleanup", "return"}
      BY <1>null, <2>3, <3>1 DEF OneAttempt
    <3>4. QED
      BY <2>3, <3>1, <3>2, <3>3, TerminalStays
  <2>4. ASSUME NEW h \in Handlers,
               \/ CreateRequest(h) \/ CheckRetryable(h) \/ Acquire(h)
               \/ Progress(h)
        PROVE  RunJob(g) \/ (pc[g] = "return" /\ call'[g] = call[g])
    <3>1. CASE g = h
      BY <2>1, <2>4, <3>1, CreateRequestDoes, CheckRetryableDoes, SlotStepsDo,
         PutUploadedFileDoes, RecordSourcePathDoes, ResetRequestDoes
         DEF Progress
    <3>2. CASE g # h
      <4>1. pc'[g] = pc[g] /\ call'[g] = call[g]
        BY <2>4, <3>2, CreateRequestDoes, CheckRetryableDoes, SlotStepsDo,
           PutUploadedFileDoes, RecordSourcePathDoes, ResetRequestDoes,
           JobIsLocal DEF Progress, RunJob, OthersStay
      <4>2. QED
        BY <2>1, <4>1
    <3>3. QED
      BY <3>1, <3>2
  <2>5. CASE \/ SweepStaleProcessingRequests \/ UNCHANGED vars
             \/ \E h \in Handlers : Tick(h)
             \/ \E q \in Requests : Lapse(q) \/ Stall(q)
    <3>1. UNCHANGED <<pc, call>>
      BY <2>5, SweepDoes, BeatStepsDo DEF vars
    <3>2. QED
      BY <2>1, <2>3, <3>1
  <2>6. ~Crash
    BY <2>1, CrashDoes
  <2>7. QED
    BY <2>2, <2>3, <2>4, <2>5, <2>6 DEF Next
<1>2. ASSUME Unstalled', NEW r \in Requests, row'[r].status # "failed"
      PROVE  row'[r].error = "none"
  <2>old. row[r].status # "failed" => row[r].error = "none"
    BY <1>2, <1>stalls DEF EndInv, OnlyFailuresHaveErrors
  <2>1. ASSUME NEW h \in Handlers, RunJob(h)
        PROVE  row'[r].error = "none"
    <3>1. CASE call[h].req # r
      BY <1>2, <2>1, <2>old, <3>1, JobIsLocal DEF RunJob
    <3>2. CASE call[h].req = r
      <4>1. MarkProcessing(h) => row[r].status = "pending"
        BY <3>2, MarkProcessingDoes DEF AloneInv, StatusOf, Waiting
      <4>2. Finish(h) => row[r].status = "processing"
        <5>1. Finish(h) => pc[h] \in Working
          BY OtherStepsDo DEF Working, JobSteps
        <5>2. QED
          BY <1>2, <1>stalls, <3>2, <5>1 DEF AloneInv, BeatOf
      <4>3. QED
        BY <1>2, <2>1, <2>old, <3>2, <4>1, <4>2, JobRowDoes DEF RunJob
    <3>3. QED
      BY <3>1, <3>2
  <2>2. ASSUME NEW h \in Handlers, CreateRequest(h)
        PROVE  row'[r].error = "none"
    <3>1. PICK q \in Requests : /\ OthersKept(q) /\ row[q].status = "absent"
                                /\ row'[q].error = row[q].error
      BY <2>2, CreateRequestDoes
    <3>2. QED
      BY <1>2, <2>old, <3>1 DEF OthersKept
  <2>3. ASSUME NEW h \in Handlers,
               RecordSourcePath(h) \/ ResetRequest(h) \/ PutUploadedFile(h)
        PROVE  row'[r].error = "none"
    <3>1. CASE call[h].req # r
      BY <1>2, <2>3, <2>old, <3>1, RecordSourcePathDoes, ResetRequestDoes,
         PutUploadedFileDoes DEF OthersKept
    <3>2. CASE call[h].req = r
      BY <1>2, <2>3, <2>old, <3>2, RecordSourcePathDoes, ResetRequestDoes,
         PutUploadedFileDoes
    <3>3. QED
      BY <3>1, <3>2
  <2>4. ASSUME NEW h \in Handlers,
               CheckRetryable(h) \/ Acquire(h) \/ Return(h)
        PROVE  row'[r].error = "none"
    BY <1>2, <2>4, <2>old, CheckRetryableDoes, SlotStepsDo DEF tables
  <2>5. CASE \/ SweepStaleProcessingRequests \/ UNCHANGED vars \/ Crash
             \/ \E h \in Handlers : Tick(h)
             \/ \E q \in Requests : Lapse(q) \/ Stall(q)
    BY <1>2, <2>5, <2>old, SweepDoes, BeatStepsDo, CrashDoes
       DEF SameButBeat, tables, vars
  <2>6. QED
    BY <2>1, <2>2, <2>3, <2>4, <2>5 DEF Next, Progress
<1>3. QED
  BY <1>1, <1>2 DEF EndInv, OnlyFailuresHaveErrors

\* A lone attempt returns with a terminal status, and only a failed request
\* carries an error.
THEOREM LoneAttemptsEnd == Spec /\ []OneAttempt => []EndInv
<1>1. Init => EndInv
  BY DEF Init, TablesInit, AbsentRow, EndInv, EndOf, OnlyFailuresHaveErrors
<1>2. StateOK /\ OneAttempt /\ AloneInv /\ EndInv /\ [Next]_vars => EndInv'
  BY NextKeepsEnd
<1>3. QED
  BY <1>1, <1>2, StateTyped, LoneAttemptsAgree, PTL DEF Spec

\* What a request that says "completed" has to show.
LEMMA CompletedIsWhole ==
  ASSUME StateOK, AttemptInv, AloneInv, WritingInv, EndInv,
         Faultless, Unstalled,
         NEW r \in Requests, row[r].status = "completed"
  PROVE  /\ row[r].error = "none"
         /\ Finished(r) = Asked(r) /\ Recorded(r) = Asked(r)
         /\ Undisturbed => Served(r) = Asked(r)
<1>1. row[r].error = "none"
  BY DEF EndInv, OnlyFailuresHaveErrors
<1>2. Finished(r) = Asked(r)
  BY <1>1 DEF AloneInv, StatusAgreesWithSizes, TerminalStatuses, Finished, Asked
<1>3. Recorded(r) = Asked(r)
  BY DEF AttemptInv, RecordedInv, CompletedIsRecorded
<1>4. ASSUME Undisturbed, NEW s \in Sizes, output[r][s] = EmptyPath
      PROVE  FALSE
  <2>1. PICK h \in Handlers : pc[h] \in {"put", "path"} /\ call[h].req = r
    BY <1>4 DEF WritingInv, EmptyIsWritten, Writer
  <2>2. QED
    BY <2>1 DEF AloneInv, StatusOf, Working, JobSteps
<1>5. Undisturbed => Served(r) = Recorded(r)
  BY <1>4 DEF Served, Recorded
<1>6. QED
  BY <1>1, <1>2, <1>3, <1>5
=============================================================================
