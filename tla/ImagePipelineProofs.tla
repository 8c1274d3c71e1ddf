------------------------ MODULE ImagePipelineProofs ------------------------
(***************************************************************************)
(* The safety of ImagePipeline for any number of requests, sizes and       *)
(* goroutines, any number of crashes, faults and stalls.  The inductive    *)
(* invariant is                                                            *)
(*                                                                         *)
(*   StateOK /\ SemaphoreCounts /\ ProcessingIsDated /\ StorageInv         *)
(*                                                                         *)
(* where StorageInv adds to ServedIsStored what makes it inductive: a row  *)
(* being written has one writer and is empty, and an object is in the      *)
(* bucket before its path is recorded.  On top of it stands AttemptInv     *)
(* (AskedInv /\ RecordedInv /\ UploadInv): the sets of sizes a goroutine   *)
(* carries are sizes that were asked for, the ones it counts as produced   *)
(* have a row, and an upload has a goroutine that will remove it.          *)
(***************************************************************************)
EXTENDS ImagePipelineSteps, FiniteSetTheorems

(***************************************************************************)
(* The semaphore.                                                          *)
(***************************************************************************)
Held == {h \in Handlers : pc[h] \in Holding}

\* Goroutines are finitely many: those that hold a slot can be counted.
LEMMA HeldIsFinite == IsFiniteSet(Held)
BY FS_Subset, PipelineAssumption DEF Held

\* A goroutine that takes a value from or returns it to the channel.
LEMMA AcquireCounts ==
  ASSUME StateOK, SemaphoreCounts, NEW h \in Handlers, Acquire(h)
  PROVE  SemaphoreCounts'
<1>1. h \notin Held /\ Held' = Held \cup {h}
  BY DEF Held, Holding, JobSteps, Acquire, At, Goto, StateOK
<1>2. Cardinality(Held') = Cardinality(Held) + 1
  BY <1>1, HeldIsFinite, FS_AddElement
<1>3. tokens = Cardinality(Held) /\ tokens \in Nat
  BY HeldIsFinite, FS_CardinalityType DEF SemaphoreCounts, Held
<1>4. tokens' = Cardinality(Held') /\ tokens' <= MaxConcurrentImageJobs
  BY <1>2, <1>3, PipelineAssumption DEF Acquire
<1>5. QED
  BY <1>4 DEF SemaphoreCounts, Held

\* A return takes one goroutine out of Held and one value out of the channel.
LEMMA ReturnCounts ==
  ASSUME StateOK, SemaphoreCounts, NEW h \in Handlers, Return(h)
  PROVE  SemaphoreCounts'
<1>1. h \in Held /\ Held' = Held \ {h}
  BY DEF Held, Holding, JobSteps, Return, At, Goto, StateOK
<1>2. Cardinality(Held') = Cardinality(Held) - 1
  BY <1>1, HeldIsFinite, FS_RemoveElement
<1>3. /\ tokens = Cardinality(Held) /\ tokens \in Nat
      /\ tokens <= MaxConcurrentImageJobs
  BY HeldIsFinite, FS_CardinalityType DEF SemaphoreCounts, Held
<1>4. tokens' = Cardinality(Held') /\ tokens' <= MaxConcurrentImageJobs
  BY <1>2, <1>3, PipelineAssumption DEF Return
<1>5. QED
  BY <1>4 DEF SemaphoreCounts, Held

\* A step that changes neither the counter nor Held keeps the count.
LEMMA HeldStays ==
  ASSUME SemaphoreCounts, Held' = Held, UNCHANGED tokens
  PROVE  SemaphoreCounts'
BY DEF SemaphoreCounts, Held

\* Every step keeps the semaphore counting.
LEMMA NextCounts ==
  ASSUME StateOK, SemaphoreCounts, [Next]_vars
  PROVE  SemaphoreCounts'
<1>1. ASSUME NEW h \in Handlers,
             CreateRequest(h) \/ CheckRetryable(h) \/ Tick(h)
             \/ PutUploadedFile(h) \/ RecordSourcePath(h) \/ ResetRequest(h)
      PROVE  SemaphoreCounts'
  <2>1. Held' = Held
    BY <1>1 DEF CreateRequest, CheckRetryable, Tick, Heartbeat,
                PutUploadedFile, RecordSourcePath, ResetRequest, At, Goto,
                StateOK, Held, Holding, JobSteps
  <2>2. UNCHANGED tokens
    BY <1>1 DEF CreateRequest, CheckRetryable, Tick, PutUploadedFile,
                RecordSourcePath, ResetRequest
  <2>3. QED
    BY <2>1, <2>2, HeldStays
<1>2. ASSUME NEW h \in Handlers, RunJob(h)
      PROVE  SemaphoreCounts'
  <2>1. Held' = Held
    BY <1>2, JobGoto DEF RunJob, StateOK, Held, Holding
  <2>2. QED
    BY <1>2, <2>1, HeldStays DEF RunJob
<1>3. CASE SweepStaleProcessingRequests \/ UNCHANGED vars
           \/ \E r \in Requests : Lapse(r) \/ Stall(r)
  BY <1>3, HeldStays DEF SweepStaleProcessingRequests, vars, Lapse, Stall, Age,
                         Held
<1>4. CASE Crash
  <2>1. Held' = {}
    BY <1>4 DEF Crash, Held, Holding, JobSteps
  <2>2. QED
    BY <1>4, <2>1, FS_EmptySet, PipelineAssumption
       DEF Crash, SemaphoreCounts, Held
<1>5. QED
  BY <1>1, <1>2, <1>3, <1>4, AcquireCounts, ReturnCounts DEF Next, Progress

(***************************************************************************)
(* The dates of a row.                                                     *)
(***************************************************************************)
\* A row keeps its date when a step leaves the three columns alone, ...
LEMMA OtherColumnsKeepDates ==
  ASSUME row \in [Requests -> RequestRow], ProcessingIsDated,
         NEW r \in Requests, NEW n,
         \/ row' = [row EXCEPT ![r].source = TRUE]
         \/ row' = [row EXCEPT ![r].hash = n]
         \/ row' = row
  PROVE  ProcessingIsDated'
<1>1. CASE row' = [row EXCEPT ![r].source = TRUE]
  BY <1>1 DEF ProcessingIsDated, RequestRow
<1>2. CASE row' = [row EXCEPT ![r].hash = n]
  BY <1>2 DEF ProcessingIsDated, RequestRow
<1>3. CASE row' = row
  BY <1>3 DEF ProcessingIsDated
<1>4. QED
  BY <1>1, <1>2, <1>3

\* ... when it takes the row out of "processing", ...
LEMMA OtherStatusKeepsDates ==
  ASSUME row \in [Requests -> RequestRow], ProcessingIsDated,
         NEW r \in Requests, row'[r].status # "processing",
         \A q \in Requests \ {r} : row'[q] = row[q]
  PROVE  ProcessingIsDated'
BY DEF ProcessingIsDated

\* ... and when it writes a heartbeat or lets one age.
LEMMA NewBeatKeepsDates ==
  ASSUME row \in [Requests -> RequestRow], ProcessingIsDated,
         NEW r \in Requests, NEW beat, beat # "none",
         row' = [row EXCEPT ![r].beat = beat]
  PROVE  ProcessingIsDated'
BY DEF ProcessingIsDated, RequestRow

\* Every step keeps "processing" rows dated.
LEMMA NextDated ==
  ASSUME StateOK, ProcessingIsDated, [Next]_vars
  PROVE  ProcessingIsDated'
<1>row. row \in [Requests -> RequestRow]
  BY DEF StateOK, TablesTypeOK
<1>req. \A h \in Handlers : pc[h] # "idle" => call[h].req \in Requests
  BY DEF StateOK, LocalsOK
<1>same. UNCHANGED row => ProcessingIsDated'
  BY DEF ProcessingIsDated
<1>1. ASSUME NEW h \in Handlers, CreateRequest(h) PROVE ProcessingIsDated'
  <2>1. PICK r \in Requests : row' = [row EXCEPT ![r].status = "pending"]
    BY <1>1 DEF CreateRequest
  <2>2. row'[r].status # "processing"
    BY <2>1, <1>row DEF RequestRow
  <2>3. QED
    BY <1>row, <2>1, <2>2, OtherStatusKeepsDates
<1>2. ASSUME NEW h \in Handlers, RecordSourcePath(h) PROVE ProcessingIsDated'
  BY <1>2, <1>row, <1>req, <1>same, OtherColumnsKeepDates
     DEF RecordSourcePath, At
<1>3. ASSUME NEW h \in Handlers, ResetRequest(h) PROVE ProcessingIsDated'
  <2> DEFINE r == call[h].req
  <2>1. r \in Requests
    BY <1>3, <1>req DEF ResetRequest, At
  <2>2. CASE row' = [row EXCEPT ![r].status = "pending", ![r].error = "none",
                                ![r].started = FALSE, ![r].beat = "none"]
    <3>1. row'[r].status # "processing"
      BY <2>1, <2>2, <1>row DEF RequestRow
    <3>2. QED
      BY <1>row, <2>1, <2>2, <3>1, OtherStatusKeepsDates
  <2>3. QED
    BY <1>3, <1>same, <2>2 DEF ResetRequest
<1>4. ASSUME NEW h \in Handlers, Tick(h) PROVE ProcessingIsDated'
  <2>1. call[h].req \in Requests
    BY <1>4 DEF Tick, Heartbeat, StateOK, LocalsOK
  <2>2. QED
    BY <1>4, <1>row, <2>1, NewBeatKeepsDates DEF Tick, Heartbeat
<1>5. ASSUME NEW h \in Handlers, MarkProcessing(h) PROVE ProcessingIsDated'
  BY <1>5, <1>row, <1>req DEF MarkProcessing, At, ProcessingIsDated, RequestRow
<1>6. ASSUME NEW h \in Handlers, OutputHashFor(h) PROVE ProcessingIsDated'
  BY <1>6, <1>row, <1>req, <1>same, OtherColumnsKeepDates
     DEF OutputHashFor, At
<1>7. ASSUME NEW h \in Handlers, Finish(h) PROVE ProcessingIsDated'
  <2> DEFINE r == call[h].req
             final == FinalStatus(call[h].won, Asked(r))
  <2>1. r \in Requests /\ final # "processing"
    BY <1>7, <1>req DEF Finish, At, FinalStatus
  <2>2. CASE row' = [row EXCEPT ![r].status = final]
    <3>1. row'[r].status # "processing"
      BY <2>1, <2>2, <1>row DEF RequestRow
    <3>2. QED
      BY <1>row, <2>1, <2>2, <3>1, OtherStatusKeepsDates
  <2>3. QED
    BY <1>7, <1>same, <2>2 DEF Finish
<1>8. ASSUME NEW h \in Handlers, Fail(h) PROVE ProcessingIsDated'
  <2> DEFINE r == call[h].req
  <2>1. r \in Requests
    BY <1>8, <1>req DEF Fail, At
  <2>2. CASE row' = [row EXCEPT ![r].status = "failed",
                                ![r].error = call[h].error]
    <3>1. row'[r].status # "processing"
      BY <2>1, <2>2, <1>row DEF RequestRow
    <3>2. QED
      BY <1>row, <2>1, <2>2, <3>1, OtherStatusKeepsDates
  <2>3. QED
    BY <1>8, <1>same, <2>2 DEF Fail
<1>9. CASE SweepStaleProcessingRequests
  <2>1. \A r \in Requests : Swept(r).status # "processing"
    BY <1>row DEF Swept, RequestRow
  <2>2. QED
    BY <1>9, <2>1 DEF SweepStaleProcessingRequests, ProcessingIsDated
<1>10. ASSUME NEW r \in Requests, Lapse(r) \/ Stall(r)
       PROVE  ProcessingIsDated'
  BY <1>10, <1>row, NewBeatKeepsDates DEF Lapse, Stall, Age
<1>11. ASSUME NEW h \in Handlers,
              CheckRetryable(h) \/ Acquire(h) \/ Return(h)
              \/ PutUploadedFile(h)
       PROVE  ProcessingIsDated'
  BY <1>11, <1>same DEF CheckRetryable, Acquire, Return, PutUploadedFile,
                        tables
<1>12. ASSUME NEW h \in Handlers, HandleStep(h) PROVE ProcessingIsDated'
  BY <1>5, <1>6, <1>7, <1>8, <1>same, <1>12
     DEF HandleStep, LoadRequest, LoadSizes, Inspect, MarkNextBad,
         ProcessSizes, LookupOutput, CreateOutput, PutOutput, Rollback,
         RecordStoragePath, MarkSizeCompleted, MarkSizeFailed, CleanupSource,
         tables
<1>13. CASE Crash \/ UNCHANGED vars
  BY <1>13, <1>same DEF Crash, vars, tables
<1>14. QED
  BY <1>1, <1>2, <1>3, <1>4, <1>9, <1>10, <1>11, <1>12, <1>13
     DEF Next, Progress, RunJob

(***************************************************************************)
(* Rows, paths and objects.                                                *)
(***************************************************************************)
WriterSteps == {"put", "rollback", "path"}

PathHasObject ==
  \A h \in Handlers : pc[h] = "path" =>
    <<call[h].req, call[h].size, call[h].hash>> \in bucket

StorageInv == OneWriterPerRow /\ PathHasObject /\ ServedIsStored

\* A step that touches neither disk nor output rows and lets no goroutine
\* begin to write.
LEMMA QuietStep ==
  ASSUME StorageInv, UNCHANGED <<output, bucket>>,
         \A g \in Handlers : pc'[g] \in WriterSteps =>
           pc'[g] = pc[g] /\ call'[g] = call[g]
  PROVE  StorageInv'
BY DEF StorageInv, OneWriterPerRow, PathHasObject, ServedIsStored, WriterSteps,
       Served

\* Creating an output row makes its creator the only writer of it.
LEMMA CreateKeepsStorage ==
  ASSUME StateOK, StorageInv, NEW h \in Handlers, CreateOutput(h)
  PROVE  StorageInv'
<1> DEFINE r == call[h].req
           s == call[h].size
<1>1. /\ r \in Requests /\ s \in Sizes
      /\ pc \in [Handlers -> ServiceSteps \cup JobSteps]
      /\ output \in [Requests -> [Sizes -> Nat \cup {NoRow}]]
      /\ pc[h] = "create"
  BY DEF StateOK, TablesTypeOK, LocalsOK, SizeSteps, CreateOutput, At
<1>2. CASE /\ output[r][s] = NoRow
           /\ output' = [output EXCEPT ![r][s] = EmptyPath]
           /\ pc' = [pc EXCEPT ![h] = "put"]
           /\ UNCHANGED <<bucket, call>>
  <2>1. \A g \in Handlers : pc[g] \in WriterSteps =>
          <<call[g].req, call[g].size>> # <<r, s>>
    BY <1>2 DEF StorageInv, OneWriterPerRow, WriterSteps, EmptyPath, NoRow
  <2>2. OneWriterPerRow'
    <3>1. ASSUME NEW g \in Handlers, pc'[g] \in WriterSteps
          PROVE  output'[call'[g].req][call'[g].size] = EmptyPath
      BY <1>1, <1>2, <2>1, <3>1
         DEF StorageInv, OneWriterPerRow, WriterSteps, StateOK, LocalsOK,
             SizeSteps
    <3>2. ASSUME NEW g \in Handlers, pc'[g] \in WriterSteps,
                 NEW f \in Handlers \ {g}, pc'[f] \in WriterSteps
          PROVE  <<call'[f].req, call'[f].size>>
                   # <<call'[g].req, call'[g].size>>
      BY <1>1, <1>2, <2>1, <3>2 DEF StorageInv, OneWriterPerRow, WriterSteps
    <3>3. QED
      BY <3>1, <3>2 DEF OneWriterPerRow, WriterSteps
  <2>3. PathHasObject'
    BY <1>1, <1>2 DEF StorageInv, PathHasObject
  <2>4. ServedIsStored'
    BY <1>1, <1>2 DEF StorageInv, ServedIsStored, Served, EmptyPath
  <2>5. QED
    BY <2>2, <2>3, <2>4 DEF StorageInv
<1>3. CASE /\ UNCHANGED <<output, bucket, call>>
           /\ pc' = [pc EXCEPT ![h] = "giveup"]
  BY <1>1, <1>3, QuietStep DEF WriterSteps
<1>4. QED
  BY <1>2, <1>3 DEF CreateOutput, disks, Goto

\* Storing an object adds to the bucket and to no row.
LEMMA PutKeepsStorage ==
  ASSUME StateOK, StorageInv, NEW h \in Handlers, PutOutput(h)
  PROVE  StorageInv'
<1>1. /\ pc \in [Handlers -> ServiceSteps \cup JobSteps]
      /\ pc[h] = "put"
      /\ UNCHANGED <<output, call>>
      /\ bucket \subseteq bucket'
      /\ \/ /\ pc' = [pc EXCEPT ![h] = "path"]
            /\ <<call[h].req, call[h].size, call[h].hash>> \in bucket'
         \/ pc' = [pc EXCEPT ![h] = "rollback"]
  BY DEF StateOK, PutOutput, At, Goto, tables
<1>2. OneWriterPerRow'
  BY <1>1 DEF StorageInv, OneWriterPerRow
<1>3. PathHasObject'
  BY <1>1 DEF StorageInv, PathHasObject
<1>4. ServedIsStored'
  BY <1>1 DEF StorageInv, ServedIsStored, Served
<1>5. QED
  BY <1>2, <1>3, <1>4 DEF StorageInv

\* Rollback and RecordStoragePath write the row of the only writer.
LEMMA OwnRowKeepsStorage ==
  ASSUME StateOK, StorageInv, NEW h \in Handlers,
         Rollback(h) \/ RecordStoragePath(h)
  PROVE  StorageInv'
<1> DEFINE r == call[h].req
           s == call[h].size
<1>1. /\ r \in Requests /\ s \in Sizes
      /\ pc \in [Handlers -> ServiceSteps \cup JobSteps]
      /\ output \in [Requests -> [Sizes -> Nat \cup {NoRow}]]
      /\ pc[h] \in WriterSteps
      /\ UNCHANGED <<bucket, call>>
      /\ \E step \in {"giveup", "succeed"} : pc' = [pc EXCEPT ![h] = step]
  BY DEF StateOK, TablesTypeOK, LocalsOK, SizeSteps, Rollback,
         RecordStoragePath, At, Goto, WriterSteps, disks
<1>2. \/ output' = output
      \/ output' = [output EXCEPT ![r][s] = NoRow]
      \/ /\ pc[h] = "path"
         /\ output' = [output EXCEPT ![r][s] = call[h].hash]
  BY DEF Rollback, RecordStoragePath, At
<1>3. \A g \in Handlers \ {h} : pc[g] \in WriterSteps =>
        <<call[g].req, call[g].size>> # <<r, s>>
  BY <1>1 DEF StorageInv, OneWriterPerRow, WriterSteps
<1>4. OneWriterPerRow'
  BY <1>1, <1>2, <1>3 DEF StorageInv, OneWriterPerRow, WriterSteps, StateOK,
                          LocalsOK, SizeSteps
<1>5. PathHasObject'
  BY <1>1 DEF StorageInv, PathHasObject
<1>6. ServedIsStored'
  BY <1>1, <1>2 DEF StorageInv, ServedIsStored, Served, PathHasObject, NoRow
<1>7. QED
  BY <1>4, <1>5, <1>6 DEF StorageInv

\* Every step keeps one writer per row and an object behind each path.
LEMMA NextKeepsStorage ==
  ASSUME StateOK, StorageInv, [Next]_vars
  PROVE  StorageInv'
<1>pc. pc \in [Handlers -> ServiceSteps \cup JobSteps]
  BY DEF StateOK
<1>1. ASSUME NEW h \in Handlers,
             CreateRequest(h) \/ CheckRetryable(h) \/ PutUploadedFile(h)
             \/ RecordSourcePath(h) \/ ResetRequest(h) \/ Acquire(h)
             \/ Return(h)
      PROVE  StorageInv'
  <2>1. UNCHANGED <<output, bucket>>
    BY <1>1 DEF CreateRequest, CheckRetryable, PutUploadedFile,
                RecordSourcePath, ResetRequest, Acquire, Return, tables, disks
  <2>2. \E step \in ServiceSteps \cup {"load"} : pc' = [pc EXCEPT ![h] = step]
    BY <1>1 DEF CreateRequest, CheckRetryable, PutUploadedFile,
                RecordSourcePath, ResetRequest, Acquire, Return, Goto,
                ServiceSteps
  <2>3. \A g \in Handlers \ {h} : call'[g] = call[g]
    BY <1>1 DEF CreateRequest, CheckRetryable, PutUploadedFile,
                RecordSourcePath, ResetRequest, Acquire, Return, StateOK
  <2>4. QED
    BY <1>pc, <2>1, <2>2, <2>3, QuietStep DEF WriterSteps, ServiceSteps
<1>2. ASSUME NEW h \in Handlers,
             LoadRequest(h) \/ MarkProcessing(h) \/ LoadSizes(h)
             \/ Inspect(h) \/ MarkNextBad(h) \/ ProcessSizes(h)
             \/ OutputHashFor(h) \/ LookupOutput(h) \/ MarkSizeCompleted(h)
             \/ MarkSizeFailed(h) \/ Finish(h) \/ Fail(h)
             \/ CleanupSource(h)
      PROVE  StorageInv'
  <2>1. UNCHANGED <<output, bucket>>
    BY <1>2 DEF LoadRequest, MarkProcessing, LoadSizes, Inspect, MarkNextBad,
                ProcessSizes, OutputHashFor, LookupOutput, MarkSizeCompleted,
                MarkSizeFailed, Finish, Fail, CleanupSource, tables, disks
  <2>2. pc'[h] \notin WriterSteps
    BY <1>2, <1>pc
       DEF LoadRequest, MarkProcessing, LoadSizes, Inspect, MarkNextBad,
           ProcessSizes, OutputHashFor, LookupOutput, MarkSizeCompleted,
           MarkSizeFailed, Finish, Fail, CleanupSource, Goto, FailWith,
           WriterSteps
  <2>3. \A g \in Handlers \ {h} : call'[g] = call[g]
    BY <1>2
       DEF LoadRequest, MarkProcessing, LoadSizes, Inspect, MarkNextBad,
           ProcessSizes, OutputHashFor, LookupOutput, MarkSizeCompleted,
           MarkSizeFailed, Finish, Fail, CleanupSource, FailWith, StateOK
  <2>4. \A g \in Handlers \ {h} : pc'[g] = pc[g]
    BY <1>2, <1>pc, JobGoto DEF HandleStep
  <2>5. QED
    BY <2>1, <2>2, <2>3, <2>4, QuietStep
<1>3. ASSUME NEW h \in Handlers, Tick(h) PROVE StorageInv'
  BY <1>3, QuietStep DEF Tick, Heartbeat, disks
<1>4. CASE SweepStaleProcessingRequests \/ UNCHANGED vars
           \/ \E r \in Requests : Lapse(r) \/ Stall(r)
  BY <1>4, QuietStep DEF SweepStaleProcessingRequests, vars, Lapse, Stall,
                         Age, disks
<1>5. CASE Crash
  BY <1>5, QuietStep DEF Crash, tables, disks, WriterSteps
<1>6. QED
  BY <1>1, <1>2, <1>3, <1>4, <1>5, CreateKeepsStorage, PutKeepsStorage,
     OwnRowKeepsStorage
     DEF Next, Progress, RunJob, HandleStep

\* What a step may do to a row that carries a path: nothing.
LEMMA NextKeepsUrls ==
  ASSUME StateOK, StorageInv, [Next]_vars,
         NEW r \in Requests, NEW s \in Served(r)
  PROVE  output'[r][s] = output[r][s]
<1>0. s \in Sizes /\ output[r][s] \notin {NoRow, EmptyPath}
  BY DEF Served
<1>same. UNCHANGED output => output'[r][s] = output[r][s]
  OBVIOUS
<1>type. output \in [Requests -> [Sizes -> Nat \cup {NoRow}]]
  BY DEF StateOK, TablesTypeOK
<1>1. ASSUME NEW h \in Handlers, CreateOutput(h)
      PROVE  output'[r][s] = output[r][s]
  BY <1>0, <1>1, <1>type DEF CreateOutput, StateOK, LocalsOK, SizeSteps, At
<1>2. ASSUME NEW h \in Handlers, Rollback(h) \/ RecordStoragePath(h)
      PROVE  output'[r][s] = output[r][s]
  <2>1. output[call[h].req][call[h].size] = EmptyPath
    BY <1>2 DEF Rollback, RecordStoragePath, At, StorageInv, OneWriterPerRow
  <2>2. <<call[h].req, call[h].size>> # <<r, s>>
    BY <1>0, <2>1
  <2>3. QED
    BY <1>0, <1>2, <1>type, <2>2 DEF Rollback, RecordStoragePath
<1>3. ASSUME NEW h \in Handlers, RunJob(h)
      PROVE  output'[r][s] = output[r][s]
  BY <1>1, <1>2, <1>3, <1>same
     DEF RunJob, HandleStep, LoadRequest, MarkProcessing, LoadSizes, Inspect,
         MarkNextBad, ProcessSizes, OutputHashFor, LookupOutput, PutOutput,
         MarkSizeCompleted, MarkSizeFailed, Finish, Fail, CleanupSource,
         tables
<1>4. ASSUME NEW h \in Handlers,
             CreateRequest(h) \/ CheckRetryable(h) \/ PutUploadedFile(h)
             \/ RecordSourcePath(h) \/ ResetRequest(h) \/ Acquire(h)
             \/ Return(h) \/ Tick(h)
      PROVE  output'[r][s] = output[r][s]
  BY <1>4, <1>same
     DEF CreateRequest, CheckRetryable, PutUploadedFile, RecordSourcePath,
         ResetRequest, Acquire, Return, Tick, Heartbeat, tables
<1>5. CASE SweepStaleProcessingRequests \/ UNCHANGED vars \/ Crash
           \/ \E q \in Requests : Lapse(q) \/ Stall(q)
  BY <1>5, <1>same DEF SweepStaleProcessingRequests, vars, Lapse, Stall, Age,
                       Crash, tables
<1>6. QED
  BY <1>3, <1>4, <1>5 DEF Next, Progress

(***************************************************************************)
(* The theorems.                                                           *)
(***************************************************************************)
Inv == StateOK /\ SemaphoreCounts /\ ProcessingIsDated /\ StorageInv

\* The invariant holds of empty tables and idle goroutines.
LEMMA InitInv ==
  ASSUME Init
  PROVE  Inv
<1>1. SemaphoreCounts
  <2>1. Held = {}
    BY DEF Init, Held, Holding, JobSteps
  <2>2. QED
    BY <2>1, FS_EmptySet, PipelineAssumption DEF Init, SemaphoreCounts, Held
<1>2. ProcessingIsDated
  BY DEF Init, TablesInit, AbsentRow, ProcessingIsDated
<1>3. StorageInv
  BY DEF Init, TablesInit, StorageInv, OneWriterPerRow, PathHasObject,
         ServedIsStored, Served, NoRow
<1>4. QED
  BY <1>1, <1>2, <1>3, InitStateOK DEF Inv

\* The inductive invariant: every reachable state is well typed, its semaphore
\* counts the goroutines inside, its "processing" rows are dated and its output
\* rows have one writer each and an object behind every path.
THEOREM Invariance == Spec => []Inv
<1>1. Init => Inv
  BY InitInv
<1>2. Inv /\ [Next]_vars => Inv'
  BY NextStateOK, NextCounts, NextDated, NextKeepsStorage DEF Inv
<1>3. QED
  BY <1>1, <1>2, PTL DEF Spec

\* Type correctness: in particular the semaphore is never released more
\* often than it was taken.
THEOREM TypeCorrectness == Spec => []TypeOK
<1>1. Inv => TypeOK
  <2>1. SUFFICES ASSUME Inv PROVE tokens \in Nat
    BY DEF Inv, StateOK, TypeOK
  <2>2. SemaphoreCounts
    BY <2>1 DEF Inv
  <2>3. tokens = Cardinality(Held)
    BY <2>2 DEF SemaphoreCounts, Held
  <2>4. QED
    BY <2>3, HeldIsFinite, FS_CardinalityType
<1>2. QED
  BY <1>1, Invariance, PTL

\* At most MaxConcurrentImageJobs runs of Handle exist at once, and every one
\* of its returns gives its slot back.
THEOREM SemaphoreIsSound == Spec => []SemaphoreCounts
<1>1. Inv => SemaphoreCounts
  BY DEF Inv
<1>2. QED
  BY <1>1, Invariance, PTL

\* A processing row can always be dated by the sweep.
THEOREM ProcessingIsAlwaysDated == Spec => []ProcessingIsDated
<1>1. Inv => ProcessingIsDated
  BY DEF Inv
<1>2. QED
  BY <1>1, Invariance, PTL

\* No two attempts write one output row, whatever retries overlap.
THEOREM OneWriter == Spec => []OneWriterPerRow
<1>1. Inv => OneWriterPerRow
  BY DEF Inv, StorageInv
<1>2. QED
  BY <1>1, Invariance, PTL

\* No recorded path is without its object.
THEOREM NoDanglingUrl == Spec => []ServedIsStored
<1>1. Inv => ServedIsStored
  BY DEF Inv, StorageInv
<1>2. QED
  BY <1>1, Invariance, PTL

\* A served URL never changes and never goes away.
THEOREM UrlsStay == Spec => UrlsArePermanent
<1>1. Inv /\ [Next]_vars =>
        [\A r \in Requests : \A s \in Served(r) :
           output'[r][s] = output[r][s]]_vars
  BY NextKeepsUrls DEF Inv, StorageInv
<1>2. QED
  BY <1>1, Invariance, PTL DEF Spec, UrlsArePermanent

(***************************************************************************)
(* What an attempt was asked for.                                          *)
(***************************************************************************)

\* A goroutine that is not idle works on a row that exists, and all the sizes
\* in its locals are sizes the request was created with; an output row
\* belongs to one of them.
AskedOf(h) ==
  /\ pc[h] = "idle" => call[h] = Idle
  /\ pc[h] # "idle" =>
       /\ row[call[h].req].status # "absent"
       /\ call[h].todo \cup call[h].bad \cup call[h].won
            \subseteq Asked(call[h].req)
       /\ pc[h] \in SizeSteps => call[h].size \in Asked(call[h].req)

AskedInv ==
  /\ \A h \in Handlers : AskedOf(h)
  /\ \A r \in Requests : row[r].status = "absent" <=> Asked(r) = {}
  /\ \A r \in Requests : Recorded(r) \subseteq Asked(r)

\* No statement of Handle changes what was asked or deletes a request.
LEMMA JobKeepsAsked ==
  ASSUME StateOK, AskedInv, NEW h \in Handlers, HandleStep(h),
         NEW r \in Requests
  PROVE  /\ Asked(r)' = Asked(r)
         /\ row'[r].status = "absent" <=> row[r].status = "absent"
<1>types. /\ row \in [Requests -> RequestRow]
          /\ sizeStatus \in [Requests -> [Sizes -> SizeStatuses]]
  BY DEF StateOK, TablesTypeOK
<1>mine. /\ pc[h] # "idle" /\ call[h].req \in Requests
         /\ row[call[h].req].status # "absent"
         /\ call[h].bad \subseteq Asked(call[h].req)
         /\ pc[h] \in SizeSteps => call[h].size \in Asked(call[h].req)
  BY JobGoto DEF AskedInv, AskedOf, JobSteps, StateOK, LocalsOK
<1>1. Asked(r)' = Asked(r)
  <2>1. ASSUME NEW s \in Asked(call[h].req), NEW status,
               status # "absent",
               sizeStatus' = [sizeStatus EXCEPT ![call[h].req][s] = status]
        PROVE  Asked(r)' = Asked(r)
    BY <2>1, <1>types, <1>mine DEF Asked
  <2>2. CASE UNCHANGED sizeStatus
    BY <2>2 DEF Asked
  <2>3. CASE MarkNextBad(h)
    BY <2>1, <2>2, <2>3, <1>mine DEF MarkNextBad
  <2>4. CASE MarkSizeCompleted(h) \/ MarkSizeFailed(h)
    BY <2>1, <2>2, <2>4, <1>mine
       DEF MarkSizeCompleted, MarkSizeFailed, At, SizeSteps
  <2>5. QED
    BY <2>2, <2>3, <2>4, JobFrames
<1>2. row'[r].status = "absent" <=> row[r].status = "absent"
  <2>1. CASE r # call[h].req \/ UNCHANGED row
    BY <2>1, JobIsLocal
  <2>2. CASE r = call[h].req /\ MarkProcessing(h)
    BY <2>2, <1>types, <1>mine DEF MarkProcessing, RequestRow
  <2>3. CASE r = call[h].req /\ OutputHashFor(h)
    <3>1. ASSUME NEW n, row' = [row EXCEPT ![r].hash = n]
          PROVE  row'[r].status = row[r].status
      BY <3>1, <1>types DEF RequestRow
    <3>2. \/ UNCHANGED row
          \/ row' = [row EXCEPT ![r].hash = minted[r] + 1]
      BY <2>3, OutputHashForDoes
    <3>3. QED
      BY <3>1, <3>2
  <2>4. CASE r = call[h].req /\ (Finish(h) \/ Fail(h))
    BY <2>4, <1>types, <1>mine DEF Finish, Fail, FinalStatus, RequestRow
  <2>5. QED
    BY <2>1, <2>2, <2>3, <2>4, JobFrames
<1>3. QED
  BY <1>1, <1>2

\* The sets of sizes in the locals stay within what was asked.
LEMMA JobKeepsLocalSizes ==
  ASSUME StateOK, AskedInv, NEW h \in Handlers, HandleStep(h)
  PROVE  /\ call'[h].todo \cup call'[h].bad \cup call'[h].won
              \subseteq Asked(call[h].req)
         /\ pc'[h] \in SizeSteps => call'[h].size \in Asked(call[h].req)
<1>mine. /\ call[h].todo \cup call[h].bad \cup call[h].won
              \subseteq Asked(call[h].req)
         /\ pc[h] \in SizeSteps => call[h].size \in Asked(call[h].req)
  BY JobGoto DEF AskedInv, AskedOf, JobSteps
<1>1. CASE SameSizes(h)
  <2>0. CASE LoadRequest(h) \/ MarkProcessing(h) \/ LoadSizes(h)
    BY <2>0, <1>1, <1>mine, LoadRequestDoes, MarkProcessingDoes,
       LoadSizesDoes DEF SameSizes, SizeSteps
  <2>1. CASE Inspect(h) \/ ProcessSizes(h) \/ OutputHashFor(h)
    BY <2>1, <1>1, <1>mine, InspectDoes, ProcessSizesDoes, OutputHashForDoes
       DEF SameSizes, SizeSteps
  <2>2. CASE CreateOutput(h) \/ PutOutput(h) \/ Rollback(h)
             \/ RecordStoragePath(h) \/ MarkSizeFailed(h) \/ Finish(h)
             \/ Fail(h) \/ CleanupSource(h)
    BY <2>2, <1>1, <1>mine, OtherStepsDo DEF SameSizes, SizeSteps
  <2>3. CASE MarkNextBad(h) \/ LookupOutput(h) \/ MarkSizeCompleted(h)
    BY <2>3, <1>1, <1>mine, MarkNextBadDoes, LookupOutputDoes,
       MarkSizeCompletedDoes DEF SameSizes, SizeSteps
  <2>4. QED
    BY <2>0, <2>1, <2>2, <2>3 DEF HandleStep
<1>2. CASE Inspect(h)
  BY <1>1, <1>2, <1>mine, InspectDoes DEF SizeSteps
<1>3. CASE MarkNextBad(h)
  BY <1>3, <1>mine, MarkNextBadDoes DEF SizeSteps
<1>4. CASE ProcessSizes(h)
  BY <1>1, <1>4, <1>mine, ProcessSizesDoes DEF SizeSteps
<1>5. CASE LookupOutput(h)
  BY <1>5, <1>mine, LookupOutputDoes DEF SizeSteps
<1>6. CASE MarkSizeCompleted(h)
  <2>1. /\ pc[h] \in SizeSteps /\ pc'[h] \notin SizeSteps
        /\ call'[h].todo = call[h].todo /\ call'[h].bad = call[h].bad
        /\ call'[h].won = call[h].won \cup {call[h].size}
    BY <1>6, MarkSizeCompletedDoes DEF SizeSteps
  <2>2. QED
    BY <1>mine, <2>1
<1>7. QED
  BY <1>1, <1>2, <1>3, <1>4, <1>5, <1>6, JobFrames

\* A step of one goroutine that changes nothing of what was asked.
LEMMA OneAsks ==
  ASSUME AskedInv, NEW h \in Handlers, OthersStay(h), AskedOf(h)',
         LocalsOK,
         \A r \in Requests : row[r].status # "absent" =>
           row'[r].status # "absent" /\ Asked(r)' = Asked(r),
         \A r \in Requests : row'[r].status = "absent" <=> Asked(r)' = {},
         \A r \in Requests : Recorded(r)' \subseteq Asked(r)'
  PROVE  AskedInv'
<1>1. ASSUME NEW g \in Handlers \ {h} PROVE AskedOf(g)'
  <2>1. AskedOf(g) /\ pc'[g] = pc[g] /\ call'[g] = call[g]
    BY DEF AskedInv, OthersStay
  <2>2. pc[g] # "idle" => call[g].req \in Requests
    BY DEF LocalsOK
  <2>3. pc[g] # "idle" => Asked(call[g].req)' = Asked(call[g].req)
    BY <2>1, <2>2 DEF AskedOf
  <2>4. QED
    BY <2>1, <2>2 DEF AskedOf
<1>2. QED
  BY <1>1 DEF AskedInv

\* Every step keeps AskedInv, and a request that exists is asked for the same
\* sizes for ever.
LEMMA NextKeepsAsked ==
  ASSUME StateOK, AskedInv, [Next]_vars
  PROVE  /\ AskedInv'
         /\ \A r \in Requests : row[r].status # "absent" =>
              row'[r].status # "absent" /\ Asked(r)' = Asked(r)
<1> DEFINE Kept == \A r \in Requests : row[r].status # "absent" =>
                     row'[r].status # "absent" /\ Asked(r)' = Asked(r)
<1>locals. LocalsOK
  BY DEF StateOK
<1>sizes. UNCHANGED sizeStatus => \A r \in Requests : Asked(r)' = Asked(r)
  BY DEF Asked
<1>output. UNCHANGED output => \A r \in Requests : Recorded(r)' = Recorded(r)
  BY DEF Recorded
<1>1. ASSUME NEW h \in Handlers, RunJob(h) PROVE AskedInv' /\ Kept
  <2>0. HandleStep(h) /\ pc[h] # "idle" /\ pc'[h] # "idle"
        /\ call'[h].req = call[h].req /\ call[h].req \in Requests
    BY <1>1, JobGoto, JobIsLocal, <1>locals, StepFacts
       DEF RunJob, JobSteps, LocalsOK
  <2>1. Kept
    BY <2>0, JobKeepsAsked
  <2>2. AskedOf(h)'
    <3>1. Asked(call[h].req)' = Asked(call[h].req)
      BY <2>0, JobKeepsAsked
    <3>2. QED
      BY <2>0, <2>1, <3>1, JobKeepsLocalSizes DEF AskedInv, AskedOf
  <2>3. \A r \in Requests : row'[r].status = "absent" <=> Asked(r)' = {}
    BY <2>0, JobKeepsAsked DEF AskedInv
  <2>4. \A r \in Requests : Recorded(r)' \subseteq Asked(r)'
    <3>1. \A r \in Requests : Asked(r)' = Asked(r)
      BY <2>0, JobKeepsAsked
    <3>2. CASE CreateOutput(h) \/ Rollback(h) \/ RecordStoragePath(h)
      <4>1. call[h].size \in Asked(call[h].req)
        BY <3>2, OtherStepsDo DEF AskedInv, AskedOf, SizeSteps
      <4>2. PICK x : output' = [output EXCEPT ![call[h].req][call[h].size] = x]
                     \/ output' = output
        BY <3>2 DEF CreateOutput, Rollback, RecordStoragePath
      <4>3. \A r \in Requests :
              Recorded(r)' \subseteq
                Recorded(r) \cup (IF r = call[h].req THEN {call[h].size}
                                                   ELSE {})
        BY <4>2 DEF Recorded, StateOK, TablesTypeOK
      <4>4. QED
        BY <3>1, <4>1, <4>3 DEF AskedInv
    <3>3. QED
      BY <2>0, <3>1, <3>2, <1>output, JobFrames DEF AskedInv
  <2>5. OthersStay(h)
    BY <2>0, JobIsLocal DEF OthersStay
  <2>6. QED
    BY <2>1, <2>2, <2>3, <2>4, <2>5, <1>locals, OneAsks
<1>2. ASSUME NEW h \in Handlers, CreateRequest(h) PROVE AskedInv' /\ Kept
  <2>1. PICK r \in Requests :
          /\ call'[h].req = r /\ OthersKept(r)
          /\ row[r].status = "absent" /\ row'[r].status = "pending"
          /\ Asked(r)' # {}
    BY <1>2, CreateRequestDoes
  <2>2. \A q \in Requests \ {r} : Asked(q)' = Asked(q) /\ row'[q] = row[q]
    BY <2>1 DEF OthersKept, Asked
  <2>3. Kept
    BY <2>1, <2>2
  <2>4. AskedOf(h)'
    <3>1. call[h] = Idle /\ pc[h] = "idle" /\ pc'[h] = "upload"
          /\ SameSizes(h)
      BY <1>2, CreateRequestDoes DEF AskedInv, AskedOf
    <3>2. call'[h].todo = {} /\ call'[h].bad = {} /\ call'[h].won = {}
      BY <3>1 DEF SameSizes, Idle
    <3>3. QED
      BY <2>1, <3>1, <3>2 DEF AskedOf, SizeSteps
  <2>5. \A q \in Requests : row'[q].status = "absent" <=> Asked(q)' = {}
    BY <2>1, <2>2 DEF AskedInv
  <2>6. \A q \in Requests : Recorded(q)' \subseteq Asked(q)'
    <3>1. Recorded(r) = {}
      BY <2>1 DEF AskedInv
    <3>2. \A q \in Requests : Recorded(q)' = Recorded(q)
      BY <1>2, <1>output, CreateRequestDoes
    <3>3. QED
      BY <2>2, <3>1, <3>2 DEF AskedInv
  <2>7. QED
    BY <1>2, <2>3, <2>4, <2>5, <2>6, <1>locals, CreateRequestDoes, OneAsks
<1>3. ASSUME NEW h \in Handlers, CheckRetryable(h) PROVE AskedInv' /\ Kept
  <2>1. PICK r \in Requests :
          call'[h].req = r /\ row[r].status \in RetryableStatuses
    BY <1>3, CheckRetryableDoes
  <2>2. call[h] = Idle /\ pc[h] = "idle" /\ pc'[h] = "reset" /\ SameSizes(h)
        /\ UNCHANGED <<row, sizeStatus, output>>
    BY <1>3, CheckRetryableDoes DEF AskedInv, AskedOf, tables
  <2>3. AskedOf(h)'
    <3>1. call'[h].todo = {} /\ call'[h].bad = {} /\ call'[h].won = {}
      BY <2>2 DEF SameSizes, Idle
    <3>2. QED
      BY <2>1, <2>2, <3>1 DEF AskedOf, SizeSteps, RetryableStatuses
  <2>4. QED
    BY <1>3, <2>2, <2>3, <1>locals, <1>sizes, <1>output, CheckRetryableDoes,
       OneAsks DEF AskedInv
<1>4. ASSUME NEW h \in Handlers,
             \/ PutUploadedFile(h) \/ RecordSourcePath(h) \/ ResetRequest(h)
             \/ Acquire(h) \/ Return(h)
      PROVE  AskedInv' /\ Kept
  <2>1. /\ pc[h] # "idle" /\ OthersStay(h) /\ UNCHANGED output
        /\ \A r \in Requests : Asked(r)' = Asked(r)
    BY <1>4, <1>sizes, PutUploadedFileDoes, RecordSourcePathDoes,
       ResetRequestDoes, SlotStepsDo DEF tables
  <2>2. \A r \in Requests :
          row'[r].status = "absent" <=> row[r].status = "absent"
    <3>1. CASE RecordSourcePath(h)
      BY <3>1, RecordSourcePathDoes DEF OthersKept
    <3>2. CASE ResetRequest(h)
      <4>1. row[call[h].req].status # "absent"
        BY <2>1 DEF AskedInv, AskedOf
      <4>2. QED
        BY <3>2, <4>1, ResetRequestDoes DEF OthersKept
    <3>3. QED
      BY <1>4, <3>1, <3>2, PutUploadedFileDoes, SlotStepsDo DEF tables
  <2>3. \/ /\ pc'[h] # "idle" /\ pc'[h] \notin SizeSteps
           /\ call'[h] = call[h]
        \/ pc'[h] = "idle" /\ call'[h] = Idle
    BY <1>4, PutUploadedFileDoes, RecordSourcePathDoes, ResetRequestDoes,
       SlotStepsDo DEF SizeSteps
  <2>4. AskedOf(h)'
    <3>1. call[h].req \in Requests /\ AskedOf(h)
      BY <2>1, <1>locals DEF LocalsOK, AskedInv
    <3>2. QED
      BY <2>1, <2>2, <2>3, <3>1 DEF AskedOf
  <2>5. QED
    BY <2>1, <2>2, <2>4, <1>locals, <1>output, OneAsks DEF AskedInv
<1>5. CASE \/ SweepStaleProcessingRequests
           \/ \E h \in Handlers : Tick(h)
           \/ \E r \in Requests : Lapse(r) \/ Stall(r)
  <2>1. /\ UNCHANGED <<sizeStatus, output, pc, call>>
        /\ \A r \in Requests :
             row'[r].status = "absent" <=> row[r].status = "absent"
    BY <1>5, SweepDoes, BeatStepsDo DEF SameButBeat
  <2>2. AskedInv'
    BY <2>1, <1>sizes, <1>output, <1>locals
       DEF AskedInv, AskedOf, LocalsOK
  <2>3. QED
    BY <2>1, <2>2, <1>sizes
<1>6. CASE Crash \/ UNCHANGED vars
  <2>1. /\ UNCHANGED <<row, sizeStatus, output>>
        /\ \A h \in Handlers : \/ pc'[h] = "idle" /\ call'[h] = Idle
                               \/ pc'[h] = pc[h] /\ call'[h] = call[h]
    <3>1. CASE Crash
      BY <3>1, CrashDoes DEF tables
    <3>2. CASE UNCHANGED vars
      BY <3>2 DEF vars
    <3>3. QED
      BY <1>6, <3>1, <3>2
  <2>2. AskedInv'
    BY <2>1, <1>sizes, <1>output, <1>locals
       DEF AskedInv, AskedOf, LocalsOK
  <2>3. QED
    BY <2>1, <2>2, <1>sizes
<1>7. QED
  BY <1>1, <1>2, <1>3, <1>4, <1>5, <1>6 DEF Next, Progress

(***************************************************************************)
(* "completed" counts output rows.                                         *)
(***************************************************************************)

\* As long as no statement fails, no row is rolled back, and what a goroutine
\* has counted as a success has its row.
RecordedOf(h) ==
  /\ pc[h] # "rollback"
  /\ pc[h] # "idle" => call[h].won \subseteq Recorded(call[h].req)
  /\ pc[h] = "succeed" => call[h].size \in Recorded(call[h].req)

RecordedInv ==
  /\ Faultless => \A h \in Handlers : RecordedOf(h)
  /\ CompletedIsRecorded

\* Output rows are only added, and the successes counted have theirs.
LEMMA JobKeepsRecorded ==
  ASSUME StateOK, AskedInv, NEW h \in Handlers, HandleStep(h),
         RecordedOf(h), Faultless'
  PROVE  /\ \A r \in Requests : Recorded(r) \subseteq Recorded(r)'
         /\ RecordedOf(h)'
<1>r. PICK r \in Requests : call[h].req = r
  BY JobGoto DEF StateOK, LocalsOK, JobSteps
<1>pc. pc[h] \in JobSteps /\ pc'[h] \in JobSteps \cup {"return"}
  BY JobGoto DEF StateOK
<1>0. /\ pc[h] # "idle" /\ pc'[h] # "idle" /\ call'[h].req = r
      /\ pc[h] # "rollback" /\ call[h].won \subseteq Recorded(r)
      /\ pc[h] = "succeed" => call[h].size \in Recorded(r)
  BY <1>r, <1>pc, JobIsLocal DEF JobSteps, RecordedOf
<1>types. /\ output \in [Requests -> [Sizes -> Nat \cup {NoRow}]]
          /\ call[h].hash \in Nat
          /\ pc[h] \in SizeSteps => call[h].size \in Sizes
  BY DEF StateOK, TablesTypeOK, LocalsOK, Calls
<1>1. /\ \A q \in Requests : Recorded(q) \subseteq Recorded(q)'
      /\ RecordStoragePath(h) /\ pc'[h] = "succeed" =>
           call[h].size \in Recorded(r)'
  <2>1. CASE UNCHANGED output /\ ~RecordStoragePath(h)
    BY <2>1 DEF Recorded
  <2>2. CASE CreateOutput(h)
    <3>1. \/ output' = [output EXCEPT ![call[h].req][call[h].size] = EmptyPath]
          \/ output' = output
      BY <2>2 DEF CreateOutput
    <3>2. pc[h] = "create" /\ pc'[h] # "succeed"
      BY <2>2, OtherStepsDo
    <3>3. ~RecordStoragePath(h)
      BY <3>2, OtherStepsDo
    <3>4. QED
      BY <3>1, <3>3, <1>0, <1>r, <1>types DEF Recorded, EmptyPath, NoRow
  <2>3. CASE RecordStoragePath(h)
    <3>1. \/ output' = [output EXCEPT
                          ![call[h].req][call[h].size] = call[h].hash]
          \/ output' = output /\ pc'[h] # "succeed"
      BY <2>3, StepFacts DEF RecordStoragePath
    <3>2. call[h].size \in Sizes
      BY <2>3, <1>types, OtherStepsDo DEF SizeSteps
    <3>3. CASE output' = [output EXCEPT
                            ![call[h].req][call[h].size] = call[h].hash]
      BY <3>2, <3>3, <1>0, <1>r, <1>types DEF Recorded, NoRow
    <3>4. CASE output' = output /\ pc'[h] # "succeed"
      BY <3>4 DEF Recorded
    <3>5. QED
      BY <3>1, <3>3, <3>4
  <2>4. ~Rollback(h)
    BY <1>0, OtherStepsDo
  <2>5. QED
    BY <2>1, <2>2, <2>3, <2>4, JobFrames
<1>2. pc'[h] # "rollback"
  <2>1. CASE LoadRequest(h) \/ MarkProcessing(h) \/ LoadSizes(h) \/ Inspect(h)
    BY <2>1, LoadRequestDoes, MarkProcessingDoes, LoadSizesDoes, InspectDoes
  <2>2. CASE MarkNextBad(h) \/ ProcessSizes(h) \/ OutputHashFor(h)
    BY <2>2, <1>0, MarkNextBadDoes, ProcessSizesDoes, OutputHashForDoes
  <2>3. CASE LookupOutput(h) \/ MarkSizeCompleted(h)
    BY <2>3, LookupOutputDoes, MarkSizeCompletedDoes
  <2>4. QED
    BY <2>1, <2>2, <2>3, OtherStepsDo DEF HandleStep
<1>3. call'[h].won \subseteq Recorded(r)'
  <2>1. CASE MarkSizeCompleted(h)
    <3>1. call'[h].won = call[h].won \cup {call[h].size} /\ pc[h] = "succeed"
      BY <2>1, MarkSizeCompletedDoes
    <3>2. QED
      BY <3>1, <1>0, <1>1
  <2>2. CASE \/ Inspect(h) \/ MarkNextBad(h) \/ ProcessSizes(h)
             \/ LookupOutput(h) \/ SameSizes(h)
    BY <2>2, <1>0, <1>1, InspectDoes, MarkNextBadDoes, ProcessSizesDoes,
       LookupOutputDoes DEF SameSizes
  <2>3. QED
    BY <2>1, <2>2, JobFrames
<1>4. pc'[h] = "succeed" => call'[h].size \in Recorded(r)'
  <2>1. CASE LookupOutput(h)
    <3>1. pc'[h] = "succeed" => output[r][call'[h].size] # NoRow
                                /\ call'[h].size \in Sizes
      BY <2>1, <1>r, LookupOutputDoes, StepFacts DEF Calls
    <3>2. pc'[h] = "succeed" => call'[h].size \in Recorded(r)
      BY <3>1 DEF Recorded
    <3>3. QED
      BY <3>2, <1>0, <1>1
  <2>2. CASE RecordStoragePath(h)
    <3>1. SameSizes(h)
      BY <2>2, SameLocals DEF RecordStoragePath
    <3>2. QED
      BY <2>2, <3>1, <1>1 DEF SameSizes
  <2>3. CASE LoadRequest(h) \/ MarkProcessing(h) \/ LoadSizes(h) \/ Inspect(h)
    BY <2>3, LoadRequestDoes, MarkProcessingDoes, LoadSizesDoes, InspectDoes
  <2>5. CASE \/ MarkNextBad(h) \/ ProcessSizes(h) \/ OutputHashFor(h)
             \/ MarkSizeCompleted(h)
    BY <2>5, MarkNextBadDoes, ProcessSizesDoes, OutputHashForDoes,
       MarkSizeCompletedDoes
  <2>4. QED
    BY <2>1, <2>2, <2>3, <2>5, OtherStepsDo DEF HandleStep
<1>5. RecordedOf(h)'
  BY <1>0, <1>2, <1>3, <1>4 DEF RecordedOf
<1>6. QED
  BY <1>1, <1>5

\* What Handle writes in the row of its request.
LEMMA JobRowDoes ==
  ASSUME StateOK, NEW h \in Handlers, HandleStep(h), NEW r \in Requests,
         call[h].req = r
  PROVE  /\ row'[r].source = row[r].source
         /\ \/ UNCHANGED row
            \/ /\ MarkProcessing(h) /\ row'[r].status = "processing"
               /\ row'[r].error = row[r].error /\ row'[r].hash = row[r].hash
               /\ row'[r].beat = "fresh"
            \/ /\ OutputHashFor(h) /\ row'[r].status = row[r].status
               /\ row'[r].error = row[r].error /\ row'[r].beat = row[r].beat
               /\ row'[r].hash = call'[h].hash /\ call[h].hash = NoHash
            \/ /\ Finish(h) /\ call[h].todo = {}
               /\ row'[r].status = FinalStatus(call[h].won, Asked(r))
               /\ row'[r].error = row[r].error /\ row'[r].hash = row[r].hash
               /\ row'[r].beat = row[r].beat
            \/ /\ Fail(h) /\ row'[r].status = "failed"
               /\ row'[r].error = call[h].error /\ row'[r].hash = row[r].hash
               /\ row'[r].beat = row[r].beat
<1>types. row \in [Requests -> RequestRow] /\ row[r] \in RequestRow
  BY DEF StateOK, TablesTypeOK
<1>1. CASE UNCHANGED row
  BY <1>1
<1>2. CASE MarkProcessing(h) /\ row' # row
  BY <1>2, <1>types DEF MarkProcessing, RequestRow
<1>3. CASE OutputHashFor(h) /\ row' # row
  <2>1. ASSUME NEW n, row' = [row EXCEPT ![r].hash = n]
        PROVE  /\ row'[r].source = row[r].source
               /\ row'[r].status = row[r].status /\ row'[r].hash = n
               /\ row'[r].error = row[r].error /\ row'[r].beat = row[r].beat
    BY <2>1, <1>types DEF RequestRow
  <2>2. /\ call[h].hash = NoHash /\ call'[h].hash = minted[r] + 1
        /\ row' = [row EXCEPT ![r].hash = minted[r] + 1]
    BY <1>3, OutputHashForDoes
  <2>3. QED
    BY Zenon, <2>1, <2>2, <1>3
<1>4. CASE Finish(h) /\ row' # row
  <2>1. /\ row' = [row EXCEPT ![r].status = FinalStatus(call[h].won, Asked(r))]
        /\ call[h].todo = {}
    BY <1>4 DEF Finish
  <2>2. QED
    BY <2>1, <1>4, <1>types DEF RequestRow
<1>5. CASE Fail(h) /\ row' # row
  BY <1>5, <1>types DEF Fail, RequestRow
<1>6. QED
  BY <1>1, <1>2, <1>3, <1>4, <1>5, JobFrames

\* Only the end of Handle claims "completed".
LEMMA CompletedByFinish ==
  ASSUME StateOK, [Next]_vars, NEW r \in Requests,
         row'[r].status = "completed", row[r].status # "completed"
  PROVE  \E h \in Handlers : /\ RunJob(h) /\ Finish(h) /\ call[h].req = r
                             /\ call[h].won = Asked(r)
<1>1. ASSUME NEW h \in Handlers, RunJob(h)
      PROVE  /\ Finish(h) /\ call[h].req = r
             /\ call[h].won = Asked(r)
  <2>1. HandleStep(h) /\ call[h].req = r
    BY <1>1, JobIsLocal DEF RunJob
  <2>2. Finish(h) /\ FinalStatus(call[h].won, Asked(r)) = "completed"
    BY <2>1, JobRowDoes
  <2>3. QED
    BY <2>1, <2>2 DEF FinalStatus
<1>2. ASSUME NEW h \in Handlers, CreateRequest(h) PROVE FALSE
  BY <1>2, CreateRequestDoes DEF OthersKept
<1>3. ASSUME NEW h \in Handlers, RecordSourcePath(h) PROVE FALSE
  BY <1>3, RecordSourcePathDoes DEF OthersKept
<1>4. ASSUME NEW h \in Handlers, ResetRequest(h) PROVE FALSE
  BY <1>4, ResetRequestDoes DEF OthersKept
<1>5. ASSUME NEW h \in Handlers,
             CheckRetryable(h) \/ PutUploadedFile(h) \/ Acquire(h) \/ Return(h)
      PROVE  FALSE
  BY <1>5, CheckRetryableDoes, PutUploadedFileDoes, SlotStepsDo DEF tables
<1>6. ~SweepStaleProcessingRequests
  BY SweepDoes
<1>7. /\ \A h \in Handlers : ~Tick(h)
      /\ \A q \in Requests : ~(Lapse(q) \/ Stall(q))
  BY BeatStepsDo DEF SameButBeat
<1>8. ~Crash /\ ~UNCHANGED vars
  BY CrashDoes DEF tables, vars
<1>9. QED
  BY <1>1, <1>2, <1>3, <1>4, <1>5, <1>6, <1>7, <1>8 DEF Next, Progress

\* Every step keeps what is counted recorded.
LEMMA NextKeepsRecorded ==
  ASSUME StateOK, AskedInv, RecordedInv, [Next]_vars
  PROVE  RecordedInv'
<1>asked. /\ \A r \in Requests : row[r].status # "absent" =>
               row'[r].status # "absent" /\ Asked(r)' = Asked(r)
          /\ AskedInv'
  BY NextKeepsAsked
<1>output. UNCHANGED output => \A r \in Requests : Recorded(r)' = Recorded(r)
  BY DEF Recorded
<1>locals. LocalsOK
  BY DEF StateOK
<1>1. ASSUME Faultless'
      PROVE  /\ \A h \in Handlers : RecordedOf(h)'
             /\ \A r \in Requests : Recorded(r) \subseteq Recorded(r)'
  <2>old. Faultless /\ \A h \in Handlers : RecordedOf(h)
    BY <1>1, FaultsStay DEF RecordedInv
  <2>same. ASSUME NEW g \in Handlers, RecordedOf(g),
                  pc'[g] = pc[g], call'[g] = call[g],
                  \A r \in Requests : Recorded(r) \subseteq Recorded(r)'
           PROVE  RecordedOf(g)'
    <3>1. CASE pc[g] = "idle"
      BY <3>1, <2>same DEF RecordedOf
    <3>2. CASE pc[g] # "idle"
      <4>1. PICK r \in Requests : call[g].req = r
        BY <3>2, <1>locals DEF LocalsOK
      <4>2. QED
        BY <4>1, <3>2, <2>same DEF RecordedOf
    <3>3. QED
      BY <3>1, <3>2
  <2>1. ASSUME NEW h \in Handlers, RunJob(h)
        PROVE  /\ \A g \in Handlers : RecordedOf(g)'
               /\ \A r \in Requests : Recorded(r) \subseteq Recorded(r)'
    <3>1. /\ \A r \in Requests : Recorded(r) \subseteq Recorded(r)'
          /\ RecordedOf(h)'
      BY <1>1, <2>1, <2>old, JobKeepsRecorded DEF RunJob
    <3>2. \A g \in Handlers \ {h} : pc'[g] = pc[g] /\ call'[g] = call[g]
      BY <2>1, JobIsLocal DEF RunJob
    <3>3. QED
      BY <2>old, <2>same, <3>1, <3>2
  <2>2. ASSUME NEW h \in Handlers,
               \/ CreateRequest(h) \/ CheckRetryable(h) \/ PutUploadedFile(h)
               \/ RecordSourcePath(h) \/ ResetRequest(h) \/ Acquire(h)
               \/ Return(h)
        PROVE  /\ \A g \in Handlers : RecordedOf(g)'
               /\ \A r \in Requests : Recorded(r) \subseteq Recorded(r)'
    <3>1. OthersStay(h) /\ UNCHANGED output
      BY <2>2, CreateRequestDoes, CheckRetryableDoes, PutUploadedFileDoes,
         RecordSourcePathDoes, ResetRequestDoes, SlotStepsDo DEF tables
    <3>2. /\ pc'[h] \notin {"rollback", "succeed"}
          /\ \/ call'[h].won = {}
             \/ call'[h] = call[h] /\ pc[h] # "idle"
      <4>1. CASE CreateRequest(h) \/ CheckRetryable(h)
        <5>1. call[h] = Idle
          BY <4>1, CreateRequestDoes, CheckRetryableDoes DEF AskedInv, AskedOf
        <5>2. SameSizes(h) /\ pc'[h] \in {"upload", "reset"}
          BY <4>1, CreateRequestDoes, CheckRetryableDoes
        <5>3. QED
          BY <5>1, <5>2 DEF SameSizes, Idle
      <4>2. CASE PutUploadedFile(h) \/ RecordSourcePath(h)
        BY <4>2, PutUploadedFileDoes, RecordSourcePathDoes DEF Idle
      <4>3. CASE ResetRequest(h) \/ Acquire(h) \/ Return(h)
        BY <4>3, ResetRequestDoes, SlotStepsDo DEF Idle
      <4>4. QED
        BY <2>2, <4>1, <4>2, <4>3
    <3>3. \A r \in Requests : Recorded(r)' = Recorded(r)
      BY <3>1, <1>output
    <3>4. RecordedOf(h)'
      <4>1. CASE call'[h].won = {}
        BY <3>2, <4>1 DEF RecordedOf
      <4>2. CASE call'[h] = call[h] /\ pc[h] # "idle"
        <5>1. PICK r \in Requests : call[h].req = r
          BY <4>2, <1>locals DEF LocalsOK
        <5>2. QED
          BY <4>2, <5>1, <3>2, <3>3, <2>old DEF RecordedOf
      <4>3. QED
        BY <3>2, <4>1, <4>2
    <3>5. QED
      BY <3>1, <3>3, <3>4, <2>old, <2>same DEF OthersStay
  <2>3. CASE \/ SweepStaleProcessingRequests \/ UNCHANGED vars
             \/ \E h \in Handlers : Tick(h)
             \/ \E r \in Requests : Lapse(r) \/ Stall(r)
    <3>1. UNCHANGED <<output, pc, call>>
      BY <2>3, SweepDoes, BeatStepsDo DEF vars
    <3>2. QED
      BY <3>1, <1>output, <2>old, <2>same
  <2>4. CASE Crash
    <3>1. \A h \in Handlers : RecordedOf(h)'
      BY <2>4, CrashDoes DEF RecordedOf
    <3>2. QED
      BY <2>4, <3>1, <1>output, CrashDoes DEF tables
  <2>5. QED
    BY <2>1, <2>2, <2>3, <2>4 DEF Next, Progress
<1>2. ASSUME NEW r \in Requests, Faultless', row'[r].status = "completed"
      PROVE  Asked(r)' = Recorded(r)'
  <2>1. CASE row[r].status = "completed"
    <3>1. Asked(r)' = Asked(r) /\ Recorded(r)' \subseteq Asked(r)'
      BY <2>1, <1>asked DEF AskedInv
    <3>2. Asked(r) = Recorded(r)
      BY <1>2, <2>1, FaultsStay DEF RecordedInv, CompletedIsRecorded
    <3>3. QED
      BY <3>1, <3>2, <1>1, <1>2
  <2>2. CASE row[r].status # "completed"
    <3>1. PICK h \in Handlers : /\ RunJob(h) /\ Finish(h) /\ call[h].req = r
                                /\ call[h].won = Asked(r)
      BY <1>2, <2>2, CompletedByFinish
    <3>2. pc[h] # "idle" /\ Faultless
      BY <1>2, <3>1, FaultsStay DEF Finish, At
    <3>3. Asked(r) \subseteq Recorded(r) /\ Recorded(r) \subseteq Asked(r)
      BY <3>1, <3>2 DEF RecordedInv, RecordedOf, AskedInv
    <3>4. Asked(r)' = Asked(r) /\ Recorded(r)' = Recorded(r)
      BY <3>1, <1>output, JobKeepsAsked DEF RunJob, Finish
    <3>5. QED
      BY <3>3, <3>4
  <2>3. QED
    BY <2>1, <2>2
<1>3. QED
  BY <1>1, <1>2 DEF RecordedInv, CompletedIsRecorded

(***************************************************************************)
(* Uploads.                                                                *)
(***************************************************************************)

\* No other goroutine works on the request of h.
Sole(h) == \A g \in Handlers \ {h} : call[g].req # call[h].req

\* h will remove the upload of its request: it runs Handle and has seen the
\* path, or it is the only one on its way there and the path is recorded.
Owns(h) ==
  \/ /\ pc[h] \in {"record", "acquire", "load", "mark"}
     /\ row[call[h].req].status = "pending" /\ Sole(h)
     /\ pc[h] \in {"acquire", "load"} => row[call[h].req].source
     /\ pc[h] = "mark" => call[h].source
  \/ pc[h] \in JobSteps \ {"load", "mark"} /\ call[h].source

\* Every upload has an owner.
UploadInv ==
  Undisturbed =>
    /\ \A h \in Handlers : pc[h] = "upload" =>
         row[call[h].req].status = "pending" /\ Sole(h)
    /\ \A r \in Requests : upload[r] # "none" =>
         \E h \in Handlers : call[h].req = r /\ Owns(h)

\* A step of h takes no upload from another goroutine, if it leaves alone the
\* pending requests that are not its own.
LEMMA OthersOwn ==
  ASSUME StateOK, NEW h \in Handlers, OthersStay(h),
         \A g \in Handlers \ {h}, q \in Requests :
           /\ call[g].req = q /\ Sole(g) /\ row[q].status = "pending"
           => /\ call'[h].req # q /\ row'[q].status = "pending"
              /\ row[q].source => row'[q].source,
         NEW g \in Handlers \ {h}
  PROVE  /\ Owns(g) => Owns(g)'
         /\ /\ pc[g] = "upload" /\ Sole(g)
            /\ row[call[g].req].status = "pending"
            => row'[call'[g].req].status = "pending" /\ Sole(g)'
<1>stay. pc'[g] = pc[g] /\ call'[g] = call[g]
  BY DEF OthersStay
<1>1. ASSUME pc[g] # "idle", Sole(g), row[call[g].req].status = "pending"
      PROVE  /\ Sole(g)' /\ row'[call'[g].req].status = "pending"
             /\ row[call[g].req].source => row'[call'[g].req].source
  <2>1. PICK q \in Requests : call[g].req = q
    BY <1>1 DEF StateOK, LocalsOK
  <2>2. /\ call'[h].req # q /\ row'[q].status = "pending"
        /\ row[q].source => row'[q].source
    BY <1>1, <2>1
  <2>3. Sole(g)'
    BY <1>1, <1>stay, <2>1, <2>2 DEF Sole, OthersStay
  <2>4. QED
    BY <2>1, <2>2, <2>3, <1>stay
<1>2. Owns(g) => Owns(g)'
  <2>1. CASE pc[g] \in JobSteps \ {"load", "mark"} /\ call[g].source
    BY <2>1, <1>stay DEF Owns
  <2>2. CASE /\ pc[g] \in {"record", "acquire", "load", "mark"}
             /\ row[call[g].req].status = "pending" /\ Sole(g)
             /\ pc[g] \in {"acquire", "load"} => row[call[g].req].source
             /\ pc[g] = "mark" => call[g].source
    BY <2>2, <1>1, <1>stay DEF Owns
  <2>3. QED
    BY <2>1, <2>2 DEF Owns
<1>3. QED
  BY <1>1, <1>2

\* A run of Handle that owns its upload keeps it until it removes it.
LEMMA JobKeepsOwning ==
  ASSUME StateOK, NEW h \in Handlers, HandleStep(h), Owns(h), Faultless',
         NEW r \in Requests, call[h].req = r
  PROVE  Owns(h)' \/ upload'[r] = "none"
<1>pc. pc[h] \in JobSteps
  BY JobGoto
<1>1. CASE LoadRequest(h)
  <2>1. /\ pc[h] = "load" /\ row[r].status = "pending" /\ row[r].source
        /\ Sole(h)
    BY <1>1, LoadRequestDoes DEF Owns
  <2>2. pc'[h] = "mark" /\ call'[h].source
    BY <1>1, <2>1, LoadRequestDoes DEF TerminalStatuses
  <2>3. UNCHANGED row
    BY <1>1 DEF LoadRequest, tables
  <2>4. call'[h].req = r /\ Sole(h)'
    BY <2>1, JobIsLocal DEF Sole
  <2>5. QED
    BY <2>1, <2>2, <2>3, <2>4 DEF Owns
<1>2. CASE MarkProcessing(h)
  <2>1. pc[h] = "mark" /\ call[h].source
    BY <1>2, MarkProcessingDoes DEF Owns
  <2>2. pc'[h] = "sizes" /\ call'[h].source
    BY <1>2, <2>1, MarkProcessingDoes
  <2>3. QED
    BY <2>2 DEF Owns, JobSteps
<1>3. ASSUME ~LoadRequest(h), ~MarkProcessing(h)
      PROVE  Owns(h)' \/ upload'[r] = "none"
  <2>1. pc[h] \notin {"load", "mark"}
    <3>1. CASE \/ LoadSizes(h) \/ Inspect(h) \/ MarkNextBad(h)
               \/ ProcessSizes(h) \/ OutputHashFor(h)
      BY <3>1, LoadSizesDoes, InspectDoes, MarkNextBadDoes, ProcessSizesDoes,
         OutputHashForDoes
    <3>2. CASE LookupOutput(h) \/ MarkSizeCompleted(h)
      BY <3>2, LookupOutputDoes, MarkSizeCompletedDoes
    <3>3. QED
      BY <1>3, <3>1, <3>2, OtherStepsDo DEF HandleStep
  <2>2. call[h].source
    BY <1>pc, <2>1 DEF Owns, JobSteps
  <2>3. call'[h].source
    BY <1>3, <2>2, JobFrames, OutputHashForDoes DEF SameRun
  <2>4. CASE CleanupSource(h)
    <3>1. upload' = [upload EXCEPT ![r] = "none"]
      BY <2>4, StepFacts DEF CleanupSource
    <3>2. QED
      BY <3>1 DEF StateOK, TablesTypeOK
  <2>5. CASE LoadSizes(h) \/ Inspect(h) \/ MarkNextBad(h)
    <3>1. pc'[h] \in {"inspect", "limits", "errors", "fail"}
      BY <2>5, <2>2, LoadSizesDoes, InspectDoes, MarkNextBadDoes
    <3>2. QED
      BY <3>1, <2>3 DEF Owns, JobSteps
  <2>6. CASE ProcessSizes(h) \/ OutputHashFor(h) \/ LookupOutput(h)
    <3>1. pc'[h] \in {"errors", "persist", "fail", "create", "succeed"}
      BY <2>6, ProcessSizesDoes, OutputHashForDoes, LookupOutputDoes
    <3>2. QED
      BY <3>1, <2>3 DEF Owns, JobSteps
  <2>7. CASE \/ CreateOutput(h) \/ PutOutput(h) \/ Rollback(h)
             \/ RecordStoragePath(h) \/ MarkSizeFailed(h) \/ Finish(h)
             \/ Fail(h) \/ MarkSizeCompleted(h)
    <3>1. pc'[h] \in {"put", "giveup", "path", "rollback", "succeed",
                      "persist", "cleanup"}
      BY <2>7, <2>2, OtherStepsDo, MarkSizeCompletedDoes
    <3>2. QED
      BY <3>1, <2>3 DEF Owns, JobSteps
  <2>8. QED
    BY <1>3, <2>4, <2>5, <2>6, <2>7 DEF HandleStep
<1>4. QED
  BY <1>1, <1>2, <1>3

\* A step of one goroutine keeps the uploads owned, if it leaves the pending
\* requests of others alone and answers for its own.
LEMMA OneKeepsUploads ==
  ASSUME StateOK, Undisturbed, UploadInv,
         NEW h \in Handlers, OthersStay(h),
         \A g \in Handlers \ {h}, q \in Requests :
           /\ call[g].req = q /\ Sole(g) /\ row[q].status = "pending"
           => /\ call'[h].req # q /\ row'[q].status = "pending"
              /\ row[q].source => row'[q].source,
         pc'[h] = "upload" => /\ row'[call'[h].req].status = "pending"
                              /\ Sole(h)',
         \A r \in Requests :
           /\ upload'[r] # "none"
           /\ upload[r] # "none" => Owns(h) /\ call[h].req = r
           => call'[h].req = r /\ Owns(h)'
  PROVE  UploadInv'
<1>1. \A g \in Handlers \ {h} :
        pc'[g] = "upload" => row'[call'[g].req].status = "pending" /\ Sole(g)'
  <2>1. \A g \in Handlers \ {h} : pc'[g] = "upload" =>
          pc[g] = "upload" /\ row[call[g].req].status = "pending" /\ Sole(g)
    BY DEF UploadInv, OthersStay
  <2>2. QED
    BY <2>1, OthersOwn
<1>2. ASSUME NEW r \in Requests, upload'[r] # "none"
      PROVE  \E g \in Handlers : call'[g].req = r /\ Owns(g)'
  <2>1. CASE upload[r] # "none" => Owns(h) /\ call[h].req = r
    BY <1>2, <2>1
  <2>2. CASE \E g \in Handlers \ {h} : call[g].req = r /\ Owns(g)
    BY <2>2, OthersOwn DEF OthersStay
  <2>3. QED
    BY <2>1, <2>2 DEF UploadInv
<1>3. QED
  BY <1>1, <1>2 DEF UploadInv

\* Every step keeps every upload owned.
LEMMA NextKeepsUploads ==
  ASSUME StateOK, AskedInv, UploadInv, [Next]_vars
  PROVE  UploadInv'
<1>0. SUFFICES ASSUME Undisturbed' PROVE UploadInv'
  BY DEF UploadInv
<1>old. Undisturbed /\ Faultless'
  BY <1>0, FaultsStay DEF Undisturbed
<1>null. NULL \notin Requests
  BY PipelineAssumption
<1>req. \A g \in Handlers : pc[g] # "idle" => call[g].req \in Requests
  BY DEF StateOK, LocalsOK
<1>idle. \A g \in Handlers : call[g].req \in Requests =>
           pc[g] # "idle" /\ row[call[g].req].status # "absent"
  BY <1>null DEF AskedInv, AskedOf, Idle
<1>busy. \A h, g \in Handlers, q \in Requests :
           /\ g # h /\ call[g].req = q /\ Sole(g)
           => call[h].req # q
  BY DEF Sole
<1>1. ASSUME NEW h \in Handlers, CreateRequest(h) PROVE UploadInv'
  <2>1. PICK r \in Requests :
          /\ call'[h].req = r /\ OthersKept(r)
          /\ row[r].status = "absent" /\ row'[r].status = "pending"
    BY <1>1, CreateRequestDoes
  <2>2. /\ pc[h] = "idle" /\ pc'[h] = "upload" /\ OthersStay(h)
        /\ UNCHANGED upload
    BY <1>1, CreateRequestDoes DEF disks
  <2>3. \A g \in Handlers : call[g].req # r
    BY <1>idle, <2>1
  <2>4. Sole(h)'
    BY <2>1, <2>2, <2>3 DEF Sole, OthersStay
  <2>5. upload[r] = "none"
    BY <2>3, <1>old DEF UploadInv
  <2>6. ~Owns(h)
    BY <2>2 DEF Owns, JobSteps
  <2>7. \A g \in Handlers \ {h}, q \in Requests :
          /\ call[g].req = q /\ Sole(g) /\ row[q].status = "pending"
          => /\ call'[h].req # q /\ row'[q].status = "pending"
             /\ row[q].source => row'[q].source
    BY <2>1, <2>3 DEF OthersKept
  <2>8. \A q \in Requests :
          ~ (upload'[q] # "none" /\ (upload[q] # "none" => Owns(h)))
    BY <2>2, <2>6
  <2>9. QED
    BY <1>old, <2>1, <2>2, <2>4, <2>7, <2>8, OneKeepsUploads
<1>2. ASSUME NEW h \in Handlers, CheckRetryable(h) PROVE UploadInv'
  <2>1. PICK r \in Requests :
          call'[h].req = r /\ row[r].status \in RetryableStatuses
    BY <1>2, CheckRetryableDoes
  <2>2. /\ pc[h] = "idle" /\ pc'[h] = "reset" /\ OthersStay(h)
        /\ UNCHANGED <<row, upload>>
    BY <1>2, CheckRetryableDoes DEF disks, tables
  <2>3. ~Owns(h)
    BY <2>2 DEF Owns, JobSteps
  <2>4. \A g \in Handlers \ {h}, q \in Requests :
          /\ call[g].req = q /\ Sole(g) /\ row[q].status = "pending"
          => /\ call'[h].req # q /\ row'[q].status = "pending"
             /\ row[q].source => row'[q].source
    BY <2>1, <2>2 DEF RetryableStatuses
  <2>5. \A q \in Requests :
          ~ (upload'[q] # "none" /\ (upload[q] # "none" => Owns(h)))
    BY <2>2, <2>3
  <2>6. QED
    BY <1>old, <2>2, <2>4, <2>5, OneKeepsUploads
<1>3. ASSUME NEW h \in Handlers, NEW r \in Requests, call[h].req = r,
             call'[h].req \in {r, NULL}, OthersStay(h), OthersKept(r),
             pc'[h] # "upload",
             upload'[r] # "none" =>
               \/ upload[r] # "none" /\ ~Owns(h)
               \/ call'[h].req = r /\ Owns(h)'
      PROVE  UploadInv'
  <2>1. \A g \in Handlers \ {h}, q \in Requests :
          /\ call[g].req = q /\ Sole(g) /\ row[q].status = "pending"
          => /\ call'[h].req # q /\ row'[q].status = "pending"
             /\ row[q].source => row'[q].source
    <3>1. ASSUME NEW g \in Handlers \ {h}, NEW q \in Requests,
                 call[g].req = q, Sole(g), row[q].status = "pending"
          PROVE  /\ call'[h].req # q /\ row'[q].status = "pending"
                 /\ row[q].source => row'[q].source
      <4>1. q # r
        BY <3>1, <1>3 DEF Sole
      <4>2. row'[q] = row[q]
        BY <4>1, <1>3 DEF OthersKept
      <4>3. QED
        BY <4>1, <4>2, <3>1, <1>3, <1>null
    <3>2. QED
      BY <3>1
  <2>2. \A q \in Requests :
          /\ upload'[q] # "none"
          /\ upload[q] # "none" => Owns(h) /\ call[h].req = q
          => call'[h].req = q /\ Owns(h)'
    BY <1>3 DEF OthersKept
  <2>3. QED
    BY <1>old, <1>3, <2>1, <2>2, OneKeepsUploads
<1>4. ASSUME NEW h \in Handlers, PutUploadedFile(h) PROVE UploadInv'
  <2>1. PICK r \in Requests : call[h].req = r
    BY <1>4, PutUploadedFileDoes
  <2>2. /\ pc[h] = "upload" /\ pc'[h] = "record" /\ OthersStay(h)
        /\ OthersKept(r) /\ UNCHANGED <<row, call>>
    BY <1>4, <1>old, <2>1, PutUploadedFileDoes
  <2>3. row[r].status = "pending" /\ Sole(h)
    BY <1>old, <2>1, <2>2 DEF UploadInv
  <2>4. Owns(h)'
    BY <2>1, <2>2, <2>3 DEF Owns, Sole
  <2>5. QED
    BY <2>1, <2>2, <2>4, <1>3
<1>5. ASSUME NEW h \in Handlers, RecordSourcePath(h) PROVE UploadInv'
  <2>1. PICK r \in Requests : call[h].req = r
    BY <1>5, RecordSourcePathDoes
  <2>2. /\ pc[h] = "record" /\ pc'[h] = "acquire" /\ OthersStay(h)
        /\ OthersKept(r) /\ UNCHANGED <<upload, call>>
        /\ row'[r].source /\ row'[r].status = row[r].status
    BY <1>5, <1>old, <2>1, RecordSourcePathDoes DEF disks
  <2>3. Owns(h) => Owns(h)'
    BY <2>1, <2>2 DEF Owns, Sole, JobSteps
  <2>4. QED
    BY <2>1, <2>2, <2>3, <1>3
<1>6. ASSUME NEW h \in Handlers, ResetRequest(h) PROVE UploadInv'
  <2>1. PICK r \in Requests : call[h].req = r
    BY <1>6, ResetRequestDoes
  <2>2. /\ pc[h] = "reset" /\ pc'[h] = "acquire" /\ OthersStay(h)
        /\ OthersKept(r) /\ UNCHANGED <<upload, call>>
    BY <1>6, <1>old, <2>1, ResetRequestDoes DEF disks
  <2>3. ~Owns(h)
    BY <2>2 DEF Owns, JobSteps
  <2>4. QED
    BY <2>1, <2>2, <2>3, <1>3
<1>7. ASSUME NEW h \in Handlers, Acquire(h) PROVE UploadInv'
  <2>1. /\ pc[h] = "acquire" /\ pc'[h] = "load" /\ OthersStay(h)
        /\ UNCHANGED <<row, sizeStatus, output, upload, call>>
    BY <1>7, SlotStepsDo DEF tables, disks
  <2>2. PICK r \in Requests : call[h].req = r
    BY <2>1, <1>req
  <2>3. Owns(h) => Owns(h)'
    BY <2>1 DEF Owns, Sole, JobSteps
  <2>4. OthersKept(r)
    BY <2>1 DEF OthersKept
  <2>5. QED
    BY <2>1, <2>2, <2>3, <2>4, <1>3
<1>8. ASSUME NEW h \in Handlers, Return(h) PROVE UploadInv'
  <2>1. /\ pc[h] = "return" /\ pc'[h] = "idle" /\ OthersStay(h)
        /\ UNCHANGED <<row, sizeStatus, output, upload>>
        /\ call'[h].req = NULL
    BY <1>8, SlotStepsDo DEF tables, disks, Idle
  <2>2. PICK r \in Requests : call[h].req = r
    BY <2>1, <1>req
  <2>3. ~Owns(h)
    BY <2>1 DEF Owns, JobSteps
  <2>4. OthersKept(r)
    BY <2>1 DEF OthersKept
  <2>5. QED
    BY <2>1, <2>2, <2>3, <2>4, <1>3
<1>9. ASSUME NEW h \in Handlers, RunJob(h) PROVE UploadInv'
  <2>0. HandleStep(h)
    BY <1>9 DEF RunJob
  <2>1. /\ pc[h] \in JobSteps /\ pc'[h] \in JobSteps \cup {"return"}
    BY <2>0, JobGoto DEF StateOK
  <2>2. PICK r \in Requests : call[h].req = r
    BY <2>1, <1>req DEF JobSteps
  <2>3. /\ call'[h].req = r /\ OthersStay(h) /\ OthersKept(r)
    BY <2>0, <2>2, JobIsLocal DEF OthersStay, OthersKept
  <2>4. Owns(h) => Owns(h)' \/ upload'[r] = "none"
    BY <2>0, <2>2, <1>old, JobKeepsOwning
  <2>5. upload[r] = "none" => upload'[r] = "none"
    <3>1. CASE CleanupSource(h)
      BY <3>1, <2>2 DEF CleanupSource, StateOK, TablesTypeOK
    <3>2. QED
      BY <3>1, <2>0, JobFrames
  <2>6. pc'[h] # "upload"
    BY <2>1 DEF JobSteps
  <2>7. QED
    BY <2>2, <2>3, <2>4, <2>5, <2>6, <1>3
<1>10. CASE \/ SweepStaleProcessingRequests \/ UNCHANGED vars
            \/ \E h \in Handlers : Tick(h)
            \/ \E r \in Requests : Lapse(r) \/ Stall(r)
  <2>1. /\ UNCHANGED <<upload, pc, call>>
        /\ \A r \in Requests : row[r].status = "pending" =>
             /\ row'[r].status = "pending"
             /\ row'[r].source = row[r].source
    BY <1>10, SweepDoes, BeatStepsDo DEF disks, SameButBeat, vars
  <2>2. \A h \in Handlers : Owns(h) => Owns(h)'
    <3>1. ASSUME NEW h \in Handlers, Owns(h) PROVE Owns(h)'
      <4>1. PICK r \in Requests : call[h].req = r
        BY <3>1, <1>req DEF Owns, JobSteps
      <4>2. QED
        BY <3>1, <4>1, <2>1 DEF Owns, Sole
    <3>2. QED
      BY <3>1
  <2>3. \A h \in Handlers : pc'[h] = "upload" =>
          row'[call'[h].req].status = "pending" /\ Sole(h)'
    <3>1. ASSUME NEW h \in Handlers, pc'[h] = "upload"
          PROVE  row'[call'[h].req].status = "pending" /\ Sole(h)'
      <4>1. PICK r \in Requests : call[h].req = r
        BY <3>1, <2>1, <1>req
      <4>2. row[r].status = "pending" /\ Sole(h)
        BY <3>1, <4>1, <2>1, <1>old DEF UploadInv
      <4>3. QED
        BY <4>1, <4>2, <2>1 DEF Sole
    <3>2. QED
      BY <3>1
  <2>4. \A r \in Requests : upload'[r] # "none" =>
          \E h \in Handlers : call'[h].req = r /\ Owns(h)'
    BY <2>1, <2>2, <1>old DEF UploadInv
  <2>5. QED
    BY <2>3, <2>4 DEF UploadInv
<1>11. ~Crash
  BY <1>0, CrashDoes
<1>12. QED
  BY <1>1, <1>2, <1>4, <1>5, <1>6, <1>7, <1>8, <1>9, <1>10, <1>11
     DEF Next, Progress

(***************************************************************************)
(* What overlapping attempts leave behind.                                 *)
(***************************************************************************)
AttemptInv == AskedInv /\ RecordedInv /\ UploadInv

\* Empty tables record nothing and keep no upload.
LEMMA InitAttempts ==
  ASSUME Init
  PROVE  AttemptInv
<1>1. AskedInv
  BY DEF Init, TablesInit, AbsentRow, AskedInv, AskedOf, Asked, Recorded
<1>2. RecordedInv
  BY DEF Init, TablesInit, AbsentRow, RecordedInv, RecordedOf,
         CompletedIsRecorded
<1>3. UploadInv
  BY DEF Init, TablesInit, UploadInv
<1>4. QED
  BY <1>1, <1>2, <1>3 DEF AttemptInv

\* The locals of every attempt agree with the tables, whatever retries,
\* crashes and sweeps happened to its request.
THEOREM AttemptsAreSound == Spec => []AttemptInv
<1>1. Init => AttemptInv
  BY InitAttempts
<1>2. Inv /\ AttemptInv /\ [Next]_vars => AttemptInv'
  BY NextKeepsAsked, NextKeepsRecorded, NextKeepsUploads DEF Inv, AttemptInv
<1>3. QED
  BY <1>1, <1>2, Invariance, PTL DEF Spec

\* "completed" is written only over a row of image_outputs for every size that
\* was asked for, however many attempts overlapped.
THEOREM CompletedHasAllRows == Spec => []CompletedIsRecorded
<1>1. AttemptInv => CompletedIsRecorded
  BY DEF AttemptInv, RecordedInv
<1>2. QED
  BY <1>1, AttemptsAreSound, PTL

\* While no statement fails and no process dies, an upload is on the disk only
\* as long as a goroutine that will remove it is under way.
THEOREM UploadsAreRemoved == Spec => []NoLeftoverUpload
<1>1. AttemptInv => NoLeftoverUpload
  BY DEF AttemptInv, UploadInv, NoLeftoverUpload
<1>2. QED
  BY <1>1, AttemptsAreSound, PTL
=============================================================================
