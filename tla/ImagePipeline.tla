--------------------------- MODULE ImagePipeline ---------------------------
(***************************************************************************)
(* The whole server: HTTP goroutines that create and retry requests and    *)
(* process them inline under the process-wide semaphore, the sweep that    *)
(* the scheduler runs every minute, the passage of time, and the death of  *)
(* the process, which loses every goroutine and keeps the tables and the   *)
(* disks.  The response a goroutine finally sends is not modelled here.    *)
(***************************************************************************)
EXTENDS ProcessImageRequestJob, FiniteSets

CONSTANT MaxConcurrentImageJobs   \* capacity of processingSemaphore

ASSUME PipelineAssumption ==
  /\ MaxConcurrentImageJobs \in Nat \ {0}
  /\ IsFiniteSet(Handlers)
  /\ NULL \notin Requests \cup Sizes

VARIABLE tokens   \* number of values in the channel processingSemaphore

vars == <<row, sizeStatus, output, upload, bucket, minted, spent, pc, call,
          tokens>>

ServiceSteps == {"idle", "upload", "record", "reset", "acquire", "return"}

\* Between the send on processingSemaphore and the deferred receive.
Holding == JobSteps \cup {"return"}

\* Where the heartbeat goroutine of startHeartbeat may be running.
Beating(r) == \E h \in Handlers : call[h].req = r /\ call[h].beating

Init ==
  /\ TablesInit
  /\ pc = [h \in Handlers |-> "idle"]
  /\ call = [h \in Handlers |-> Idle]
  /\ tokens = 0

(***************************************************************************)
(* CreateImageProcessingRequest.  The transaction is atomic; one that      *)
(* fails leaves nothing, so only its success is an action.                 *)
(***************************************************************************)
CreateRequest(h) ==
  /\ At(h, "idle")
  /\ \E r \in Requests, asked \in (SUBSET Sizes) \ {{}} :
       /\ row[r].status = "absent"
       /\ row' = [row EXCEPT ![r].status = "pending"]
       /\ sizeStatus' = [sizeStatus EXCEPT ![r] =
            [s \in Sizes |-> IF s \in asked THEN "pending" ELSE "absent"]]
       /\ call' = [call EXCEPT ![h].req = r]
  /\ Goto(h, "upload")
  /\ UNCHANGED <<output, disks, minted, spent, tokens>>

PutUploadedFile(h) ==
  /\ At(h, "upload")
  /\ \/ /\ \E image \in Images :
             upload' = [upload EXCEPT ![call[h].req] = image]
        /\ Goto(h, "record")
        /\ UNCHANGED <<call, spent>>
     \/ /\ Spend("fault")
        /\ Goto(h, "idle")
        /\ call' = [call EXCEPT ![h] = Idle]
        /\ UNCHANGED upload
  /\ UNCHANGED <<tables, bucket, minted, tokens>>

RecordSourcePath(h) ==
  /\ At(h, "record")
  /\ \/ /\ row' = [row EXCEPT ![call[h].req].source = TRUE]
        /\ Goto(h, "acquire")
        /\ UNCHANGED <<call, spent>>
     \/ /\ Spend("fault")
        /\ Goto(h, "idle")
        /\ call' = [call EXCEPT ![h] = Idle]
        /\ UNCHANGED row
  /\ UNCHANGED <<sizeStatus, output, disks, minted, tokens>>

(***************************************************************************)
(* RetryImageProcessingRequest.  The check and the reset are separate      *)
(* statements and nothing is locked between them.                          *)
(***************************************************************************)
CheckRetryable(h) ==
  /\ At(h, "idle")
  /\ \E r \in Requests :
       /\ row[r].status \in RetryableStatuses
       /\ call' = [call EXCEPT ![h].req = r]
  /\ Goto(h, "reset")
  /\ UNCHANGED <<tables, disks, minted, spent, tokens>>

ResetOnly(h) ==
  /\ At(h, "reset")
  /\ row' = [row EXCEPT ![call[h].req].status = "pending"]
  /\ Goto(h, "idle")
  /\ call' = [call EXCEPT ![h] = Idle]
  /\ UNCHANGED <<sizeStatus, output, disks, minted, spent, tokens>>

ResetRequest(h) ==
  /\ At(h, "reset")
  /\ LET r == call[h].req IN
     \/ /\ row' = [row EXCEPT ![r].status = "pending", ![r].error = "none",
                              ![r].started = FALSE, ![r].beat = "none"]
        /\ sizeStatus' = [sizeStatus EXCEPT ![r] =
             [s \in Sizes |-> IF s \in Asked(r) THEN "pending"
                                                ELSE "absent"]]
        /\ Goto(h, "acquire")
        /\ UNCHANGED <<call, spent>>
     \/ /\ Spend("fault")
        /\ Goto(h, "idle")
        /\ call' = [call EXCEPT ![h] = Idle]
        /\ UNCHANGED <<row, sizeStatus>>
  /\ UNCHANGED <<output, disks, minted, tokens>>

(***************************************************************************)
(* ProcessImageRequestSync around the job.                                 *)
(***************************************************************************)
Acquire(h) ==
  /\ At(h, "acquire")
  /\ tokens < MaxConcurrentImageJobs
  /\ tokens' = tokens + 1
  /\ Goto(h, "load")
  /\ UNCHANGED <<tables, disks, minted, spent, call>>

RunJob(h) == HandleStep(h) /\ UNCHANGED tokens

Tick(h) == Heartbeat(h) /\ UNCHANGED tokens

ReturnKeepingToken(h) ==
  /\ At(h, "return")
  /\ call' = [call EXCEPT ![h] = Idle]
  /\ Goto(h, "idle")
  /\ UNCHANGED <<tables, disks, minted, spent, tokens>>

ReturnReleasingTwice(h) ==
  /\ At(h, "return")
  /\ tokens' = tokens - 2
  /\ call' = [call EXCEPT ![h] = Idle]
  /\ Goto(h, "idle")
  /\ UNCHANGED <<tables, disks, minted, spent>>

\* stopHeartbeat, then the deferred receive from the semaphore.
Return(h) ==
  /\ At(h, "return")
  /\ tokens' = tokens - 1
  /\ call' = [call EXCEPT ![h] = Idle]
  /\ Goto(h, "idle")
  /\ UNCHANGED <<tables, disks, minted, spent>>

(***************************************************************************)
(* The sweep: one UPDATE over every abandoned row.  The age of started_at  *)
(* is not kept, so that the fallback may apply at any time.                *)
(***************************************************************************)
AbandonedByStartOnly(r) ==
  row[r].status = "processing" /\ row[r].beat = "none" /\ row[r].started

AbandonedInAnyStatus(r) ==
  IF row[r].beat = "none" THEN row[r].started ELSE row[r].beat = "stale"

Abandoned(r) ==
  /\ row[r].status = "processing"
  /\ IF row[r].beat = "none" THEN row[r].started ELSE row[r].beat = "stale"

Swept(r) == [row[r] EXCEPT !.status = "failed", !.error = "interrupted"]

SweepStaleProcessingRequests ==
  /\ \E r \in Requests : Abandoned(r)
  /\ row' = [r \in Requests |-> IF Abandoned(r) THEN Swept(r) ELSE row[r]]
  /\ UNCHANGED <<sizeStatus, output, disks, minted, spent, pc, call, tokens>>

Age(r) == /\ row[r].beat = "fresh"
          /\ row' = [row EXCEPT ![r].beat = "stale"]
          /\ UNCHANGED <<sizeStatus, output, disks, minted, pc, call, tokens>>

\* StaleProcessingTimeout passes and nobody beats for r.
Lapse(r) == ~Beating(r) /\ Age(r) /\ UNCHANGED spent

\* It passes although a job beats for r: every tick in it was lost.
Stall(r) == Beating(r) /\ Age(r) /\ Spend("stall")

\* The process dies and is started again with an empty semaphore.
Crash ==
  /\ Spend("crash")
  /\ \E h \in Handlers : ~At(h, "idle")
  /\ pc' = [h \in Handlers |-> "idle"]
  /\ call' = [h \in Handlers |-> Idle]
  /\ tokens' = 0
  /\ UNCHANGED <<tables, disks, minted>>

Progress(h) ==
  \/ PutUploadedFile(h) \/ RecordSourcePath(h) \/ ResetRequest(h)
  \/ RunJob(h) \/ Return(h)

Next ==
  \/ \E h \in Handlers :
       \/ CreateRequest(h) \/ CheckRetryable(h) \/ Acquire(h)
       \/ Progress(h) \/ Tick(h)
  \/ SweepStaleProcessingRequests
  \/ \E r \in Requests : Lapse(r) \/ Stall(r)
  \/ Crash

Spec == Init /\ [][Next]_vars

\* Goroutines run; a send on a channel that keeps having room succeeds, its
\* waiters being served in order; time passes and the schedule fires.
Fairness ==
  /\ \A h \in Handlers : WF_vars(Progress(h)) /\ SF_vars(Acquire(h))
  /\ \A r \in Requests : WF_vars(Lapse(r))
  /\ WF_vars(SweepStaleProcessingRequests)

FairSpec == Spec /\ Fairness

TypeOK ==
  /\ TablesTypeOK
  /\ pc \in [Handlers -> ServiceSteps \cup JobSteps]
  /\ call \in [Handlers -> Calls]
  /\ tokens \in Nat

(***************************************************************************)
(* Properties of every interleaving, with crashes, faults and stalls.      *)
(***************************************************************************)

\* An output row that carries a storage path has its object in the bucket:
\* persistOutput writes the path only after PutOutput succeeded, and nothing
\* deletes objects.  (A row whose path was not recorded is not covered: an
\* answer gives it the url of the bucket.)
ServedIsStored ==
  \A r \in Requests : \A s \in Served(r) : <<r, s, output[r][s]>> \in bucket

\* The semaphore holds one value for every goroutine inside
\* ProcessImageRequestSync, whichever return it takes, and never more than
\* MaxConcurrentImageJobs of them run.
SemaphoreCounts ==
  /\ tokens = Cardinality({h \in Handlers : pc[h] \in Holding})
  /\ tokens <= MaxConcurrentImageJobs

\* A row that says "processing" has a heartbeat, whatever retries, zombie
\* workers and sweeps did to it, so that the sweep can always tell its age
\* (and the fallback to started_at is never needed).
ProcessingIsDated ==
  \A r \in Requests : row[r].status = "processing" =>
    row[r].beat # "none" /\ row[r].started

\* At most one goroutine is between creating an output row and recording its
\* path, and the row it works on is still the empty one it created: the
\* rollback and the path update hit no row of another attempt.
OneWriterPerRow ==
  \A h \in Handlers : pc[h] \in {"put", "rollback", "path"} =>
    /\ output[call[h].req][call[h].size] = EmptyPath
    /\ \A g \in Handlers \ {h} :
         pc[g] \in {"put", "rollback", "path"} =>
           <<call[g].req, call[g].size>> # <<call[h].req, call[h].size>>

\* "Outputs are permanent": once a row carries a storage path, no rollback,
\* retry or concurrent attempt removes the row or changes the path.
UrlsArePermanent ==
  [][\A r \in Requests : \A s \in Served(r) :
       output'[r][s] = output[r][s]]_vars

(***************************************************************************)
(* Properties of one attempt at a time, with crashes and faults, as long   *)
(* as heartbeats land.                                                     *)
(***************************************************************************)

\* The single hash of a request names every output served for it, across
\* crashes, sweeps and retries.
SharedHash ==
  \A r \in Requests : \A s \in Served(r) : output[r][s] = row[r].hash

Lifecycle == INSTANCE RequestLifecycle WITH
  status   <- [r \in Requests |-> row[r].status],
  asked    <- [r \in Requests |-> Asked(r)],
  recorded <- [r \in Requests |-> Recorded(r)],
  served   <- [r \in Requests |-> Served(r)]

\* The service implements the life cycle of RequestLifecycle.
ImplementsLifecycle == Lifecycle!Spec

(***************************************************************************)
(* Properties that a failing statement may break, stated of the behaviours *)
(* in which none has failed (and, for the last ones, no process has died). *)
(***************************************************************************)
Faultless  == spent["fault"] = 0
Undisturbed == Faultless /\ spent["crash"] = 0

\* Even with concurrent attempts, "completed" is written only when every
\* size has an output row, each of them made by some attempt.
CompletedIsRecorded ==
  \A r \in Requests : Faultless /\ row[r].status = "completed" =>
    Asked(r) = Recorded(r)

\* What the request row says and what its size rows say agree: the terminal
\* status of an attempt that ran to its end counts the size rows.
StatusAgreesWithSizes ==
  \A r \in Requests :
    LET done == {s \in Asked(r) : sizeStatus[r][s] = "completed"} IN
    Faultless /\ row[r].status \in TerminalStatuses
    /\ row[r].error = "none" =>
      /\ \A s \in Asked(r) \ done : sizeStatus[r][s] = "failed"
      /\ row[r].status = "completed" <=> done = Asked(r)
      /\ row[r].status = "failed" <=> done = {}

\* The upload goes only when the row has reached a terminal status: a crash
\* before that leaves a source from which a retry can work.
SourceKeptUntilDone ==
  [][\A r \in Requests :
       Faultless /\ upload[r] # "none" /\ upload'[r] = "none" =>
         row[r].status \in TerminalStatuses]_vars

\* A terminal request nobody is working on has no upload left on the disk,
\* unless a statement failed or a process died.
NoLeftoverUpload ==
  \A r \in Requests :
    Undisturbed /\ row[r].status \in TerminalStatuses
    /\ (\A h \in Handlers : call[h].req # r) => upload[r] = "none"

(***************************************************************************)
(* Liveness.                                                               *)
(***************************************************************************)

\* No request is processing for ever: its worker finishes, or the sweep
\* takes it after a crash or a lost terminal write.
ProcessingEnds ==
  \A r \in Requests :
    row[r].status = "processing" ~> row[r].status # "processing"

\* Every goroutine returns: no early return keeps its semaphore slot.
CallsReturn == \A h \in Handlers : ~At(h, "idle") ~> At(h, "idle")

\* A request accepted or retried by a process that keeps running and whose
\* statements succeed reaches a terminal status.
PendingSettles ==
  \A r \in Requests :
    row[r].status = "pending" ~>
      row[r].status \in TerminalStatuses \/ ~Undisturbed

(***************************************************************************)
(* What comments and docs say and the code does not do.                    *)
(***************************************************************************)

\* A "pending" request that is stuck is flipped to "failed" by the sweep.
PendingRecovered ==
  \A r \in Requests : row[r].status = "pending" ~> row[r].status # "pending"

\* Only failed or partially completed requests are taken back to pending.
OnlyRetryableReset ==
  [][\A r \in Requests :
       row'[r].status = "pending" /\ row[r].status # "absent" =>
         row[r].status \in RetryableStatuses \cup {"pending"}]_vars

\* A retry recreates a row without backing file: none is left behind in a
\* completed request.
CompletedIsServed ==
  \A r \in Requests : row[r].status = "completed" => Asked(r) = Served(r)

\* A retry that finds its source deleted reports "no stored source file".
MissingSourceReported ==
  \A h \in Handlers :
    At(h, "fail") /\ upload[call[h].req] = "none" =>
      call[h].error = "no stored source file"
=============================================================================
