----------------------- MODULE ProcessImageRequestJob -----------------------
(***************************************************************************)
(* ProcessImageRequestJob.Handle, one action per database statement or     *)
(* storage call, for every goroutine h of Handlers.  Computation between   *)
(* two such calls belongs to the action of the call before it.  A deferred *)
(* call runs after the write of the terminal status: first cleanupSource,  *)
(* then stopHeartbeat.  Every statement may fail while the fault budget    *)
(* lasts; the code ignores some of those failures and returns on others.   *)
(***************************************************************************)
EXTENDS ImageTables

CONSTANTS Handlers, NULL

VARIABLES
  pc,    \* the call the goroutine is about to make
  call   \* its local variables

JobSteps == {"load", "mark", "sizes", "inspect", "limits", "errors",
             "persist", "create", "put", "rollback", "path", "succeed",
             "giveup", "fail", "cleanup"}

\* req: the request id; hash, source: OutputHash and SourceFilePath as loaded
\* (hash also as assigned); beating: the heartbeat goroutine runs; todo:
\* specs not yet persisted; bad: sizes about to be marked failed; won: sizes
\* counted in successCount; size: the size being persisted; error: the
\* message fail() is about to record.
Idle == [req |-> NULL, hash |-> NoHash, source |-> FALSE, beating |-> FALSE,
         todo |-> {}, bad |-> {}, won |-> {}, size |-> NULL,
         error |-> "none"]

Calls == [req : Requests \cup {NULL}, hash : Nat, source : BOOLEAN,
          beating : BOOLEAN, todo : SUBSET Sizes, bad : SUBSET Sizes,
          won : SUBSET Sizes, size : Sizes \cup {NULL}, error : ErrorKinds]

At(h, step)   == pc[h] = step
Goto(h, step) == pc' = [pc EXCEPT ![h] = step]

\* Handle returns r.fail(request, e).
FailWith(h, e) == /\ Goto(h, "fail")
                  /\ call' = [call EXCEPT ![h].error = e]

(***************************************************************************)
(* Loading the request, the idempotency switch, and marking it processing. *)
(***************************************************************************)
LoadRequest(h) ==
  /\ At(h, "load")
  /\ LET loaded == row[call[h].req] IN
     \/ /\ loaded.status \notin TerminalStatuses
        /\ Goto(h, "mark")
        /\ call' = [call EXCEPT ![h].hash = loaded.hash,
                                ![h].source = loaded.source]
        /\ UNCHANGED spent
     \/ /\ loaded.status \in TerminalStatuses
        /\ Goto(h, "return")
        /\ UNCHANGED <<call, spent>>
     \/ /\ Spend("fault")
        /\ Goto(h, "return")
        /\ UNCHANGED call
  /\ UNCHANGED <<tables, disks, minted>>

MarkProcessingUndated(h) ==
  /\ At(h, "mark")
  /\ row' = [row EXCEPT ![call[h].req].status = "processing",
                        ![call[h].req].started = TRUE]
  /\ Goto(h, "sizes")
  /\ call' = [call EXCEPT ![h].beating = TRUE]
  /\ UNCHANGED <<sizeStatus, output, disks, minted, spent>>

MarkProcessing(h) ==
  /\ At(h, "mark")
  /\ \/ /\ row' = [row EXCEPT ![call[h].req].status = "processing",
                              ![call[h].req].started = TRUE,
                              ![call[h].req].beat = "fresh"]
        /\ Goto(h, "sizes")
        /\ call' = [call EXCEPT ![h].beating = TRUE]
        /\ UNCHANGED spent
     \/ /\ Spend("fault")
        /\ Goto(h, "return")
        /\ UNCHANGED <<row, call>>
  /\ UNCHANGED <<sizeStatus, output, disks, minted>>

\* One tick of the heartbeat goroutine; it does not look at the status.
Heartbeat(h) ==
  /\ call[h].beating
  /\ row[call[h].req].beat # "fresh"
  /\ row' = [row EXCEPT ![call[h].req].beat = "fresh"]
  /\ UNCHANGED <<sizeStatus, output, disks, minted, spent, pc, call>>

\* An error here returns before cleanupSource is deferred and leaves the row
\* at "processing".  A request has at least one size (see CreateRequest).
LoadSizes(h) ==
  /\ At(h, "sizes")
  /\ \/ /\ call[h].source
        /\ Goto(h, "inspect")
        /\ UNCHANGED <<call, spent>>
     \/ /\ ~call[h].source
        /\ FailWith(h, "no stored source file")
        /\ UNCHANGED spent
     \/ /\ Spend("fault")
        /\ Goto(h, "return")
        /\ UNCHANGED call
  /\ UNCHANGED <<tables, disks, minted>>

(***************************************************************************)
(* Decoding.  The file may be gone: another attempt's cleanup removes it.  *)
(***************************************************************************)
Inspect(h) ==
  /\ At(h, "inspect")
  /\ LET r == call[h].req IN
     \/ /\ upload[r] \in {"none", "corrupt"}
        /\ FailWith(h, "invalid image")
        /\ UNCHANGED spent
     \/ /\ upload[r] = "oversized"
        /\ FailWith(h, "exceeds maximum")
        /\ UNCHANGED spent
     \/ /\ upload[r] = "decodable"
        /\ Goto(h, "limits")
        /\ call' = [call EXCEPT ![h].todo = Asked(r) \ OverPixelLimit,
                                ![h].bad = Asked(r) \cap OverPixelLimit]
        /\ UNCHANGED spent
     \/ /\ upload[r] \in {"oversized", "decodable"}  \* dimensions not saved
        /\ Spend("fault")
        /\ Goto(h, "cleanup")
        /\ UNCHANGED call
  /\ UNCHANGED <<tables, disks, minted>>

MarkNextBadSilently(h) ==
  /\ pc[h] \in {"limits", "errors"}
  /\ \E s \in call[h].bad : call' = [call EXCEPT ![h].bad = @ \ {s}]
  /\ UNCHANGED <<tables, disks, minted, spent, pc>>

\* The two loops that call markSizeFailed; its error is dropped.
MarkNextBad(h) ==
  /\ pc[h] \in {"limits", "errors"}
  /\ \E s \in call[h].bad :
       /\ call' = [call EXCEPT ![h].bad = @ \ {s}]
       /\ \/ /\ sizeStatus' = [sizeStatus EXCEPT
                                 ![call[h].req][s] = "failed"]
             /\ UNCHANGED spent
          \/ /\ Spend("fault")
             /\ UNCHANGED sizeStatus
  /\ UNCHANGED <<row, output, disks, minted, pc>>

ProcessSizesDiscardingSource(h) ==
  /\ At(h, "limits")
  /\ call[h].bad = {}
  /\ Goto(h, "errors")
  /\ upload' = [upload EXCEPT ![call[h].req] = "none"]
  /\ UNCHANGED <<tables, bucket, minted, spent, call>>

ProcessSizes(h) ==
  /\ At(h, "limits")
  /\ call[h].bad = {}
  /\ \/ /\ upload[call[h].req] # "none"
        /\ \E broken \in SUBSET call[h].todo :
             call' = [call EXCEPT ![h].todo = @ \ broken,
                                  ![h].bad = broken]
        /\ Goto(h, "errors")
        /\ UNCHANGED spent
     \/ /\ \/ upload[call[h].req] = "none" /\ UNCHANGED spent
           \/ Spend("fault")
        /\ FailWith(h, "processing failed")
  /\ UNCHANGED <<tables, disks, minted>>

OutputHashForEachRun(h) ==
  /\ At(h, "errors")
  /\ call[h].bad = {}
  /\ LET r == call[h].req IN
       /\ minted' = [minted EXCEPT ![r] = @ + 1]
       /\ row' = [row EXCEPT ![r].hash = minted[r] + 1]
       /\ call' = [call EXCEPT ![h].hash = minted[r] + 1]
  /\ Goto(h, "persist")
  /\ UNCHANGED <<sizeStatus, output, disks, spent>>

\* outputHashFor trusts the hash loaded when Handle began.
OutputHashFor(h) ==
  /\ At(h, "errors")
  /\ call[h].bad = {}
  /\ LET r == call[h].req IN
     \/ /\ call[h].hash # NoHash
        /\ Goto(h, "persist")
        /\ UNCHANGED <<row, minted, call, spent>>
     \/ /\ call[h].hash = NoHash
        /\ minted' = [minted EXCEPT ![r] = @ + 1]
        /\ row' = [row EXCEPT ![r].hash = minted[r] + 1]
        /\ call' = [call EXCEPT ![h].hash = minted[r] + 1]
        /\ Goto(h, "persist")
        /\ UNCHANGED spent
     \/ /\ call[h].hash = NoHash
        /\ Spend("fault")
        /\ FailWith(h, "assign output hash")
        /\ UNCHANGED <<row, minted>>
  /\ UNCHANGED <<sizeStatus, output, disks>>

(***************************************************************************)
(* persistOutput, for the outputs one after the other.  The error of the   *)
(* lookup is dropped, as if there were no row.                             *)
(***************************************************************************)
LookupOutput(h) ==
  /\ At(h, "persist")
  /\ \E s \in call[h].todo :
       /\ call' = [call EXCEPT ![h].todo = @ \ {s}, ![h].size = s]
       /\ \/ /\ output[call[h].req][s] # NoRow
             /\ Goto(h, "succeed")
             /\ UNCHANGED spent
          \/ /\ output[call[h].req][s] = NoRow
             /\ Goto(h, "create")
             /\ UNCHANGED spent
          \/ /\ Spend("fault")
             /\ Goto(h, "create")
  /\ UNCHANGED <<tables, disks, minted>>

CreateOutputWithoutIndex(h) ==
  /\ At(h, "create")
  /\ output' = [output EXCEPT ![call[h].req][call[h].size] = EmptyPath]
  /\ Goto(h, "put")
  /\ UNCHANGED <<row, sizeStatus, disks, minted, spent, call>>

\* The unique index on image_processing_request_size_id refuses a second row.
CreateOutput(h) ==
  /\ At(h, "create")
  /\ LET r == call[h].req
         s == call[h].size
     IN \/ /\ output[r][s] = NoRow
           /\ output' = [output EXCEPT ![r][s] = EmptyPath]
           /\ Goto(h, "put")
           /\ UNCHANGED spent
        \/ /\ \/ output[r][s] # NoRow /\ UNCHANGED spent
              \/ Spend("fault")
           /\ Goto(h, "giveup")
           /\ UNCHANGED output
  /\ UNCHANGED <<row, sizeStatus, disks, minted, call>>

PutOutputUnchecked(h) ==
  /\ At(h, "put")
  /\ \/ /\ bucket' = bucket \cup {<<call[h].req, call[h].size, call[h].hash>>}
        /\ UNCHANGED spent
     \/ Spend("fault") /\ UNCHANGED bucket
  /\ Goto(h, "path")
  /\ UNCHANGED <<tables, upload, minted, call>>

\* A call that fails may still have stored the object.
PutOutput(h) ==
  /\ At(h, "put")
  /\ LET object == <<call[h].req, call[h].size, call[h].hash>> IN
     \/ /\ bucket' = bucket \cup {object}
        /\ Goto(h, "path")
        /\ UNCHANGED spent
     \/ /\ Spend("fault")
        /\ bucket' \in {bucket, bucket \cup {object}}
        /\ Goto(h, "rollback")
  /\ UNCHANGED <<tables, upload, minted, call>>

Rollback(h) ==
  /\ At(h, "rollback")
  /\ \/ /\ output' = [output EXCEPT ![call[h].req][call[h].size] = NoRow]
        /\ UNCHANGED spent
     \/ /\ Spend("fault")
        /\ UNCHANGED output
  /\ Goto(h, "giveup")
  /\ UNCHANGED <<row, sizeStatus, disks, minted, call>>

RecordStoragePath(h) ==
  /\ At(h, "path")
  /\ \/ /\ output' = [output EXCEPT
                        ![call[h].req][call[h].size] = call[h].hash]
        /\ Goto(h, "succeed")
        /\ UNCHANGED spent
     \/ /\ Spend("fault")
        /\ Goto(h, "giveup")
        /\ UNCHANGED output
  /\ UNCHANGED <<row, sizeStatus, disks, minted, call>>

\* markSizeCompleted drops its error; persistOutput succeeds all the same.
MarkSizeCompleted(h) ==
  /\ At(h, "succeed")
  /\ call' = [call EXCEPT ![h].won = @ \cup {call[h].size}]
  /\ \/ /\ sizeStatus' = [sizeStatus EXCEPT
                            ![call[h].req][call[h].size] = "completed"]
        /\ UNCHANGED spent
     \/ /\ Spend("fault")
        /\ UNCHANGED sizeStatus
  /\ Goto(h, "persist")
  /\ UNCHANGED <<row, output, disks, minted>>

MarkSizeFailed(h) ==
  /\ At(h, "giveup")
  /\ \/ /\ sizeStatus' = [sizeStatus EXCEPT
                            ![call[h].req][call[h].size] = "failed"]
        /\ UNCHANGED spent
     \/ /\ Spend("fault")
        /\ UNCHANGED sizeStatus
  /\ Goto(h, "persist")
  /\ UNCHANGED <<row, output, disks, minted, call>>

(***************************************************************************)
(* The terminal write and the deferred calls.                              *)
(***************************************************************************)
FinalStatusOfAnyWin(won, asked) ==
  IF won = {} THEN "failed" ELSE "completed"

FinalStatus(won, asked) ==
  IF won = asked THEN "completed"
  ELSE IF won # {} THEN "partially_completed" ELSE "failed"

FinishKeepingPartialSource(h) ==
  /\ At(h, "persist")
  /\ call[h].todo = {}
  /\ LET final == FinalStatus(call[h].won, Asked(call[h].req)) IN
       /\ row' = [row EXCEPT ![call[h].req].status = final]
       /\ Goto(h, IF final = "partially_completed" THEN "return"
                                                   ELSE "cleanup")
  /\ UNCHANGED <<sizeStatus, output, disks, minted, spent, call>>

\* The write leaves error_message as it is.
Finish(h) ==
  /\ At(h, "persist")
  /\ call[h].todo = {}
  /\ LET r == call[h].req IN
     \/ /\ row' = [row EXCEPT ![r].status =
                                FinalStatus(call[h].won, Asked(r))]
        /\ UNCHANGED spent
     \/ /\ Spend("fault")
        /\ UNCHANGED row
  /\ Goto(h, "cleanup")
  /\ UNCHANGED <<sizeStatus, output, disks, minted, call>>

\* cleanupSource was deferred only if resolveSource found a path.
Fail(h) ==
  /\ At(h, "fail")
  /\ \/ /\ row' = [row EXCEPT ![call[h].req].status = "failed",
                              ![call[h].req].error = call[h].error]
        /\ UNCHANGED spent
     \/ /\ Spend("fault")
        /\ UNCHANGED row
  /\ Goto(h, IF call[h].source THEN "cleanup" ELSE "return")
  /\ UNCHANGED <<sizeStatus, output, disks, minted, call>>

CleanupSource(h) ==
  /\ At(h, "cleanup")
  /\ \/ /\ upload' = [upload EXCEPT ![call[h].req] = "none"]
        /\ UNCHANGED spent
     \/ /\ Spend("fault")
        /\ UNCHANGED upload
  /\ Goto(h, "return")
  /\ UNCHANGED <<tables, bucket, minted, call>>

HandleStep(h) ==
  \/ LoadRequest(h) \/ MarkProcessing(h) \/ LoadSizes(h)
  \/ Inspect(h) \/ MarkNextBad(h) \/ ProcessSizes(h) \/ OutputHashFor(h)
  \/ LookupOutput(h) \/ CreateOutput(h) \/ PutOutput(h) \/ Rollback(h)
  \/ RecordStoragePath(h) \/ MarkSizeCompleted(h) \/ MarkSizeFailed(h)
  \/ Finish(h) \/ Fail(h) \/ CleanupSource(h)
=============================================================================
