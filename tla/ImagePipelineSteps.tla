------------------------- MODULE ImagePipelineSteps -------------------------
(***************************************************************************)
(* The steps of ImagePipeline, for proofs.  The first part is its type     *)
(* correctness, up to the range of the semaphore (which needs the counting *)
(* argument of ImagePipelineProofs); the second says of every action what  *)
(* it does to each variable, field by field, so that the proofs of the     *)
(* other modules need not expand it.                                       *)
(*                                                                         *)
(* TypeOK is not inductive: an update of row[call[h].req] keeps the type   *)
(* only if call[h].req is a request.  LocalsOK says when the locals of a   *)
(* goroutine hold a request and a size, StateOK is the inductive whole.    *)
(***************************************************************************)
EXTENDS ImagePipeline, TLAPS

\* Where the local variable "size" of persistOutput is bound.
SizeSteps == {"create", "put", "rollback", "path", "succeed", "giveup"}

LocalsOK ==
  \A h \in Handlers :
    /\ pc[h] # "idle" => call[h].req \in Requests
    /\ pc[h] \in SizeSteps => call[h].size \in Sizes
    /\ call[h].beating => pc[h] # "idle"

StateOK ==
  /\ TablesTypeOK
  /\ pc \in [Handlers -> ServiceSteps \cup JobSteps]
  /\ call \in [Handlers -> Calls]
  /\ LocalsOK

\* Spending from a budget keeps the record of what was spent well typed.
LEMMA SpendTyped ==
  ASSUME spent \in [Kinds -> Nat], NEW k, UNCHANGED spent \/ Spend(k)
  PROVE  spent' \in [Kinds -> Nat]
BY DEF Spend

\* Every step of Handle starts inside the job and ends inside it or at the
\* deferred calls.
LEMMA JobGoto ==
  ASSUME StateOK, NEW h \in Handlers, HandleStep(h)
  PROVE  /\ pc[h] \in JobSteps
         /\ \E step \in JobSteps \cup {"return"} :
              pc' = [pc EXCEPT ![h] = step]
<1>1. CASE LoadRequest(h) \/ MarkProcessing(h) \/ LoadSizes(h) \/ Inspect(h)
  BY <1>1 DEF LoadRequest, MarkProcessing, LoadSizes, Inspect, FailWith, At,
              Goto, JobSteps
<1>2. CASE MarkNextBad(h)
  BY <1>2 DEF MarkNextBad, StateOK, JobSteps
<1>3. CASE ProcessSizes(h) \/ OutputHashFor(h) \/ LookupOutput(h)
           \/ CreateOutput(h) \/ PutOutput(h) \/ Rollback(h)
  BY <1>3 DEF ProcessSizes, OutputHashFor, LookupOutput, CreateOutput,
              PutOutput, Rollback, FailWith, At, Goto, JobSteps
<1>4. CASE RecordStoragePath(h) \/ MarkSizeCompleted(h) \/ MarkSizeFailed(h)
           \/ Finish(h) \/ Fail(h) \/ CleanupSource(h)
  BY <1>4 DEF RecordStoragePath, MarkSizeCompleted, MarkSizeFailed, Finish,
              Fail, CleanupSource, At, Goto, JobSteps
<1>5. QED
  BY <1>1, <1>2, <1>3, <1>4 DEF HandleStep

\* The locals that matter to LocalsOK are not changed.
SameBinding ==
  \A g \in Handlers : call'[g].req = call[g].req
    /\ call'[g].beating = call[g].beating /\ call'[g].size = call[g].size

\* Recording an error message binds no request and no size.
LEMMA ErrorBindsNothing ==
  ASSUME call \in [Handlers -> Calls], NEW h \in Handlers, NEW e,
         call' = [call EXCEPT ![h].error = e]
  PROVE  SameBinding
BY DEF Calls, SameBinding

(***************************************************************************)
(* One step per action of Handle.  The typing of each variable is a fact   *)
(* of its own, so that a leaf sees only what it needs.                     *)
(***************************************************************************)
LEMMA JobKeepsStateOK ==
  ASSUME StateOK, NEW h \in Handlers, RunJob(h)
  PROVE  StateOK'
<1>old. StateOK
  OBVIOUS
<1>row. row \in [Requests -> RequestRow]
  BY DEF StateOK, TablesTypeOK
<1>sizeStatus. sizeStatus \in [Requests -> [Sizes -> SizeStatuses]]
  BY DEF StateOK, TablesTypeOK, SizeStatuses
<1>output. output \in [Requests -> [Sizes -> Nat \cup {NoRow}]]
  BY DEF StateOK, TablesTypeOK
<1>upload. upload \in [Requests -> Images \cup {"none"}]
  BY DEF StateOK, TablesTypeOK
<1>bucket. bucket \subseteq Requests \X Sizes \X Nat
  BY DEF StateOK, TablesTypeOK
<1>minted. minted \in [Requests -> Nat]
  BY DEF StateOK, TablesTypeOK
<1>spent. spent \in [Kinds -> Nat]
  BY DEF StateOK, TablesTypeOK
<1>call. call \in [Handlers -> Calls]
  BY DEF StateOK
<1>pc. pc \in [Handlers -> ServiceSteps \cup JobSteps]
  BY DEF StateOK
<1>goto. pc' \in [Handlers -> ServiceSteps \cup JobSteps]
  BY <1>pc, JobGoto DEF RunJob, ServiceSteps
<1>locals. LocalsOK
  BY DEF StateOK
<1>1. CASE LoadRequest(h)
  <2>1. call[h].req \in Requests
    BY <1>1, <1>locals DEF LoadRequest, At, LocalsOK
  <2>f. row[call[h].req].hash \in Nat /\ row[call[h].req].source \in BOOLEAN
    BY <2>1, <1>row DEF RequestRow
  <2>2. call' \in [Handlers -> Calls]
    <3>1. CASE call' = [call EXCEPT ![h].hash = row[call[h].req].hash,
              ![h].source = row[call[h].req].source]
      BY ZenonT(40), <3>1, <1>call, <2>f DEF Calls
    <3>2. CASE call' = call
      BY <3>2, <1>call DEF Calls
    <3>3. QED
      BY <1>1, <3>1, <3>2 DEF LoadRequest
  <2>3. LocalsOK'
    BY <1>1, <2>1, <1>pc, <1>call, <1>locals
       DEF LoadRequest, At, Goto, FailWith, LocalsOK, SizeSteps, Calls
  <2>4. spent' \in [Kinds -> Nat]
    BY <1>1, <1>spent, SpendTyped DEF LoadRequest
  <2>5. QED
    BY <1>1, <1>old, <2>2, <1>goto, <2>3, <2>4
       DEF LoadRequest, StateOK, TablesTypeOK, SizeStatuses, tables, disks
<1>2. CASE MarkProcessing(h)
  <2>1. call[h].req \in Requests
    BY <1>2, <1>locals DEF MarkProcessing, At, LocalsOK
  <2>2. row' \in [Requests -> RequestRow]
    BY <1>2, <2>1, <1>row DEF MarkProcessing, RequestRow, Beats, Statuses
  <2>3. call' \in [Handlers -> Calls]
    <3>1. CASE call' = [call EXCEPT ![h].beating = TRUE]
      BY ZenonT(40), <3>1, <1>call DEF Calls
    <3>2. CASE call' = call
      BY <3>2, <1>call DEF Calls
    <3>3. QED
      BY <1>2, <3>1, <3>2 DEF MarkProcessing
  <2>4. LocalsOK'
    BY <1>2, <2>1, <1>pc, <1>call, <1>locals
       DEF MarkProcessing, At, Goto, FailWith, LocalsOK, SizeSteps, Calls
  <2>5. spent' \in [Kinds -> Nat]
    BY <1>2, <1>spent, SpendTyped DEF MarkProcessing
  <2>6. QED
    BY <1>2, <1>old, <2>2, <2>3, <1>goto, <2>4, <2>5
       DEF MarkProcessing, StateOK, TablesTypeOK, SizeStatuses, tables, disks
<1>3. CASE LoadSizes(h)
  <2>1. call[h].req \in Requests
    BY <1>3, <1>locals DEF LoadSizes, At, LocalsOK
  <2>2. call' \in [Handlers -> Calls]
    <3>1. CASE call' = [call EXCEPT ![h].error = "no stored source file"]
      <4>1. "no stored source file" \in ErrorKinds
        BY DEF ErrorKinds
      <4>2. QED
        BY ZenonT(40), <3>1, <4>1, <1>call DEF Calls
    <3>2. CASE call' = call
      BY <3>2, <1>call DEF Calls
    <3>3. QED
      BY <1>3, <3>1, <3>2 DEF LoadSizes, FailWith
  <2>g. SameBinding
    <3>1. CASE call' = call
      BY <3>1, <1>call DEF Calls, SameBinding
    <3>2. QED
      BY <1>3, <1>call, <3>1, ErrorBindsNothing
         DEF LoadSizes, FailWith, SameBinding
  <2>h. \E step \in {"inspect", "fail", "return"} :
          pc' = [pc EXCEPT ![h] = step]
    BY <1>3 DEF LoadSizes, FailWith, Goto
  <2>3. LocalsOK'
    BY <2>1, <2>g, <2>h, <1>pc, <1>locals
       DEF LocalsOK, SizeSteps, SameBinding
  <2>4. spent' \in [Kinds -> Nat]
    BY <1>3, <1>spent, SpendTyped DEF LoadSizes
  <2>5. QED
    BY <1>3, <1>old, <2>2, <1>goto, <2>3, <2>4
       DEF LoadSizes, StateOK, TablesTypeOK, SizeStatuses, tables, disks
<1>4. CASE Inspect(h)
  <2>1. call[h].req \in Requests
    BY <1>4, <1>locals DEF Inspect, At, LocalsOK
  <2>f. Asked(call[h].req) \in SUBSET Sizes
    BY DEF Asked
  <2>2. call' \in [Handlers -> Calls]
    <3>1. CASE call' = [call EXCEPT ![h].error = "invalid image"]
      <4>1. "invalid image" \in ErrorKinds
        BY DEF ErrorKinds
      <4>2. QED
        BY ZenonT(40), <3>1, <4>1, <1>call DEF Calls
    <3>2. CASE call' = [call EXCEPT ![h].error = "exceeds maximum"]
      <4>1. "exceeds maximum" \in ErrorKinds
        BY DEF ErrorKinds
      <4>2. QED
        BY ZenonT(40), <3>2, <4>1, <1>call DEF Calls
    <3>3. CASE call' =
            [call EXCEPT ![h].todo = Asked(call[h].req) \ OverPixelLimit,
                      ![h].bad = Asked(call[h].req) \cap OverPixelLimit]
      BY ZenonT(40), <3>3, <1>call, <2>f DEF Calls
    <3>4. CASE call' = call
      BY <3>4, <1>call DEF Calls
    <3>5. QED
      BY <1>4, <3>1, <3>2, <3>3, <3>4, <2>f DEF Inspect, FailWith
  <2>g. SameBinding
    <3>1. CASE call' = call
      BY <3>1, <1>call DEF Calls, SameBinding
    <3>2. CASE call' =
            [call EXCEPT ![h].todo = Asked(call[h].req) \ OverPixelLimit,
                      ![h].bad = Asked(call[h].req) \cap OverPixelLimit]
      BY <3>2, <1>call DEF Calls, SameBinding
    <3>3. QED
      BY <1>4, <1>call, <3>1, <3>2, ErrorBindsNothing
         DEF Inspect, FailWith, SameBinding
  <2>h. \E step \in {"fail", "limits", "cleanup"} :
          pc' = [pc EXCEPT ![h] = step]
    BY <1>4 DEF Inspect, FailWith, Goto
  <2>3. LocalsOK'
    BY <2>1, <2>g, <2>h, <1>pc, <1>locals
       DEF LocalsOK, SizeSteps, SameBinding
  <2>4. spent' \in [Kinds -> Nat]
    BY <1>4, <1>spent, SpendTyped DEF Inspect
  <2>5. QED
    BY <1>4, <1>old, <2>2, <1>goto, <2>3, <2>4
       DEF Inspect, StateOK, TablesTypeOK, SizeStatuses, tables, disks
<1>5. CASE MarkNextBad(h)
  <2>1. call[h].req \in Requests
    BY <1>5, <1>locals DEF MarkNextBad, At, LocalsOK
  <2>f. call[h].bad \subseteq Sizes
    BY <1>call DEF Calls
  <2>2. sizeStatus' \in [Requests -> [Sizes -> SizeStatuses]]
    <3>1. ASSUME NEW s \in Sizes, sizeStatus' =
            [sizeStatus EXCEPT ![call[h].req][s] = "failed"]
          PROVE  sizeStatus' \in [Requests -> [Sizes -> SizeStatuses]]
      BY <3>1, <1>sizeStatus, <2>1 DEF SizeStatuses
    <3>2. CASE sizeStatus' = sizeStatus
      BY <3>2, <1>sizeStatus
    <3>3. QED
      BY <1>5, <3>1, <3>2, <2>f DEF MarkNextBad
  <2>3. call' \in [Handlers -> Calls]
    <3>1. ASSUME NEW s \in Sizes, call' = [call EXCEPT ![h].bad = @ \ {s}]
          PROVE  call' \in [Handlers -> Calls]
      BY <3>1, <1>call DEF Calls
    <3>2. QED
      BY <1>5, <3>1, <2>f DEF MarkNextBad
  <2>4. LocalsOK'
    BY <1>5, <2>1, <1>pc, <1>call, <1>locals
       DEF MarkNextBad, At, Goto, FailWith, LocalsOK, SizeSteps, Calls
  <2>5. spent' \in [Kinds -> Nat]
    BY <1>5, <1>spent, SpendTyped DEF MarkNextBad
  <2>6. QED
    BY <1>5, <1>old, <2>2, <2>3, <1>goto, <2>4, <2>5
       DEF MarkNextBad, StateOK, TablesTypeOK, SizeStatuses, tables, disks
<1>6. CASE ProcessSizes(h)
  <2>1. call[h].req \in Requests
    BY <1>6, <1>locals DEF ProcessSizes, At, LocalsOK
  <2>f. call[h].todo \subseteq Sizes
    BY <1>call DEF Calls
  <2>2. call' \in [Handlers -> Calls]
    <3>1. ASSUME NEW b \in SUBSET Sizes, call' =
            [call EXCEPT ![h].todo = @ \ b, ![h].bad = b]
          PROVE  call' \in [Handlers -> Calls]
      BY ZenonT(40), <3>1, <1>call DEF Calls
    <3>2. CASE call' = [call EXCEPT ![h].error = "processing failed"]
      <4>1. "processing failed" \in ErrorKinds
        BY DEF ErrorKinds
      <4>2. QED
        BY ZenonT(40), <3>2, <4>1, <1>call DEF Calls
    <3>3. QED
      BY <1>6, <3>1, <3>2, <2>f DEF ProcessSizes, FailWith
  <2>g. SameBinding
    <3>1. ASSUME NEW b, call' = [call EXCEPT ![h].todo = @ \ b, ![h].bad = b]
          PROVE  SameBinding
      BY <3>1, <1>call DEF Calls, SameBinding
    <3>2. QED
      BY <1>6, <1>call, <3>1, ErrorBindsNothing DEF ProcessSizes, FailWith
  <2>h. \E step \in {"errors", "fail"} :
          pc' = [pc EXCEPT ![h] = step]
    BY <1>6 DEF ProcessSizes, FailWith, Goto
  <2>3. LocalsOK'
    BY <2>1, <2>g, <2>h, <1>pc, <1>locals
       DEF LocalsOK, SizeSteps, SameBinding
  <2>4. spent' \in [Kinds -> Nat]
    BY <1>6, <1>spent, SpendTyped DEF ProcessSizes
  <2>5. QED
    BY <1>6, <1>old, <2>2, <1>goto, <2>3, <2>4
       DEF ProcessSizes, StateOK, TablesTypeOK, SizeStatuses, tables, disks
<1>7. CASE OutputHashFor(h)
  <2>1. call[h].req \in Requests
    BY <1>7, <1>locals DEF OutputHashFor, At, LocalsOK
  <2>f. minted[call[h].req] + 1 \in Nat
    BY <2>1, <1>minted
  <2>2. row' \in [Requests -> RequestRow]
    <3>1. CASE row' =
            [row EXCEPT ![call[h].req].hash = minted[call[h].req] + 1]
      BY <3>1, <1>row, <2>1, <2>f DEF RequestRow
    <3>2. CASE row' = row
      BY <3>2, <1>row
    <3>3. QED
      BY <1>7, <3>1, <3>2 DEF OutputHashFor
  <2>3. minted' \in [Requests -> Nat]
    <3>1. CASE minted' = [minted EXCEPT ![call[h].req] = @ + 1]
      BY <3>1, <1>minted, <2>1, <2>f
    <3>2. CASE minted' = minted
      BY <3>2, <1>minted
    <3>3. QED
      BY <1>7, <3>1, <3>2 DEF OutputHashFor
  <2>4. call' \in [Handlers -> Calls]
    <3>1. CASE call' = [call EXCEPT ![h].hash = minted[call[h].req] + 1]
      BY <3>1, <1>call, <2>f DEF Calls
    <3>2. CASE call' = [call EXCEPT ![h].error = "assign output hash"]
      <4>1. "assign output hash" \in ErrorKinds
        BY DEF ErrorKinds
      <4>2. QED
        BY ZenonT(40), <3>2, <4>1, <1>call DEF Calls
    <3>3. CASE call' = call
      BY <3>3, <1>call DEF Calls
    <3>4. QED
      BY <1>7, <3>1, <3>2, <3>3 DEF OutputHashFor, FailWith
  <2>g. SameBinding
    <3>1. CASE call' = call
      BY <3>1, <1>call DEF Calls, SameBinding
    <3>2. CASE call' = [call EXCEPT ![h].hash = minted[call[h].req] + 1]
      BY <3>2, <1>call DEF Calls, SameBinding
    <3>3. QED
      BY <1>7, <1>call, <3>1, <3>2, ErrorBindsNothing
         DEF OutputHashFor, FailWith, SameBinding
  <2>h. \E step \in {"persist", "fail"} :
          pc' = [pc EXCEPT ![h] = step]
    BY <1>7 DEF OutputHashFor, FailWith, Goto
  <2>5. LocalsOK'
    BY <2>1, <2>g, <2>h, <1>pc, <1>locals
       DEF LocalsOK, SizeSteps, SameBinding
  <2>6. spent' \in [Kinds -> Nat]
    BY <1>7, <1>spent, SpendTyped DEF OutputHashFor
  <2>7. QED
    BY <1>7, <1>old, <2>2, <2>3, <2>4, <1>goto, <2>5, <2>6
       DEF OutputHashFor, StateOK, TablesTypeOK, SizeStatuses, tables, disks
<1>8. CASE LookupOutput(h)
  <2>1. call[h].req \in Requests
    BY <1>8, <1>locals DEF LookupOutput, At, LocalsOK
  <2>f. call[h].todo \subseteq Sizes
    BY <1>call DEF Calls
  <2>2. call' \in [Handlers -> Calls]
    <3>1. ASSUME NEW s \in Sizes, call' = [call EXCEPT ![h].todo = @ \ {s},
              ![h].size = s]
          PROVE  call' \in [Handlers -> Calls]
      BY ZenonT(40), <3>1, <1>call DEF Calls
    <3>2. QED
      BY <1>8, <3>1, <2>f DEF LookupOutput
  <2>3. LocalsOK'
    BY <1>8, <2>1, <2>f, <1>pc, <1>call, <1>locals
       DEF LookupOutput, At, Goto, FailWith, LocalsOK, SizeSteps, Calls
  <2>4. spent' \in [Kinds -> Nat]
    BY <1>8, <1>spent, SpendTyped DEF LookupOutput
  <2>5. QED
    BY <1>8, <1>old, <2>2, <1>goto, <2>3, <2>4
       DEF LookupOutput, StateOK, TablesTypeOK, SizeStatuses, tables, disks
<1>9. CASE CreateOutput(h)
  <2>1. call[h].req \in Requests /\ call[h].size \in Sizes
    BY <1>9, <1>locals DEF CreateOutput, At, LocalsOK, SizeSteps
  <2>2. output' \in [Requests -> [Sizes -> Nat \cup {NoRow}]]
    BY <1>9, <2>1, <1>output DEF CreateOutput, EmptyPath
  <2>3. LocalsOK'
    BY <1>9, <2>1, <1>pc, <1>call, <1>locals
       DEF CreateOutput, At, Goto, FailWith, LocalsOK, SizeSteps, Calls
  <2>4. spent' \in [Kinds -> Nat]
    BY <1>9, <1>spent, SpendTyped DEF CreateOutput
  <2>5. QED
    BY <1>9, <1>old, <2>2, <1>goto, <2>3, <2>4
       DEF CreateOutput, StateOK, TablesTypeOK, SizeStatuses, tables, disks
<1>10. CASE PutOutput(h)
  <2>1. call[h].req \in Requests /\ call[h].size \in Sizes
    BY <1>10, <1>locals DEF PutOutput, At, LocalsOK, SizeSteps
  <2>2. bucket' \subseteq Requests \X Sizes \X Nat
    BY <1>10, <2>1, <1>bucket, <1>call DEF PutOutput, Calls
  <2>3. LocalsOK'
    BY <1>10, <2>1, <1>pc, <1>call, <1>locals
       DEF PutOutput, At, Goto, FailWith, LocalsOK, SizeSteps, Calls
  <2>4. spent' \in [Kinds -> Nat]
    BY <1>10, <1>spent, SpendTyped DEF PutOutput
  <2>5. QED
    BY <1>10, <1>old, <2>2, <1>goto, <2>3, <2>4
       DEF PutOutput, StateOK, TablesTypeOK, SizeStatuses, tables, disks
<1>11. CASE Rollback(h)
  <2>1. call[h].req \in Requests /\ call[h].size \in Sizes
    BY <1>11, <1>locals DEF Rollback, At, LocalsOK, SizeSteps
  <2>2. output' \in [Requests -> [Sizes -> Nat \cup {NoRow}]]
    BY <1>11, <2>1, <1>output DEF Rollback, NoRow
  <2>3. LocalsOK'
    BY <1>11, <2>1, <1>pc, <1>call, <1>locals
       DEF Rollback, At, Goto, FailWith, LocalsOK, SizeSteps, Calls
  <2>4. spent' \in [Kinds -> Nat]
    BY <1>11, <1>spent, SpendTyped DEF Rollback
  <2>5. QED
    BY <1>11, <1>old, <2>2, <1>goto, <2>3, <2>4
       DEF Rollback, StateOK, TablesTypeOK, SizeStatuses, tables, disks
<1>12. CASE RecordStoragePath(h)
  <2>1. call[h].req \in Requests /\ call[h].size \in Sizes
    BY <1>12, <1>locals DEF RecordStoragePath, At, LocalsOK, SizeSteps
  <2>2. output' \in [Requests -> [Sizes -> Nat \cup {NoRow}]]
    BY <1>12, <2>1, <1>output, <1>call DEF RecordStoragePath, Calls
  <2>3. LocalsOK'
    BY <1>12, <2>1, <1>pc, <1>call, <1>locals
       DEF RecordStoragePath, At, Goto, FailWith, LocalsOK, SizeSteps, Calls
  <2>4. spent' \in [Kinds -> Nat]
    BY <1>12, <1>spent, SpendTyped DEF RecordStoragePath
  <2>5. QED
    BY <1>12, <1>old, <2>2, <1>goto, <2>3, <2>4
       DEF RecordStoragePath, StateOK, TablesTypeOK, SizeStatuses, tables,
           disks
<1>13. CASE MarkSizeCompleted(h)
  <2>1. call[h].req \in Requests /\ call[h].size \in Sizes
    BY <1>13, <1>locals DEF MarkSizeCompleted, At, LocalsOK, SizeSteps
  <2>2. sizeStatus' \in [Requests -> [Sizes -> SizeStatuses]]
    BY <1>13, <2>1, <1>sizeStatus DEF MarkSizeCompleted, SizeStatuses
  <2>3. call' \in [Handlers -> Calls]
    BY <1>13, <2>1, <1>call DEF MarkSizeCompleted, Calls
  <2>4. LocalsOK'
    BY <1>13, <2>1, <1>pc, <1>call, <1>locals
       DEF MarkSizeCompleted, At, Goto, FailWith, LocalsOK, SizeSteps, Calls
  <2>5. spent' \in [Kinds -> Nat]
    BY <1>13, <1>spent, SpendTyped DEF MarkSizeCompleted
  <2>6. QED
    BY <1>13, <1>old, <2>2, <2>3, <1>goto, <2>4, <2>5
       DEF MarkSizeCompleted, StateOK, TablesTypeOK, SizeStatuses, tables,
           disks
<1>14. CASE MarkSizeFailed(h)
  <2>1. call[h].req \in Requests /\ call[h].size \in Sizes
    BY <1>14, <1>locals DEF MarkSizeFailed, At, LocalsOK, SizeSteps
  <2>2. sizeStatus' \in [Requests -> [Sizes -> SizeStatuses]]
    BY <1>14, <2>1, <1>sizeStatus DEF MarkSizeFailed, SizeStatuses
  <2>3. LocalsOK'
    BY <1>14, <2>1, <1>pc, <1>call, <1>locals
       DEF MarkSizeFailed, At, Goto, FailWith, LocalsOK, SizeSteps, Calls
  <2>4. spent' \in [Kinds -> Nat]
    BY <1>14, <1>spent, SpendTyped DEF MarkSizeFailed
  <2>5. QED
    BY <1>14, <1>old, <2>2, <1>goto, <2>3, <2>4
       DEF MarkSizeFailed, StateOK, TablesTypeOK, SizeStatuses, tables, disks
<1>15. CASE Finish(h)
  <2>1. call[h].req \in Requests
    BY <1>15, <1>locals DEF Finish, At, LocalsOK
  <2>2. row' \in [Requests -> RequestRow]
    BY <1>15, <2>1, <1>row
       DEF Finish, RequestRow, FinalStatus, Statuses, TerminalStatuses
  <2>3. LocalsOK'
    BY <1>15, <2>1, <1>pc, <1>call, <1>locals
       DEF Finish, At, Goto, FailWith, LocalsOK, SizeSteps, Calls
  <2>4. spent' \in [Kinds -> Nat]
    BY <1>15, <1>spent, SpendTyped DEF Finish
  <2>5. QED
    BY <1>15, <1>old, <2>2, <1>goto, <2>3, <2>4
       DEF Finish, StateOK, TablesTypeOK, SizeStatuses, tables, disks
<1>16. CASE Fail(h)
  <2>1. call[h].req \in Requests
    BY <1>16, <1>locals DEF Fail, At, LocalsOK
  <2>2. row' \in [Requests -> RequestRow]
    BY <1>16, <2>1, <1>row, <1>call
       DEF Fail, RequestRow, Calls, Statuses, TerminalStatuses
  <2>3. LocalsOK'
    BY <1>16, <2>1, <1>pc, <1>call, <1>locals
       DEF Fail, At, Goto, FailWith, LocalsOK, SizeSteps, Calls
  <2>4. spent' \in [Kinds -> Nat]
    BY <1>16, <1>spent, SpendTyped DEF Fail
  <2>5. QED
    BY <1>16, <1>old, <2>2, <1>goto, <2>3, <2>4
       DEF Fail, StateOK, TablesTypeOK, SizeStatuses, tables, disks
<1>17. CASE CleanupSource(h)
  <2>1. call[h].req \in Requests
    BY <1>17, <1>locals DEF CleanupSource, At, LocalsOK
  <2>2. upload' \in [Requests -> Images \cup {"none"}]
    BY <1>17, <2>1, <1>upload DEF CleanupSource
  <2>3. LocalsOK'
    BY <1>17, <2>1, <1>pc, <1>call, <1>locals
       DEF CleanupSource, At, Goto, FailWith, LocalsOK, SizeSteps, Calls
  <2>4. spent' \in [Kinds -> Nat]
    BY <1>17, <1>spent, SpendTyped DEF CleanupSource
  <2>5. QED
    BY <1>17, <1>old, <2>2, <1>goto, <2>3, <2>4
       DEF CleanupSource, StateOK, TablesTypeOK, SizeStatuses, tables, disks
<1>18. QED
  BY <1>1, <1>2, <1>3, <1>4, <1>5, <1>6, <1>7, <1>8, <1>9, <1>10, <1>11,
     <1>12, <1>13, <1>14, <1>15, <1>16, <1>17
     DEF RunJob, HandleStep

(***************************************************************************)
(* The actions around the job.                                             *)
(***************************************************************************)
LEMMA IdleIsCall == Idle \in Calls
BY DEF Idle, Calls, ErrorKinds, NoHash

\* Starting a call for r, and giving one up.
LEMMA CallStarts ==
  ASSUME StateOK, NEW h \in Handlers, NEW r \in Requests,
         NEW step \in {"upload", "reset"},
         At(h, "idle"), Goto(h, step), call' = [call EXCEPT ![h].req = r]
  PROVE  /\ pc' \in [Handlers -> ServiceSteps \cup JobSteps]
         /\ call' \in [Handlers -> Calls]
         /\ LocalsOK'
<1>1. pc' \in [Handlers -> ServiceSteps \cup JobSteps]
  BY DEF StateOK, Goto, ServiceSteps
<1>2. call' \in [Handlers -> Calls]
  BY DEF StateOK, Calls
<1>3. LocalsOK'
  BY DEF StateOK, LocalsOK, Goto, At, SizeSteps, Calls
<1>4. QED
  BY <1>1, <1>2, <1>3

\* A goroutine that returns has the locals of an idle one.
LEMMA CallEnds ==
  ASSUME StateOK, NEW h \in Handlers, Goto(h, "idle"),
         call' = [call EXCEPT ![h] = Idle]
  PROVE  /\ pc' \in [Handlers -> ServiceSteps \cup JobSteps]
         /\ call' \in [Handlers -> Calls]
         /\ LocalsOK'
BY IdleIsCall DEF StateOK, LocalsOK, Goto, ServiceSteps, SizeSteps, Idle

\* A goroutine of the service keeps its locals, which fit its next step.
LEMMA CallMoves ==
  ASSUME StateOK, NEW h \in Handlers, pc[h] # "idle", UNCHANGED call,
         NEW step \in {"record", "acquire", "load"}, Goto(h, step)
  PROVE  /\ pc' \in [Handlers -> ServiceSteps \cup JobSteps]
         /\ call' \in [Handlers -> Calls]
         /\ LocalsOK'
BY DEF StateOK, LocalsOK, Goto, ServiceSteps, SizeSteps, JobSteps

\* Creating, retrying, acquiring and returning keep the state well typed.
LEMMA ServiceKeepsStateOK ==
  ASSUME StateOK, NEW h \in Handlers
  PROVE  /\ CreateRequest(h) \/ PutUploadedFile(h) \/ RecordSourcePath(h)
              => StateOK'
         /\ CheckRetryable(h) \/ ResetRequest(h) => StateOK'
         /\ Acquire(h) \/ Return(h) \/ Tick(h) => StateOK'
<1>1. ASSUME CreateRequest(h) PROVE StateOK'
  <2>1. PICK r \in Requests, asked \in SUBSET Sizes :
          /\ row' = [row EXCEPT ![r].status = "pending"]
          /\ sizeStatus' = [sizeStatus EXCEPT ![r] =
               [s \in Sizes |-> IF s \in asked THEN "pending" ELSE "absent"]]
          /\ call' = [call EXCEPT ![h].req = r]
    BY <1>1 DEF CreateRequest
  <2>2. row' \in [Requests -> RequestRow]
    BY ZenonT(40), <2>1 DEF StateOK, TablesTypeOK, RequestRow, Statuses
  <2>3. sizeStatus' \in [Requests -> [Sizes -> SizeStatuses]]
    BY <2>1 DEF StateOK, TablesTypeOK, SizeStatuses
  <2>4. TablesTypeOK'
    BY <1>1, <2>2, <2>3 DEF CreateRequest, StateOK, TablesTypeOK, disks
  <2>5. QED
    BY <1>1, <2>1, <2>4, CallStarts DEF CreateRequest, StateOK
<1>2. ASSUME PutUploadedFile(h) PROVE StateOK'
  <2>1. call[h].req \in Requests
    BY <1>2 DEF PutUploadedFile, At, StateOK, LocalsOK
  <2>2. upload' \in [Requests -> Images \cup {"none"}]
    BY <1>2, <2>1 DEF PutUploadedFile, StateOK, TablesTypeOK
  <2>3. spent' \in [Kinds -> Nat]
    BY <1>2, SpendTyped DEF PutUploadedFile, StateOK, TablesTypeOK
  <2>4. TablesTypeOK'
    BY <1>2, <2>2, <2>3 DEF PutUploadedFile, StateOK, TablesTypeOK, tables
  <2>5. QED
    BY <1>2, <2>4, CallEnds, CallMoves DEF PutUploadedFile, At, StateOK
<1>3. ASSUME RecordSourcePath(h) PROVE StateOK'
  <2>1. call[h].req \in Requests
    BY <1>3 DEF RecordSourcePath, At, StateOK, LocalsOK
  <2>2. row' \in [Requests -> RequestRow]
    <3>1. CASE row' = [row EXCEPT ![call[h].req].source = TRUE]
      BY ZenonT(40), <2>1, <3>1 DEF StateOK, TablesTypeOK, RequestRow
    <3>2. QED
      BY <1>3, <3>1 DEF RecordSourcePath, StateOK, TablesTypeOK
  <2>3. spent' \in [Kinds -> Nat]
    BY <1>3, SpendTyped DEF RecordSourcePath, StateOK, TablesTypeOK
  <2>4. TablesTypeOK'
    BY <1>3, <2>2, <2>3 DEF RecordSourcePath, StateOK, TablesTypeOK, disks
  <2>5. QED
    BY <1>3, <2>4, CallEnds, CallMoves DEF RecordSourcePath, At, StateOK
<1>4. ASSUME CheckRetryable(h) PROVE StateOK'
  <2>1. PICK r \in Requests : call' = [call EXCEPT ![h].req = r]
    BY <1>4 DEF CheckRetryable
  <2>2. TablesTypeOK'
    BY <1>4 DEF CheckRetryable, StateOK, TablesTypeOK, tables, disks
  <2>3. QED
    BY <1>4, <2>1, <2>2, CallStarts DEF CheckRetryable, StateOK
<1>5. ASSUME ResetRequest(h) PROVE StateOK'
  <2>1. call[h].req \in Requests
    BY <1>5 DEF ResetRequest, At, StateOK, LocalsOK
  <2>2. row' \in [Requests -> RequestRow]
    <3>1. CASE row' = [row EXCEPT ![call[h].req].status = "pending",
                                  ![call[h].req].error = "none",
                                  ![call[h].req].started = FALSE,
                                  ![call[h].req].beat = "none"]
      <4>1. [row[call[h].req] EXCEPT !.status = "pending", !.error = "none",
                                     !.started = FALSE, !.beat = "none"]
              \in RequestRow
        <5>1. row[call[h].req] \in RequestRow
          BY <2>1 DEF StateOK, TablesTypeOK
        <5>2. QED
          BY <5>1 DEF RequestRow, Statuses, ErrorKinds, Beats
      <4>2. QED
        BY <3>1, <4>1 DEF StateOK, TablesTypeOK
    <3>2. QED
      BY <1>5, <3>1 DEF ResetRequest, StateOK, TablesTypeOK
  <2>3. sizeStatus' \in [Requests -> [Sizes -> SizeStatuses]]
    <3>1. [s \in Sizes |-> IF s \in Asked(call[h].req) THEN "pending"
                                                       ELSE "absent"]
            \in [Sizes -> SizeStatuses]
      BY DEF SizeStatuses
    <3>2. QED
      BY ZenonT(40), <1>5, <3>1 DEF ResetRequest, StateOK, TablesTypeOK
  <2>4. spent' \in [Kinds -> Nat]
    BY <1>5, SpendTyped DEF ResetRequest, StateOK, TablesTypeOK
  <2>5. TablesTypeOK'
    BY <1>5, <2>2, <2>3, <2>4 DEF ResetRequest, StateOK, TablesTypeOK, disks
  <2>6. QED
    BY <1>5, <2>5, CallEnds, CallMoves DEF ResetRequest, At, StateOK
<1>6. ASSUME Acquire(h) PROVE StateOK'
  <2>1. TablesTypeOK'
    BY <1>6 DEF Acquire, StateOK, TablesTypeOK, tables, disks
  <2>2. QED
    BY <1>6, <2>1, CallMoves DEF Acquire, At, StateOK
<1>7. ASSUME Return(h) PROVE StateOK'
  <2>1. TablesTypeOK'
    BY <1>7 DEF Return, StateOK, TablesTypeOK, tables, disks
  <2>2. QED
    BY <1>7, <2>1, CallEnds DEF Return, StateOK
<1>8. ASSUME Tick(h) PROVE StateOK'
  <2>1. call[h].req \in Requests
    BY <1>8 DEF Tick, Heartbeat, StateOK, LocalsOK
  <2>2. row' \in [Requests -> RequestRow]
    BY ZenonT(40), <1>8, <2>1
       DEF Tick, Heartbeat, StateOK, TablesTypeOK, RequestRow, Beats
  <2>3. QED
    BY <1>8, <2>2 DEF Tick, Heartbeat, StateOK, TablesTypeOK, LocalsOK, disks
<1>9. QED
  BY <1>1, <1>2, <1>3, <1>4, <1>5, <1>6, <1>7, <1>8

\* So do the sweep, the passage of time and a crash.
LEMMA SystemKeepsStateOK ==
  ASSUME StateOK
  PROVE  /\ SweepStaleProcessingRequests => StateOK'
         /\ \A r \in Requests : Lapse(r) \/ Stall(r) => StateOK'
         /\ Crash => StateOK'
<1>1. ASSUME SweepStaleProcessingRequests PROVE StateOK'
  <2>1. \A r \in Requests : Swept(r) \in RequestRow
    BY ZenonT(40) DEF Swept, StateOK, TablesTypeOK, RequestRow, Statuses,
           TerminalStatuses, ErrorKinds
  <2>2. row' \in [Requests -> RequestRow]
    BY <1>1, <2>1 DEF SweepStaleProcessingRequests, StateOK, TablesTypeOK
  <2>3. QED
    BY <1>1, <2>2 DEF SweepStaleProcessingRequests, StateOK, TablesTypeOK,
                      LocalsOK, disks
<1>2. ASSUME NEW r \in Requests, Lapse(r) \/ Stall(r) PROVE StateOK'
  <2>1. Age(r)
    BY <1>2 DEF Lapse, Stall
  <2>2. row' \in [Requests -> RequestRow]
    BY ZenonT(40), <2>1 DEF Age, StateOK, TablesTypeOK, RequestRow, Beats
  <2>3. spent' \in [Kinds -> Nat]
    BY <1>2, SpendTyped DEF Lapse, Stall, StateOK, TablesTypeOK
  <2>4. QED
    BY <2>1, <2>2, <2>3 DEF Age, StateOK, TablesTypeOK, LocalsOK, disks
<1>3. ASSUME Crash PROVE StateOK'
  <2>1. spent' \in [Kinds -> Nat]
    BY <1>3, SpendTyped DEF Crash, StateOK, TablesTypeOK
  <2>2. TablesTypeOK'
    BY <1>3, <2>1 DEF Crash, StateOK, TablesTypeOK, tables, disks
  <2>3. QED
    BY <1>3, <2>2, IdleIsCall DEF Crash, StateOK, LocalsOK, ServiceSteps,
                                  SizeSteps, Idle
<1>4. QED
  BY <1>1, <1>2, <1>3

(***************************************************************************)
(* The initial state and every step.                                       *)
(***************************************************************************)
LEMMA InitStateOK ==
  ASSUME Init
  PROVE  StateOK
<1>1. AbsentRow \in RequestRow
  BY DEF AbsentRow, RequestRow, Statuses, ErrorKinds, Beats, NoHash
<1>2. TablesTypeOK
  BY <1>1 DEF Init, TablesInit, TablesTypeOK, SizeStatuses, NoRow, Kinds
<1>3. LocalsOK
  BY DEF Init, LocalsOK, SizeSteps, Idle
<1>4. QED
  BY <1>2, <1>3, IdleIsCall DEF Init, StateOK, ServiceSteps

\* Every step keeps the state well typed.
LEMMA NextStateOK ==
  ASSUME StateOK, [Next]_vars
  PROVE  StateOK'
<1>1. CASE Next
  BY <1>1, JobKeepsStateOK, ServiceKeepsStateOK, SystemKeepsStateOK
     DEF Next, Progress
<1>2. CASE UNCHANGED vars
  BY <1>2 DEF vars, StateOK, TablesTypeOK, LocalsOK
<1>3. QED
  BY <1>1, <1>2

\* Every reachable state is typed, and a goroutine that is not idle has a
\* request, one that persists an output has a size.
THEOREM StateTyped == Spec => []StateOK
<1>1. Init => StateOK
  BY InitStateOK
<1>2. StateOK /\ [Next]_vars => StateOK'
  BY NextStateOK
<1>3. QED
  BY <1>1, <1>2, PTL DEF Spec

(***************************************************************************)
(* What a step may touch.                                                  *)
(***************************************************************************)

\* A statement that fails is noted, and a budget is never given back.
LEMMA SpendIsNoted ==
  ASSUME spent \in [Kinds -> Nat]
  PROVE  /\ Spend("fault") => ~Faultless'
         /\ Spend("crash") => ~Undisturbed'
         /\ \A k : Spend(k) => /\ Faultless' => Faultless
                               /\ Undisturbed' => Undisturbed
BY DEF Spend, Faultless, Undisturbed, Kinds

(***************************************************************************)
(* What each statement of Handle does to the locals of its goroutine, field *)
(* by field: the proofs below update no records.                           *)
(***************************************************************************)
SameRun(h) ==
  /\ call'[h].hash = call[h].hash /\ call'[h].source = call[h].source
  /\ call'[h].beating = call[h].beating

SameSizes(h) ==
  /\ call'[h].todo = call[h].todo /\ call'[h].bad = call[h].bad
  /\ call'[h].won = call[h].won /\ call'[h].size = call[h].size

\* Returning fail(request, e) changes one local of one goroutine.
LEMMA FailWithIsLocal ==
  ASSUME call \in [Handlers -> Calls], NEW h \in Handlers, NEW e,
         FailWith(h, e)
  PROVE  /\ \A g \in Handlers \ {h} : call'[g] = call[g]
         /\ call'[h].req = call[h].req
         /\ SameRun(h) /\ SameSizes(h) /\ call'[h].error = e
BY DEF FailWith, SameRun, SameSizes, Calls

\* No local changes where none is assigned.
LEMMA SameLocals ==
  ASSUME UNCHANGED call, NEW h
  PROVE  SameRun(h) /\ SameSizes(h)
BY DEF SameRun, SameSizes

\* A step of Handle changes no locals of another goroutine and no row or
\* file of another request, and Handle is about one request.
LEMMA JobIsLocal ==
  ASSUME StateOK, NEW h \in Handlers, HandleStep(h)
  PROVE  /\ call'[h].req = call[h].req
         /\ \A g \in Handlers \ {h} : pc'[g] = pc[g] /\ call'[g] = call[g]
         /\ \A r \in Requests \ {call[h].req} :
              /\ row'[r] = row[r] /\ sizeStatus'[r] = sizeStatus[r]
              /\ output'[r] = output[r] /\ upload'[r] = upload[r]
<1>types. /\ call \in [Handlers -> Calls]
          /\ row \in [Requests -> RequestRow]
          /\ sizeStatus \in [Requests -> [Sizes -> SizeStatuses]]
          /\ output \in [Requests -> [Sizes -> Nat \cup {NoRow}]]
          /\ upload \in [Requests -> Images \cup {"none"}]
  BY DEF StateOK, TablesTypeOK
<1>pc. \A g \in Handlers \ {h} : pc'[g] = pc[g]
  BY JobGoto DEF StateOK
<1>1. /\ \A g \in Handlers \ {h} : call'[g] = call[g]
      /\ call'[h].req = call[h].req
  <2>10. CASE LoadRequest(h)
    BY <2>10, <1>types DEF LoadRequest, FailWith, Calls
  <2>11. CASE MarkProcessing(h)
    BY <2>11, <1>types DEF MarkProcessing, FailWith, Calls
  <2>12. CASE LoadSizes(h)
    BY <2>12, <1>types, FailWithIsLocal DEF LoadSizes, Calls
  <2>13. CASE Inspect(h)
    <3>1. \/ call' = call
          \/ \E e : FailWith(h, e)
          \/ \E s, t : call' = [call EXCEPT ![h].todo = s, ![h].bad = t]
      BY <2>13 DEF Inspect
    <3>2. QED
      BY <3>1, <1>types, FailWithIsLocal DEF Calls
  <2>14. CASE MarkNextBad(h)
    BY <2>14, <1>types DEF MarkNextBad, FailWith, Calls
  <2>15. CASE ProcessSizes(h)
    <3>1. \/ \E e : FailWith(h, e)
          \/ \E s, t : call' = [call EXCEPT ![h].todo = s, ![h].bad = t]
      BY <2>15 DEF ProcessSizes
    <3>2. QED
      BY <3>1, <1>types, FailWithIsLocal DEF Calls
  <2>16. CASE OutputHashFor(h)
    <3>1. \/ call' = call
          \/ \E e : FailWith(h, e)
          \/ \E n : call' = [call EXCEPT ![h].hash = n]
      BY <2>16 DEF OutputHashFor
    <3>2. QED
      BY <3>1, <1>types, FailWithIsLocal DEF Calls
  <2>17. CASE LookupOutput(h)
    BY <2>17, <1>types DEF LookupOutput, FailWith, Calls
  <2>3. CASE CreateOutput(h) \/ PutOutput(h) \/ Rollback(h)
             \/ RecordStoragePath(h) \/ MarkSizeCompleted(h)
             \/ MarkSizeFailed(h) \/ Finish(h) \/ Fail(h)
             \/ CleanupSource(h)
    BY <2>3, <1>types
       DEF CreateOutput, PutOutput, Rollback, RecordStoragePath,
           MarkSizeCompleted, MarkSizeFailed, Finish, Fail, CleanupSource,
           Calls
  <2>4. QED
    BY <2>10, <2>11, <2>12, <2>13, <2>14, <2>15, <2>16, <2>17, <2>3 DEF HandleStep
<1>2. ASSUME NEW r \in Requests \ {call[h].req}
      PROVE  /\ row'[r] = row[r] /\ sizeStatus'[r] = sizeStatus[r]
             /\ output'[r] = output[r] /\ upload'[r] = upload[r]
  <2>1. CASE LoadRequest(h) \/ MarkProcessing(h) \/ LoadSizes(h) \/ Inspect(h)
    BY <2>1, <1>types
       DEF LoadRequest, MarkProcessing, LoadSizes, Inspect, tables, disks
  <2>2. CASE MarkNextBad(h) \/ ProcessSizes(h) \/ OutputHashFor(h)
             \/ LookupOutput(h)
    BY <2>2, <1>types
       DEF MarkNextBad, ProcessSizes, OutputHashFor, LookupOutput, tables,
           disks
  <2>3. CASE CreateOutput(h) \/ PutOutput(h) \/ Rollback(h)
             \/ RecordStoragePath(h) \/ MarkSizeCompleted(h)
             \/ MarkSizeFailed(h) \/ Finish(h) \/ Fail(h)
             \/ CleanupSource(h)
    BY <2>3, <1>types
       DEF CreateOutput, PutOutput, Rollback, RecordStoragePath,
           MarkSizeCompleted, MarkSizeFailed, Finish, Fail, CleanupSource,
           tables, disks
  <2>4. QED
    BY <2>1, <2>2, <2>3 DEF HandleStep
<1>3. QED
  BY <1>pc, <1>1, <1>2

\* What the lemmas need to know of the state and of the operators.
LEMMA StepFacts ==
  ASSUME StateOK, NEW h \in Handlers
  PROVE  /\ call \in [Handlers -> Calls]
         /\ pc \in [Handlers -> ServiceSteps \cup JobSteps]
         /\ \A step : Goto(h, step) => pc'[h] = step
         /\ Spend("fault") => ~Faultless'
BY SpendIsNoted DEF StateOK, TablesTypeOK, Goto

\* The request is loaded, or the run is over.
LEMMA LoadRequestDoes ==
  ASSUME StateOK, NEW h \in Handlers, LoadRequest(h)
  PROVE  LET loaded == row[call[h].req] IN
         /\ pc[h] = "load" /\ SameSizes(h)
         /\ call'[h].beating = call[h].beating
         /\ \/ /\ loaded.status \notin TerminalStatuses /\ pc'[h] = "mark"
               /\ call'[h].hash = loaded.hash
               /\ call'[h].source = loaded.source
            \/ /\ loaded.status \in TerminalStatuses \/ ~Faultless'
               /\ pc'[h] = "return" /\ SameRun(h)
<1>1. LET loaded == row[call[h].req] IN
      \/ /\ loaded.status \notin TerminalStatuses /\ pc'[h] = "mark"
         /\ call' = [call EXCEPT ![h].hash = loaded.hash,
                                 ![h].source = loaded.source]
      \/ /\ loaded.status \in TerminalStatuses \/ ~Faultless'
         /\ pc'[h] = "return" /\ call' = call
  BY StepFacts DEF LoadRequest, FailWith
<1>2. QED
  BY <1>1, StepFacts DEF LoadRequest, At, SameRun, SameSizes, Calls

\* The heartbeat starts with the status.
LEMMA MarkProcessingDoes ==
  ASSUME StateOK, NEW h \in Handlers, MarkProcessing(h)
  PROVE  /\ pc[h] = "mark" /\ SameSizes(h)
         /\ call'[h].hash = call[h].hash /\ call'[h].source = call[h].source
         /\ \/ pc'[h] = "sizes" /\ call'[h].beating
            \/ pc'[h] = "return" /\ ~Faultless'
<1>1. \/ /\ pc'[h] = "sizes"
         /\ call' = [call EXCEPT ![h].beating = TRUE]
      \/ /\ pc'[h] = "return" /\ ~Faultless'
         /\ call' = call
  BY StepFacts DEF MarkProcessing, FailWith
<1>2. QED
  BY <1>1, StepFacts DEF MarkProcessing, At, SameRun, SameSizes, Calls

\* Without a source the run fails with a message.
LEMMA LoadSizesDoes ==
  ASSUME StateOK, NEW h \in Handlers, LoadSizes(h)
  PROVE  /\ pc[h] = "sizes" /\ SameRun(h) /\ SameSizes(h)
         /\ \/ call[h].source /\ pc'[h] = "inspect"
            \/ /\ ~call[h].source /\ pc'[h] = "fail"
               /\ call'[h].error # "none"
            \/ pc'[h] = "return" /\ ~Faultless'
<1>1. \/ call[h].source /\ pc'[h] = "inspect" /\ call' = call
      \/ /\ ~call[h].source /\ pc'[h] = "fail"
         /\ FailWith(h, "no stored source file")
      \/ pc'[h] = "return" /\ ~Faultless' /\ call' = call
  BY StepFacts DEF LoadSizes, FailWith
<1>at. pc[h] = "sizes"
  BY DEF LoadSizes, At
<1>2. FailWith(h, "no stored source file") =>
        /\ SameRun(h) /\ SameSizes(h)
        /\ call'[h].error = "no stored source file"
  BY StepFacts, FailWithIsLocal
<1>3. QED
  BY <1>1, <1>2, <1>at, SameLocals

\* The sizes are split, or the image is refused.
LEMMA InspectDoes ==
  ASSUME StateOK, NEW h \in Handlers, Inspect(h)
  PROVE  /\ pc[h] = "inspect" /\ SameRun(h)
         /\ call'[h].won = call[h].won /\ call'[h].size = call[h].size
         /\ \/ /\ pc'[h] = "limits"
               /\ call'[h].todo = Asked(call[h].req) \ OverPixelLimit
               /\ call'[h].bad = Asked(call[h].req) \cap OverPixelLimit
            \/ pc'[h] = "fail" /\ SameSizes(h) /\ call'[h].error # "none"
            \/ pc'[h] = "cleanup" /\ SameSizes(h) /\ ~Faultless'
<1>1. \/ /\ pc'[h] = "limits"
         /\ call' = [call EXCEPT
              ![h].todo = Asked(call[h].req) \ OverPixelLimit,
              ![h].bad = Asked(call[h].req) \cap OverPixelLimit]
      \/ /\ pc'[h] = "fail"
         /\ \/ FailWith(h, "invalid image")
            \/ FailWith(h, "exceeds maximum")
      \/ pc'[h] = "cleanup" /\ ~Faultless' /\ call' = call
  BY StepFacts DEF Inspect, FailWith
<1>at. pc[h] = "inspect"
  BY DEF Inspect, At
<1>2. CASE /\ pc'[h] = "limits"
            /\ call' = [call EXCEPT
                 ![h].todo = Asked(call[h].req) \ OverPixelLimit,
                 ![h].bad = Asked(call[h].req) \cap OverPixelLimit]
  BY <1>1, <1>2, <1>at, StepFacts DEF SameRun, SameSizes, Calls
<1>3. \A e \in {"invalid image", "exceeds maximum"} : FailWith(h, e) =>
        SameRun(h) /\ SameSizes(h) /\ call'[h].error = e
  BY StepFacts, FailWithIsLocal
<1>4. QED
  BY <1>1, <1>2, <1>3, <1>at, SameLocals DEF SameSizes

\* One bad size is marked, and the mark may be lost.
LEMMA MarkNextBadDoes ==
  ASSUME StateOK, NEW h \in Handlers, MarkNextBad(h)
  PROVE  /\ pc[h] \in {"limits", "errors"} /\ pc'[h] = pc[h] /\ SameRun(h)
         /\ call'[h].todo = call[h].todo /\ call'[h].won = call[h].won
         /\ call'[h].size = call[h].size
         /\ \E s \in call[h].bad :
              /\ call'[h].bad = call[h].bad \ {s}
              /\ \/ sizeStatus' = [sizeStatus EXCEPT
                                     ![call[h].req][s] = "failed"]
                 \/ UNCHANGED sizeStatus /\ ~Faultless'
<1>1. \E s \in call[h].bad :
        /\ call' = [call EXCEPT ![h].bad = @ \ {s}]
        /\ \/ sizeStatus' = [sizeStatus EXCEPT ![call[h].req][s] = "failed"]
           \/ UNCHANGED sizeStatus /\ ~Faultless'
  BY StepFacts DEF MarkNextBad, FailWith
<1>at. pc[h] \in {"limits", "errors"} /\ pc'[h] = pc[h]
  BY DEF MarkNextBad
<1>2. ASSUME NEW s \in call[h].bad,
             call' = [call EXCEPT ![h].bad = @ \ {s}]
      PROVE  /\ SameRun(h) /\ call'[h].won = call[h].won
             /\ call'[h].size = call[h].size
             /\ call'[h].todo = call[h].todo
             /\ call'[h].bad = call[h].bad \ {s}
  BY <1>2, StepFacts DEF SameRun, Calls
<1>3. QED
  BY <1>1, <1>2, <1>at

\* The sizes that cannot be produced are set apart.
LEMMA ProcessSizesDoes ==
  ASSUME StateOK, NEW h \in Handlers, ProcessSizes(h)
  PROVE  /\ pc[h] = "limits" /\ call[h].bad = {} /\ SameRun(h)
         /\ call'[h].won = call[h].won /\ call'[h].size = call[h].size
         /\ \/ /\ pc'[h] = "errors"
               /\ \E broken \in SUBSET call[h].todo :
                    /\ call'[h].todo = call[h].todo \ broken
                    /\ call'[h].bad = broken
            \/ pc'[h] = "fail" /\ SameSizes(h) /\ call'[h].error # "none"
<1>1. \/ /\ pc'[h] = "errors"
         /\ \E broken \in SUBSET call[h].todo :
              call' = [call EXCEPT ![h].todo = @ \ broken, ![h].bad = broken]
      \/ /\ pc'[h] = "fail"
         /\ FailWith(h, "processing failed")
  BY StepFacts DEF ProcessSizes, FailWith
<1>at. pc[h] = "limits" /\ call[h].bad = {}
  BY DEF ProcessSizes, At
<1>2. ASSUME NEW broken \in SUBSET call[h].todo, pc'[h] = "errors",
             call' = [call EXCEPT ![h].todo = @ \ broken, ![h].bad = broken]
      PROVE  /\ SameRun(h) /\ call'[h].won = call[h].won
             /\ call'[h].size = call[h].size
             /\ call'[h].todo = call[h].todo \ broken
             /\ call'[h].bad = broken
  BY <1>2, StepFacts DEF SameRun, Calls
<1>3. FailWith(h, "processing failed") =>
        /\ SameRun(h) /\ SameSizes(h)
        /\ call'[h].error = "processing failed"
  BY StepFacts, FailWithIsLocal
<1>4. QED
  BY <1>1, <1>2, <1>3, <1>at DEF SameSizes

\* A hash is kept, or drawn and recorded.
LEMMA OutputHashForDoes ==
  ASSUME StateOK, NEW h \in Handlers, OutputHashFor(h)
  PROVE  LET r == call[h].req IN
         /\ pc[h] = "errors" /\ call[h].bad = {} /\ SameSizes(h)
         /\ call'[h].source = call[h].source
         /\ call'[h].beating = call[h].beating
         /\ \/ /\ call[h].hash # NoHash /\ pc'[h] = "persist"
               /\ SameRun(h) /\ UNCHANGED row
            \/ /\ call[h].hash = NoHash /\ pc'[h] = "persist"
               /\ call'[h].hash = minted[r] + 1
               /\ row' = [row EXCEPT ![r].hash = minted[r] + 1]
            \/ /\ pc'[h] = "fail" /\ SameRun(h) /\ call'[h].error # "none"
               /\ UNCHANGED row /\ ~Faultless'
<1>1. LET r == call[h].req IN
      \/ /\ call[h].hash # NoHash /\ pc'[h] = "persist"
         /\ call' = call /\ UNCHANGED row
      \/ /\ call[h].hash = NoHash /\ pc'[h] = "persist"
         /\ call' = [call EXCEPT ![h].hash = minted[r] + 1]
         /\ row' = [row EXCEPT ![r].hash = minted[r] + 1]
      \/ /\ pc'[h] = "fail" /\ UNCHANGED row /\ ~Faultless'
         /\ FailWith(h, "assign output hash")
  BY StepFacts DEF OutputHashFor, FailWith
<1>at. pc[h] = "errors" /\ call[h].bad = {}
  BY DEF OutputHashFor, At
<1>2. ASSUME NEW n, call' = [call EXCEPT ![h].hash = n]
      PROVE  /\ SameSizes(h) /\ call'[h].hash = n
             /\ call'[h].source = call[h].source
             /\ call'[h].beating = call[h].beating
  BY <1>1, <1>2, <1>at, StepFacts DEF SameRun, SameSizes, Calls
<1>drawn. call' = [call EXCEPT ![h].hash = minted[call[h].req] + 1] =>
             /\ SameSizes(h) /\ call'[h].hash = minted[call[h].req] + 1
             /\ call'[h].source = call[h].source
             /\ call'[h].beating = call[h].beating
  BY Zenon, <1>2
<1>3. \A e \in {"assign output hash"} : FailWith(h, e) =>
        SameRun(h) /\ SameSizes(h) /\ call'[h].error = e
  BY StepFacts, FailWithIsLocal
<1>4. QED
  BY Zenon, <1>1, <1>drawn, <1>3, <1>at, SameLocals DEF SameRun

\* One size is taken up; a row found is taken for an output.
LEMMA LookupOutputDoes ==
  ASSUME StateOK, NEW h \in Handlers, LookupOutput(h)
  PROVE  /\ pc[h] = "persist" /\ SameRun(h)
         /\ call'[h].bad = call[h].bad /\ call'[h].won = call[h].won
         /\ \E s \in call[h].todo :
              /\ call'[h].todo = call[h].todo \ {s} /\ call'[h].size = s
              /\ \/ /\ pc'[h] = "succeed"
                    /\ output[call[h].req][s] # NoRow
                 \/ pc'[h] = "create"
<1>1. \E s \in call[h].todo :
        /\ call' = [call EXCEPT ![h].todo = @ \ {s}, ![h].size = s]
        /\ \/ pc'[h] = "succeed" /\ output[call[h].req][s] # NoRow
           \/ pc'[h] = "create"
  BY StepFacts DEF LookupOutput, FailWith
<1>2. QED
  BY <1>1, StepFacts DEF LookupOutput, At, SameRun, SameSizes, Calls

\* The size counts as a success whether or not the mark lands.
LEMMA MarkSizeCompletedDoes ==
  ASSUME StateOK, NEW h \in Handlers, MarkSizeCompleted(h)
  PROVE  /\ pc[h] = "succeed" /\ pc'[h] = "persist" /\ SameRun(h)
         /\ call'[h].todo = call[h].todo /\ call'[h].bad = call[h].bad
         /\ call'[h].size = call[h].size
         /\ call'[h].won = call[h].won \cup {call[h].size}
         /\ \/ sizeStatus' = [sizeStatus EXCEPT
                                ![call[h].req][call[h].size] = "completed"]
            \/ UNCHANGED sizeStatus /\ ~Faultless'
<1>1. /\ pc'[h] = "persist"
      /\ call' = [call EXCEPT ![h].won = @ \cup {call[h].size}]
      /\ \/ sizeStatus' = [sizeStatus EXCEPT
                             ![call[h].req][call[h].size] = "completed"]
         \/ UNCHANGED sizeStatus /\ ~Faultless'
  BY StepFacts DEF MarkSizeCompleted, FailWith
<1>2. QED
  BY <1>1, StepFacts DEF MarkSizeCompleted, At, SameRun, SameSizes, Calls

\* The other statements change no locals.
LEMMA OtherStepsDo ==
  ASSUME StateOK, NEW h \in Handlers
  PROVE  /\ CreateOutput(h) => /\ pc[h] = "create"
                               /\ pc'[h] \in {"put", "giveup"}
         /\ PutOutput(h) => /\ pc[h] = "put"
                            /\ \/ pc'[h] = "path"
                               \/ pc'[h] = "rollback" /\ ~Faultless'
         /\ Rollback(h) => pc[h] = "rollback" /\ pc'[h] = "giveup"
         /\ RecordStoragePath(h) => /\ pc[h] = "path"
                                    /\ pc'[h] \in {"succeed", "giveup"}
         /\ MarkSizeFailed(h) => pc[h] = "giveup" /\ pc'[h] = "persist"
         /\ Finish(h) => pc[h] = "persist" /\ pc'[h] = "cleanup"
         /\ Fail(h) =>
              /\ pc[h] = "fail"
              /\ pc'[h] = IF call[h].source THEN "cleanup" ELSE "return"
         /\ CleanupSource(h) => pc[h] = "cleanup" /\ pc'[h] = "return"
<1>1. CreateOutput(h) => pc[h] = "create" /\ pc'[h] \in {"put", "giveup"}
  BY StepFacts DEF CreateOutput, At
<1>2. PutOutput(h) => /\ pc[h] = "put"
                      /\ \/ pc'[h] = "path"
                         \/ pc'[h] = "rollback" /\ ~Faultless'
  BY StepFacts DEF PutOutput, At
<1>3. Rollback(h) => pc[h] = "rollback" /\ pc'[h] = "giveup"
  BY StepFacts DEF Rollback, At
<1>4. RecordStoragePath(h) => /\ pc[h] = "path"
                              /\ pc'[h] \in {"succeed", "giveup"}
  BY StepFacts DEF RecordStoragePath, At
<1>5. MarkSizeFailed(h) => pc[h] = "giveup" /\ pc'[h] = "persist"
  BY StepFacts DEF MarkSizeFailed, At
<1>6. Finish(h) => pc[h] = "persist" /\ pc'[h] = "cleanup"
  BY StepFacts DEF Finish, At
<1>7. Fail(h) => /\ pc[h] = "fail"
                 /\ pc'[h] = IF call[h].source THEN "cleanup" ELSE "return"
  BY StepFacts DEF Fail, At
<1>8. CleanupSource(h) => pc[h] = "cleanup" /\ pc'[h] = "return"
  BY StepFacts DEF CleanupSource, At
<1>9. QED
  BY <1>1, <1>2, <1>3, <1>4, <1>5, <1>6, <1>7, <1>8

\* Which statement writes what.
LEMMA JobFrames ==
  ASSUME StateOK, NEW h \in Handlers, HandleStep(h)
  PROVE  /\ \/ MarkProcessing(h) \/ OutputHashFor(h) \/ Finish(h) \/ Fail(h)
            \/ UNCHANGED row
         /\ \/ MarkNextBad(h) \/ MarkSizeCompleted(h) \/ MarkSizeFailed(h)
            \/ UNCHANGED sizeStatus
         /\ \/ CreateOutput(h) \/ Rollback(h) \/ RecordStoragePath(h)
            \/ UNCHANGED output
         /\ CleanupSource(h) \/ UNCHANGED upload
         /\ \/ LoadRequest(h) \/ MarkProcessing(h) \/ OutputHashFor(h)
            \/ SameRun(h)
         /\ \/ Inspect(h) \/ MarkNextBad(h) \/ ProcessSizes(h)
            \/ LookupOutput(h) \/ MarkSizeCompleted(h)
            \/ SameSizes(h)
<1>row. \/ MarkProcessing(h) \/ OutputHashFor(h) \/ Finish(h) \/ Fail(h)
        \/ UNCHANGED row
  BY DEF HandleStep, LoadRequest, LoadSizes, Inspect, MarkNextBad,
         ProcessSizes, LookupOutput, CreateOutput, PutOutput, Rollback,
         RecordStoragePath, MarkSizeCompleted, MarkSizeFailed,
         CleanupSource, tables
<1>sizes. \/ MarkNextBad(h) \/ MarkSizeCompleted(h) \/ MarkSizeFailed(h)
          \/ UNCHANGED sizeStatus
  BY DEF HandleStep, LoadRequest, MarkProcessing, LoadSizes, Inspect,
         ProcessSizes, OutputHashFor, LookupOutput, CreateOutput, PutOutput,
         Rollback, RecordStoragePath, Finish, Fail, CleanupSource, tables
<1>output. \/ CreateOutput(h) \/ Rollback(h) \/ RecordStoragePath(h)
           \/ UNCHANGED output
  BY DEF HandleStep, LoadRequest, MarkProcessing, LoadSizes, Inspect,
         MarkNextBad, ProcessSizes, OutputHashFor, LookupOutput, PutOutput,
         MarkSizeCompleted, MarkSizeFailed, Finish, Fail, CleanupSource,
         tables
<1>upload. CleanupSource(h) \/ UNCHANGED upload
  BY DEF HandleStep, LoadRequest, MarkProcessing, LoadSizes, Inspect,
         MarkNextBad, ProcessSizes, OutputHashFor, LookupOutput, CreateOutput,
         PutOutput, Rollback, RecordStoragePath, MarkSizeCompleted,
         MarkSizeFailed, Finish, Fail, disks
<1>1. CASE UNCHANGED call
  BY <1>1, <1>row, <1>sizes, <1>output, <1>upload, SameLocals
<1>2. CASE LoadRequest(h) \/ MarkProcessing(h) \/ LoadSizes(h)
           \/ OutputHashFor(h) \/ Inspect(h) \/ MarkNextBad(h)
           \/ ProcessSizes(h) \/ LookupOutput(h) \/ MarkSizeCompleted(h)
  BY <1>2, <1>row, <1>sizes, <1>output, <1>upload, LoadRequestDoes,
     MarkProcessingDoes, LoadSizesDoes, OutputHashForDoes, InspectDoes,
     MarkNextBadDoes, ProcessSizesDoes, LookupOutputDoes,
     MarkSizeCompletedDoes
<1>3. QED
  BY <1>1, <1>2
     DEF HandleStep, CreateOutput, PutOutput, Rollback, RecordStoragePath,
         MarkSizeFailed, Finish, Fail, CleanupSource

(***************************************************************************)
(* The same for the steps around the job.                                  *)
(***************************************************************************)

\* Another goroutine is where it was.
OthersStay(h) ==
  \A g \in Handlers \ {h} : pc'[g] = pc[g] /\ call'[g] = call[g]

\* Everything recorded of another request is as it was.
OthersKept(r) ==
  \A q \in Requests \ {r} :
    /\ row'[q] = row[q] /\ sizeStatus'[q] = sizeStatus[q]
    /\ output'[q] = output[q] /\ upload'[q] = upload[q]

\* A new request, with some sizes, all pending.
LEMMA CreateRequestDoes ==
  ASSUME StateOK, NEW h \in Handlers, CreateRequest(h)
  PROVE  /\ pc[h] = "idle" /\ pc'[h] = "upload" /\ OthersStay(h)
         /\ UNCHANGED <<output, disks, minted, spent>>
         /\ SameRun(h) /\ SameSizes(h)
         /\ \E r \in Requests :
              /\ call'[h].req = r /\ OthersKept(r)
              /\ row[r].status = "absent" /\ row'[r].status = "pending"
              /\ row'[r].hash = row[r].hash /\ row'[r].error = row[r].error
              /\ Asked(r)' # {}
              /\ \A s \in Asked(r)' : sizeStatus'[r][s] = "pending"
<1>types. /\ row \in [Requests -> RequestRow]
          /\ sizeStatus \in [Requests -> [Sizes -> SizeStatuses]]
  BY DEF StateOK, TablesTypeOK
<1>1. PICK r \in Requests, asked \in (SUBSET Sizes) \ {{}} :
        /\ row[r].status = "absent"
        /\ row' = [row EXCEPT ![r].status = "pending"]
        /\ sizeStatus' = [sizeStatus EXCEPT ![r] =
             [s \in Sizes |-> IF s \in asked THEN "pending" ELSE "absent"]]
        /\ call' = [call EXCEPT ![h].req = r]
  BY DEF CreateRequest
<1>2. /\ pc[h] = "idle" /\ pc'[h] = "upload"
      /\ \A g \in Handlers \ {h} : pc'[g] = pc[g]
      /\ UNCHANGED <<output, disks, minted, spent>>
  BY StepFacts DEF CreateRequest, At, Goto
<1>3. /\ call'[h].req = r /\ SameRun(h) /\ SameSizes(h)
      /\ \A g \in Handlers \ {h} : call'[g] = call[g]
  BY <1>1, StepFacts DEF SameRun, SameSizes, Calls
<1>4. /\ row'[r].status = "pending" /\ row'[r].hash = row[r].hash
      /\ row'[r].error = row[r].error
      /\ \A q \in Requests \ {r} : row'[q] = row[q]
  BY <1>1, <1>types DEF RequestRow
<1>5. \A q \in Requests \ {r} : sizeStatus'[q] = sizeStatus[q]
  BY <1>1, <1>types
<1>6. \A s \in Sizes :
        sizeStatus'[r][s] = IF s \in asked THEN "pending" ELSE "absent"
  BY <1>1, <1>types
<1>7. Asked(r)' = asked
  BY <1>6 DEF Asked
<1>8. OthersKept(r)
  BY <1>2, <1>4, <1>5 DEF OthersKept, disks
<1>9. Asked(r)' # {} /\ \A s \in Asked(r)' : sizeStatus'[r][s] = "pending"
  BY <1>6, <1>7
<1>10. OthersStay(h)
  BY <1>2, <1>3 DEF OthersStay
<1>11. QED
  BY <1>1, <1>2, <1>3, <1>4, <1>8, <1>9, <1>10

\* A retry is accepted on what the row says now.
LEMMA CheckRetryableDoes ==
  ASSUME StateOK, NEW h \in Handlers, CheckRetryable(h)
  PROVE  /\ pc[h] = "idle" /\ pc'[h] = "reset" /\ OthersStay(h)
         /\ UNCHANGED <<tables, disks, minted, spent>>
         /\ SameRun(h) /\ SameSizes(h)
         /\ \E r \in Requests :
              call'[h].req = r /\ row[r].status \in RetryableStatuses
<1>1. PICK r \in Requests : /\ row[r].status \in RetryableStatuses
                            /\ call' = [call EXCEPT ![h].req = r]
  BY DEF CheckRetryable
<1>2. /\ pc[h] = "idle" /\ pc'[h] = "reset"
      /\ \A g \in Handlers \ {h} : pc'[g] = pc[g]
      /\ UNCHANGED <<tables, disks, minted, spent>>
  BY StepFacts DEF CheckRetryable, At, Goto
<1>3. /\ call'[h].req = r /\ SameRun(h) /\ SameSizes(h)
      /\ \A g \in Handlers \ {h} : call'[g] = call[g]
  BY <1>1, StepFacts DEF SameRun, SameSizes, Calls
<1>4. QED
  BY <1>1, <1>2, <1>3 DEF OthersStay

\* The reset, or a transaction that failed and left nothing.
LEMMA ResetRequestDoes ==
  ASSUME StateOK, NEW h \in Handlers, ResetRequest(h)
  PROVE  LET r == call[h].req IN
         /\ pc[h] = "reset" /\ r \in Requests
         /\ OthersStay(h) /\ OthersKept(r)
         /\ UNCHANGED <<output, disks, minted>>
         /\ \A q \in Requests : Asked(q)' = Asked(q)
         /\ \/ /\ pc'[h] = "acquire" /\ UNCHANGED <<call, spent>>
               /\ row'[r].status = "pending" /\ row'[r].hash = row[r].hash
               /\ row'[r].source = row[r].source /\ row'[r].error = "none"
               /\ \A s \in Asked(r) : sizeStatus'[r][s] = "pending"
            \/ /\ pc'[h] = "idle" /\ call'[h] = Idle /\ ~Faultless'
               /\ UNCHANGED <<row, sizeStatus>>
<1> DEFINE r == call[h].req
<1>types. /\ row \in [Requests -> RequestRow]
          /\ sizeStatus \in [Requests -> [Sizes -> SizeStatuses]]
  BY DEF StateOK, TablesTypeOK
<1>at. pc[h] = "reset" /\ r \in Requests
  BY DEF ResetRequest, At, StateOK, LocalsOK
<1>same. UNCHANGED <<output, disks, minted>>
  BY DEF ResetRequest
<1>1. CASE /\ Goto(h, "acquire") /\ UNCHANGED <<call, spent>>
           /\ row' = [row EXCEPT ![r].status = "pending", ![r].error = "none",
                                 ![r].started = FALSE, ![r].beat = "none"]
           /\ sizeStatus' = [sizeStatus EXCEPT ![r] =
                [s \in Sizes |-> IF s \in Asked(r) THEN "pending"
                                                   ELSE "absent"]]
  <2>1. /\ row'[r].status = "pending" /\ row'[r].hash = row[r].hash
        /\ row'[r].source = row[r].source /\ row'[r].error = "none"
        /\ \A q \in Requests \ {r} : row'[q] = row[q]
    BY <1>1, <1>at, <1>types DEF RequestRow
  <2>2. \A s \in Sizes :
          sizeStatus'[r][s] = IF s \in Asked(r) THEN "pending" ELSE "absent"
    BY <1>1, <1>at, <1>types
  <2>3. \A q \in Requests \ {r} : sizeStatus'[q] = sizeStatus[q]
    BY <1>1, <1>types
  <2>4. \A g \in Handlers \ {h} : pc'[g] = pc[g] /\ call'[g] = call[g]
    BY <1>1, StepFacts DEF Goto
  <2>5. \A q \in Requests : Asked(q)' = Asked(q)
    BY <2>2, <2>3 DEF Asked
  <2>6. \A s \in Asked(r) : sizeStatus'[r][s] = "pending"
    BY <2>2 DEF Asked
  <2>7. OthersKept(r)
    BY <1>same, <2>1, <2>3 DEF OthersKept, disks
  <2>8. pc'[h] = "acquire" /\ OthersStay(h)
    BY <1>1, <2>4, StepFacts DEF OthersStay
  <2>9. QED
    BY <1>1, <1>at, <1>same, <2>1, <2>5, <2>6, <2>7, <2>8
<1>2. CASE /\ Spend("fault") /\ Goto(h, "idle")
           /\ call' = [call EXCEPT ![h] = Idle]
           /\ UNCHANGED <<row, sizeStatus>>
  <2>1. call'[h] = Idle /\ \A g \in Handlers \ {h} : call'[g] = call[g]
    BY <1>2, StepFacts
  <2>2. \A q \in Requests : Asked(q)' = Asked(q)
    BY <1>2 DEF Asked
  <2>3. OthersStay(h) /\ pc'[h] = "idle" /\ ~Faultless'
    BY <1>2, <2>1, StepFacts DEF OthersStay, Goto
  <2>4. OthersKept(r)
    BY <1>2, <1>same DEF OthersKept, disks
  <2>5. QED
    BY <1>2, <1>at, <1>same, <2>1, <2>2, <2>3, <2>4
<1>3. QED
  BY <1>1, <1>2 DEF ResetRequest

\* A call that cannot go on ends: nothing but its locals changes.
LEMMA GivingUpDoes ==
  ASSUME StateOK, NEW h \in Handlers, Goto(h, "idle"),
         call' = [call EXCEPT ![h] = Idle]
  PROVE  pc'[h] = "idle" /\ call'[h] = Idle /\ OthersStay(h)
BY StepFacts DEF Goto, OthersStay

\* The upload is stored, or Store gives up.
LEMMA PutUploadedFileDoes ==
  ASSUME StateOK, NEW h \in Handlers, PutUploadedFile(h)
  PROVE  /\ pc[h] = "upload" /\ call[h].req \in Requests
         /\ OthersStay(h) /\ OthersKept(call[h].req)
         /\ UNCHANGED <<row, sizeStatus, output, bucket, minted>>
         /\ \/ pc'[h] = "record" /\ UNCHANGED <<call, spent>>
            \/ /\ pc'[h] = "idle" /\ call'[h] = Idle /\ ~Faultless'
               /\ UNCHANGED upload
<1>1. pc[h] = "upload" /\ call[h].req \in Requests
  BY DEF PutUploadedFile, At, StateOK, LocalsOK
<1>2. UNCHANGED <<row, sizeStatus, output, bucket, minted>>
  BY DEF PutUploadedFile, tables
<1>3. OthersKept(call[h].req)
  BY <1>2 DEF PutUploadedFile, OthersKept, StateOK, TablesTypeOK
<1>4. CASE Goto(h, "record") /\ UNCHANGED <<call, spent>>
  <2>1. pc'[h] = "record" /\ OthersStay(h)
    BY <1>4, StepFacts DEF Goto, OthersStay
  <2>2. QED
    BY <1>1, <1>2, <1>3, <1>4, <2>1
<1>5. CASE /\ Spend("fault") /\ Goto(h, "idle") /\ UNCHANGED upload
           /\ call' = [call EXCEPT ![h] = Idle]
  BY <1>1, <1>2, <1>3, <1>5, GivingUpDoes, StepFacts
<1>6. QED
  BY <1>4, <1>5 DEF PutUploadedFile

\* The row learns of the upload, or Store gives up.
LEMMA RecordSourcePathDoes ==
  ASSUME StateOK, NEW h \in Handlers, RecordSourcePath(h)
  PROVE  LET r == call[h].req IN
         /\ pc[h] = "record" /\ r \in Requests
         /\ OthersStay(h) /\ OthersKept(r)
         /\ UNCHANGED <<sizeStatus, output, disks, minted>>
         /\ row'[r].status = row[r].status /\ row'[r].hash = row[r].hash
         /\ row'[r].error = row[r].error
         /\ \/ /\ pc'[h] = "acquire" /\ UNCHANGED <<call, spent>>
               /\ row'[r].source
            \/ /\ pc'[h] = "idle" /\ call'[h] = Idle /\ ~Faultless'
               /\ UNCHANGED row
<1> DEFINE r == call[h].req
<1>1. pc[h] = "record" /\ r \in Requests
  BY DEF RecordSourcePath, At, StateOK, LocalsOK
<1>2. UNCHANGED <<sizeStatus, output, disks, minted>>
  BY DEF RecordSourcePath
<1>3. CASE /\ Goto(h, "acquire") /\ UNCHANGED <<call, spent>>
           /\ row' = [row EXCEPT ![r].source = TRUE]
  <2>1. /\ row'[r].status = row[r].status /\ row'[r].hash = row[r].hash
        /\ row'[r].error = row[r].error /\ row'[r].source
        /\ \A q \in Requests \ {r} : row'[q] = row[q]
    BY <1>1, <1>3 DEF StateOK, TablesTypeOK, RequestRow
  <2>2. pc'[h] = "acquire" /\ OthersStay(h)
    BY <1>3, StepFacts DEF Goto, OthersStay
  <2>3. OthersKept(r)
    BY <1>2, <2>1 DEF OthersKept, disks
  <2>4. QED
    BY <1>1, <1>2, <1>3, <2>1, <2>2, <2>3
<1>4. CASE /\ Spend("fault") /\ Goto(h, "idle") /\ UNCHANGED row
           /\ call' = [call EXCEPT ![h] = Idle]
  <2>1. OthersKept(r)
    BY <1>2, <1>4 DEF OthersKept, disks
  <2>2. QED
    BY <1>1, <1>2, <1>4, <2>1, GivingUpDoes, StepFacts
<1>5. QED
  BY <1>3, <1>4 DEF RecordSourcePath

\* A slot is taken and given back.
LEMMA SlotStepsDo ==
  ASSUME StateOK, NEW h \in Handlers
  PROVE  /\ Acquire(h) =>
              /\ pc[h] = "acquire" /\ pc'[h] = "load" /\ OthersStay(h)
              /\ UNCHANGED <<tables, disks, minted, spent, call>>
         /\ Return(h) =>
              /\ pc[h] = "return" /\ pc'[h] = "idle" /\ call'[h] = Idle
              /\ OthersStay(h)
              /\ UNCHANGED <<tables, disks, minted, spent>>
<1>1. ASSUME Acquire(h)
      PROVE  /\ pc[h] = "acquire" /\ pc'[h] = "load" /\ OthersStay(h)
             /\ UNCHANGED <<tables, disks, minted, spent, call>>
  BY <1>1, StepFacts DEF Acquire, At, Goto, OthersStay
<1>2. ASSUME Return(h)
      PROVE  /\ pc[h] = "return" /\ pc'[h] = "idle" /\ call'[h] = Idle
             /\ OthersStay(h) /\ UNCHANGED <<tables, disks, minted, spent>>
  BY <1>2, GivingUpDoes DEF Return, At
<1>3. QED
  BY <1>1, <1>2

(***************************************************************************)
(* What the heartbeat, the sweep, the clock and a crash do to the rows.    *)
(***************************************************************************)

\* Nothing of a row but the age of its heartbeat.
SameButBeat(r) ==
  /\ row'[r].status = row[r].status /\ row'[r].error = row[r].error
  /\ row'[r].hash = row[r].hash /\ row'[r].source = row[r].source

\* A tick and an age.
LEMMA BeatStepsDo ==
  ASSUME StateOK,
         \/ \E h \in Handlers : Tick(h)
         \/ \E r \in Requests : Lapse(r) \/ Stall(r)
  PROVE  /\ UNCHANGED <<sizeStatus, output, disks, minted, pc, call>>
         /\ \A r \in Requests : SameButBeat(r)
<1>1. PICK r \in Requests :
        \E beat \in Beats : row' = [row EXCEPT ![r].beat = beat]
  BY DEF Tick, Heartbeat, Lapse, Stall, Age, Beats, StateOK, LocalsOK
<1>2. UNCHANGED <<sizeStatus, output, disks, minted, pc, call>>
  BY DEF Tick, Heartbeat, Lapse, Stall, Age
<1>3. QED
  BY <1>1, <1>2 DEF StateOK, TablesTypeOK, RequestRow, SameButBeat

\* The sweep touches abandoned rows only, which are processing.
LEMMA SweepDoes ==
  ASSUME StateOK, SweepStaleProcessingRequests
  PROVE  /\ UNCHANGED <<sizeStatus, output, disks, minted, spent, pc, call>>
         /\ \A r \in Requests :
              \/ row'[r] = row[r]
              \/ /\ Abandoned(r) /\ row[r].status = "processing"
                 /\ row'[r].status = "failed"
                 /\ row'[r].error = "interrupted"
                 /\ row'[r].hash = row[r].hash
                 /\ row'[r].source = row[r].source
<1>1. \A r \in Requests :
        row'[r] = IF Abandoned(r) THEN Swept(r) ELSE row[r]
  BY DEF SweepStaleProcessingRequests
<1>2. \A r \in Requests :
        /\ Swept(r).status = "failed" /\ Swept(r).error = "interrupted"
        /\ Swept(r).hash = row[r].hash /\ Swept(r).source = row[r].source
  BY DEF Swept, StateOK, TablesTypeOK, RequestRow
<1>3. \A r \in Requests : Abandoned(r) => row[r].status = "processing"
  BY DEF Abandoned
<1>4. UNCHANGED <<sizeStatus, output, disks, minted, spent, pc, call>>
  BY DEF SweepStaleProcessingRequests
<1>5. QED
  BY <1>1, <1>2, <1>3, <1>4

\* A crash takes the goroutines and leaves the rest.
LEMMA CrashDoes ==
  ASSUME StateOK, Crash
  PROVE  /\ UNCHANGED <<tables, disks, minted>> /\ ~Undisturbed'
         /\ \A g \in Handlers : pc'[g] = "idle" /\ call'[g] = Idle
         /\ Faultless' => Faultless
BY SpendIsNoted DEF Crash, StateOK, TablesTypeOK

\* A step spends from one budget, or from none.
LEMMA StepsSpend ==
  ASSUME [Next]_vars
  PROVE  \/ UNCHANGED spent
         \/ Spend("fault") \/ Spend("crash") \/ Spend("stall")
<1>1. ASSUME NEW h \in Handlers, HandleStep(h)
      PROVE  UNCHANGED spent \/ Spend("fault")
  BY <1>1
     DEF HandleStep, LoadRequest, MarkProcessing, LoadSizes, Inspect,
         MarkNextBad, ProcessSizes, OutputHashFor, LookupOutput,
         CreateOutput, PutOutput, Rollback, RecordStoragePath,
         MarkSizeCompleted, MarkSizeFailed, Finish, Fail, CleanupSource
<1>2. QED
  BY <1>1
     DEF Next, vars, Progress, RunJob, CreateRequest, CheckRetryable,
         Acquire, Tick, Heartbeat, PutUploadedFile, RecordSourcePath,
         ResetRequest, Return, SweepStaleProcessingRequests, Lapse, Stall,
         Age, Crash

\* No step takes a fault back.
LEMMA FaultsStay ==
  ASSUME StateOK, [Next]_vars
  PROVE  /\ Faultless' => Faultless
         /\ Undisturbed' => Undisturbed
BY StepsSpend, SpendIsNoted DEF StateOK, TablesTypeOK, Faultless, Undisturbed
=============================================================================
