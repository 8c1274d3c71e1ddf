--------------------------- MODULE ImageApiProofs ---------------------------
(***************************************************************************)
(* The API is the pipeline with readers that change nothing in it, so that *)
(* every theorem of ImagePipelineProofs and OneAttemptProofs holds of it;  *)
(* and what it answers stays true of the disks.                            *)
(*                                                                         *)
(* The second half is about answers that are put together from three reads *)
(* while attempts go on, one at a time.  AnswersInv says what a load that  *)
(* is under way has read of an outcome (ViewOf), and what the client of    *)
(* every goroutine was told (AccountedOf, FinalOf): it is what the tables  *)
(* say as long as no retry has reset the request, and a retry is noted by  *)
(* the loads it falls into (ResetIsSeen).                                  *)
(***************************************************************************)
EXTENDS ImageApi, OneAttemptProofs

(***************************************************************************)
(* Every step of the API is a step of the pipeline or leaves it alone.     *)
(***************************************************************************)
LEMMA ReadsChangeNothing ==
  ASSUME NEW g \in Callers, Read(g)
  PROVE  UNCHANGED vars
BY DEF Read, LoadRow, LoadRequestSizes, LoadOutputs

\* Whatever a handler or reader does is a pipeline step or leaves it alone.
LEMMA ApiStepIsPipelineStep ==
  ASSUME [ApiNext]_apiVars
  PROVE  [Next]_vars
<1>1. ASSUME NEW h \in Handlers,
             Submit(h) \/ ServiceStatement(h) \/ ReturnAndLoad(h)
             \/ Acquire(h) \/ RunJob(h) \/ Tick(h)
      PROVE  Next
  BY <1>1 DEF Submit, ServiceStatement, ReturnAndLoad, Next, Progress
<1>2. ASSUME NEW h \in Handlers, Refuse(h) PROVE UNCHANGED vars
  BY <1>2 DEF Refuse
<1>3. ASSUME NEW c \in Readers, Show(c) PROVE UNCHANGED vars
  BY <1>3 DEF Show
<1>4. CASE SweepStaleProcessingRequests \/ \E r \in Requests :
                                             Lapse(r) \/ Stall(r)
  BY <1>4 DEF Next
<1>5. CASE Die
  BY <1>5 DEF Die, Next
<1>6. CASE UNCHANGED apiVars
  BY <1>6 DEF apiVars
<1>7. QED
  BY <1>1, <1>2, <1>3, <1>4, <1>5, <1>6, ReadsChangeNothing DEF ApiNext

\* Whatever the API does, the pipeline under it behaves as specified: reads,
\* refusals and discarded answers take no part in it.
THEOREM ApiRefinesPipeline == ApiSpec => Spec
<1>1. ApiInit => Init
  BY DEF ApiInit
<1>2. [ApiNext]_apiVars => [Next]_vars
  BY ApiStepIsPipelineStep
<1>3. QED
  BY <1>1, <1>2, PTL DEF ApiSpec, Spec

\* Nothing deletes or overwrites an object in the bucket.
LEMMA BucketGrows ==
  ASSUME [Next]_vars
  PROVE  bucket \subseteq bucket'
<1>1. ASSUME NEW h \in Handlers, RunJob(h)
      PROVE  bucket \subseteq bucket'
  BY <1>1
     DEF RunJob, HandleStep, LoadRequest, MarkProcessing, LoadSizes, Inspect,
         MarkNextBad, ProcessSizes, OutputHashFor, LookupOutput, CreateOutput,
         PutOutput, Rollback, RecordStoragePath, MarkSizeCompleted,
         MarkSizeFailed, Finish, Fail, CleanupSource, disks
<1>2. ASSUME NEW h \in Handlers,
             CreateRequest(h) \/ CheckRetryable(h) \/ PutUploadedFile(h)
             \/ RecordSourcePath(h) \/ ResetRequest(h) \/ Acquire(h)
             \/ Return(h) \/ Tick(h)
      PROVE  bucket \subseteq bucket'
  BY <1>2 DEF CreateRequest, CheckRetryable, PutUploadedFile,
     RecordSourcePath, ResetRequest, Acquire, Return, Tick, Heartbeat, disks
<1>3. CASE SweepStaleProcessingRequests \/ UNCHANGED vars \/ Crash
           \/ \E q \in Requests : Lapse(q) \/ Stall(q)
  BY <1>3 DEF SweepStaleProcessingRequests, vars, Lapse, Stall, Age, Crash,
              disks
<1>4. QED
  BY <1>1, <1>2, <1>3 DEF Next, Progress

(***************************************************************************)
(* The locals of loadRequestDetail and the answers.                        *)
(***************************************************************************)
ReadingOK ==
  /\ view \in [Callers -> Views]
  /\ reply \in [Callers -> Replies]
  /\ readFaults \in Nat
  /\ \A g \in Callers : ~Free(g) => view[g].req \in Requests

\* Every path ever answered, but for the empty one, is that of a stored object,
\* in every interleaving of requests, retries and reads: the bucket is written
\* before the path, and a path is read from the row that has it.
PathsResolve ==
  \A g \in Callers : \A s \in Sizes :
    reply[g].images[s] \notin {NoRow, EmptyPath} =>
      <<reply[g].req, s, reply[g].images[s]>> \in bucket

ApiInv == ReadingOK /\ PathsResolve

\* An empty view, and an answer without images, promise nothing.
LEMMA Constants ==
  /\ NoView \in Views
  /\ \A code \in {0, 404, 409, 500} : Refusal(code) \in Replies
  /\ \A code : \A s \in Sizes : Refusal(code).images[s] = NoRow
BY DEF NoView, Views, Refusal, Replies, Statuses, ErrorKinds, SizeStatuses,
       NoSizes, NoRows, NoRow

\* An answer that lists stored paths only, or no answer, keeps every url
\* resolvable.
LEMMA AnswerKeepsUrls ==
  ASSUME ReadingOK, PathsResolve, bucket \subseteq bucket',
         NEW g \in Callers, NEW a \in Replies, AnswerInTime(g, a),
         \A s \in Sizes : a.images[s] \notin {NoRow, EmptyPath} =>
           <<a.req, s, a.images[s]>> \in bucket
  PROVE  PathsResolve' /\ reply' \in [Callers -> Replies]
BY DEF ReadingOK, PathsResolve, AnswerInTime, Answer

\* An answer that is an error carries no url.
LEMMA RefusalKeepsUrls ==
  ASSUME ReadingOK, PathsResolve, bucket \subseteq bucket',
         NEW g \in Callers, NEW code \in {0, 404, 409, 500},
         AnswerInTime(g, Refusal(code))
  PROVE  PathsResolve' /\ reply' \in [Callers -> Replies]
BY AnswerKeepsUrls, Constants

\* Who answers nobody breaks no url, as the bucket only grows.
LEMMA SilenceKeepsUrls ==
  ASSUME ReadingOK, PathsResolve, bucket \subseteq bucket', reply' = reply
  PROVE  PathsResolve' /\ reply' \in [Callers -> Replies]
BY DEF ReadingOK, PathsResolve

\* A read of rows of their types, and a statement that touches no view, keep
\* the locals typed.
LEMMA ViewChanges ==
  ASSUME ReadingOK, NEW g \in Callers, NEW v \in Views,
         v.step = "none" \/ v.req \in Requests,
         view' = [view EXCEPT ![g] = v]
  PROVE  /\ view' \in [Callers -> Views]
         /\ \A c \in Callers : (~Free(c) => view[c].req \in Requests)'
BY DEF ReadingOK, Free

(***************************************************************************)
(* One lemma for each of the three reads, one for the services.            *)
(***************************************************************************)
LEMMA LoadRowKeeps ==
  ASSUME StateOK, ApiInv, NEW g \in Callers, LoadRow(g)
  PROVE  ApiInv'
<1>1. view[g] \in Views /\ view[g].req \in Requests /\ bucket' = bucket
  BY DEF ApiInv, ReadingOK, LoadRow, Free, vars, disks
<1>2. row[view[g].req] \in RequestRow
  BY <1>1 DEF StateOK, TablesTypeOK
<1>3. readFaults' \in Nat
  BY DEF LoadRow, ReadFault, ApiInv, ReadingOK
<1>4. CASE UNCHANGED reply
  <2>1. PICK v \in Views : /\ v.step = "none" \/ v.req \in Requests
                           /\ view' = [view EXCEPT ![g] = v]
    <3>1. CASE view' = [view EXCEPT ![g] = NoView]
      BY <3>1, Constants DEF NoView
    <3>2. CASE view' = [view EXCEPT ![g].step = "sizes",
                                    ![g].status = row[view[g].req].status,
                                    ![g].error = row[view[g].req].error]
      <4> DEFINE v == [view[g] EXCEPT !.step = "sizes",
                                      !.status = row[view[g].req].status,
                                      !.error = row[view[g].req].error]
      <4>1. v \in Views /\ v.req \in Requests
        BY <1>1, <1>2 DEF Views, RequestRow
      <4>2. view' = [view EXCEPT ![g] = v]
        BY <3>2
      <4>3. QED
        BY <4>1, <4>2
    <3>3. QED
      BY <3>1, <3>2 DEF LoadRow
  <2>2. QED
    BY <1>1, <1>3, <1>4, <2>1, ViewChanges, SilenceKeepsUrls
       DEF ApiInv, ReadingOK
<1>5. CASE view' = [view EXCEPT ![g] = NoView] /\ AnswerInTime(g, Vanished(g))
  <2>1. PICK code \in {0, 404, 409, 500} : AnswerInTime(g, Refusal(code))
    BY <1>5 DEF Vanished
  <2>2. PathsResolve' /\ reply' \in [Callers -> Replies]
    BY <1>1, <2>1, RefusalKeepsUrls DEF ApiInv
  <2>3. NoView \in Views /\ NoView.step = "none"
    BY Constants DEF NoView
  <2>4. /\ view' \in [Callers -> Views]
        /\ \A c \in Callers : (~Free(c) => view[c].req \in Requests)'
    BY <1>5, <2>3, ViewChanges DEF ApiInv
  <2>5. QED
    BY <1>3, <2>2, <2>4 DEF ApiInv, ReadingOK
<1>6. QED
  BY <1>4, <1>5 DEF LoadRow

\* Reading the size rows hands on no url.
LEMMA LoadSizesKeeps ==
  ASSUME StateOK, ApiInv, NEW g \in Callers, LoadRequestSizes(g)
  PROVE  ApiInv'
<1>1. view[g] \in Views /\ view[g].req \in Requests /\ bucket' = bucket
  BY DEF ApiInv, ReadingOK, LoadRequestSizes, Free, vars, disks
<1>2. sizeStatus[view[g].req] \in [Sizes -> SizeStatuses]
  BY <1>1 DEF StateOK, TablesTypeOK
<1>3. readFaults' \in Nat /\ reply' = reply
  BY DEF LoadRequestSizes, ReadFault, ApiInv, ReadingOK
<1>4. PICK v \in Views : /\ v.req \in Requests
                         /\ view' = [view EXCEPT ![g] = v]
  <2>1. CASE view' = [view EXCEPT ![g].step = "outputs",
                                  ![g].sizes = sizeStatus[view[g].req]]
    <3> DEFINE v == [view[g] EXCEPT !.step = "outputs",
                                    !.sizes = sizeStatus[view[g].req]]
    <3>1. v \in Views /\ v.req \in Requests
      BY <1>1, <1>2 DEF Views
    <3>2. QED
      BY <2>1, <3>1
  <2>2. CASE view' = [view EXCEPT ![g].step = "outputs"]
    <3> DEFINE v == [view[g] EXCEPT !.step = "outputs"]
    <3>1. v \in Views /\ v.req \in Requests
      BY <1>1 DEF Views
    <3>2. QED
      BY <2>2, <3>1
  <2>3. QED
    BY <2>1, <2>2 DEF LoadRequestSizes
<1>5. QED
  BY <1>1, <1>3, <1>4, ViewChanges, SilenceKeepsUrls DEF ApiInv, ReadingOK

\* The answer lists paths from rows that are there at that moment, so each of
\* them has its object.
LEMMA LoadOutputsKeeps ==
  ASSUME StateOK, ServedIsStored, ApiInv, NEW g \in Callers, LoadOutputs(g)
  PROVE  ApiInv'
<1> DEFINE r == view[g].req
<1>1. view[g] \in Views /\ r \in Requests /\ bucket' = bucket
  BY DEF ApiInv, ReadingOK, LoadOutputs, Free, vars, disks
<1>2. PICK found \in {output[r], NoRows} :
        AnswerInTime(g, RequestDetail(view[g], found))
  BY DEF LoadOutputs
<1> DEFINE a == RequestDetail(view[g], found)
<1>3. found \in [Sizes -> Nat \cup {NoRow}]
  BY <1>1 DEF StateOK, TablesTypeOK, NoRows
<1>4. a \in Replies
  BY <1>1, <1>3 DEF RequestDetail, Replies, Views
<1>5. ASSUME NEW s \in Sizes, a.images[s] \notin {NoRow, EmptyPath}
      PROVE  <<a.req, s, a.images[s]>> \in bucket
  <2>1. a.images[s] = found[s] /\ a.req = r
    BY <1>5 DEF RequestDetail
  <2>2. found = output[r]
    BY <1>5, <2>1 DEF NoRows
  <2>3. s \in Served(r)
    BY <1>5, <2>1, <2>2 DEF Served
  <2>4. QED
    BY <1>1, <2>1, <2>2, <2>3 DEF ServedIsStored
<1>6. PathsResolve' /\ reply' \in [Callers -> Replies]
  BY <1>1, <1>2, <1>4, <1>5, AnswerKeepsUrls DEF ApiInv
<1>7. readFaults' \in Nat
  BY DEF LoadOutputs, ReadFault, ApiInv, ReadingOK
<1>8. QED
  BY <1>6, <1>7, ViewChanges, Constants DEF LoadOutputs, ApiInv, ReadingOK,
                                            NoView

\* Every step of the API keeps what was answered resolvable.
LEMMA ApiNextKeeps ==
  ASSUME StateOK, ServedIsStored, ApiInv, [ApiNext]_apiVars
  PROVE  ApiInv'
<1>0. bucket \subseteq bucket'
  BY ApiStepIsPipelineStep, BucketGrows
<1>1. CASE UNCHANGED <<view, reply, readFaults>>
  BY <1>0, <1>1 DEF ApiInv, ReadingOK, PathsResolve, Free
<1>2. ASSUME NEW h \in Handlers, Submit(h) \/ Refuse(h) PROVE ApiInv'
  <2>1. PICK code \in {0, 404, 409, 500} : AnswerInTime(h, Refusal(code))
    BY <1>2 DEF Submit, Refuse, AnswerInTime
  <2>2. view' = view /\ readFaults' \in Nat
    BY <1>2 DEF Submit, Refuse, ReadFault, ApiInv, ReadingOK
  <2>3. h \in Callers
    BY DEF Callers
  <2>4. QED
    BY <1>0, <2>1, <2>2, <2>3, RefusalKeepsUrls DEF ApiInv, ReadingOK, Free
<1>3. ASSUME NEW h \in Handlers, ServiceStatement(h) PROVE ApiInv'
  <2>1. \A g \in Callers : /\ view'[g] \in Views
                           /\ view'[g].step = view[g].step
                           /\ view'[g].req = view[g].req
    BY <1>3 DEF ServiceStatement, ApiInv, ReadingOK, Views
  <2>2. view' \in [Callers -> Views]
    BY <1>3, <2>1 DEF ServiceStatement
  <2>3. h \in Callers
    BY DEF Callers
  <2>4. PathsResolve' /\ reply' \in [Callers -> Replies]
    BY <1>0, <1>3, <2>3, RefusalKeepsUrls, SilenceKeepsUrls
       DEF ServiceStatement, ApiInv
  <2>5. QED
    BY <1>3, <2>1, <2>2, <2>4 DEF ServiceStatement, ApiInv, ReadingOK, Free
<1>4. ASSUME NEW g \in Callers, NEW r \in Requests, Load(g, r),
             UNCHANGED <<reply, readFaults>>
      PROVE  ApiInv'
  <2> DEFINE v == [view[g] EXCEPT !.step = "row", !.req = r]
  <2>1. v \in Views /\ v.req \in Requests
    BY <1>4 DEF ApiInv, ReadingOK, Views
  <2>2. view' = [view EXCEPT ![g] = v]
    BY <1>4 DEF Load
  <2>3. QED
    BY <1>0, <1>4, <2>1, <2>2, ViewChanges, SilenceKeepsUrls
       DEF ApiInv, ReadingOK
<1>5. ASSUME NEW h \in Handlers, ReturnAndLoad(h) PROVE ApiInv'
  <2>1. call[h].req \in Requests
    BY <1>5 DEF ReturnAndLoad, Return, At, StateOK, LocalsOK
  <2>2. QED
    BY <1>4, <1>5, <2>1 DEF ReturnAndLoad, Callers
<1>6. ASSUME NEW c \in Readers, Show(c) PROVE ApiInv'
  BY <1>4, <1>6 DEF Show, Callers
<1>7. ASSUME NEW g \in Callers, Read(g) PROVE ApiInv'
  BY <1>7, LoadRowKeeps, LoadSizesKeeps, LoadOutputsKeeps DEF Read
<1>8. CASE Die
  <2>1. view' \in [Callers -> Views]
    BY <1>8, Constants DEF Die
  <2>2. QED
    BY <1>0, <1>8, <2>1, SilenceKeepsUrls DEF Die, ApiInv, ReadingOK, Free,
                                              NoView
<1>9. QED
  BY <1>1, <1>2, <1>3, <1>5, <1>6, <1>7, <1>8 DEF ApiNext, apiVars

\* Nobody has been answered yet.
LEMMA ApiInitInv ==
  ASSUME ApiInit
  PROVE  ApiInv
BY Constants DEF ApiInit, ApiInv, ReadingOK, PathsResolve, Free, NoView

\* The locals of every read and every answer are typed, and every url ever
\* answered resolves.
THEOREM ApiInvariance == ApiSpec => []ApiInv
<1>1. Inv => StateOK /\ ServedIsStored
  BY DEF Inv, StorageInv
<1>2. Inv /\ ApiInv /\ [ApiNext]_apiVars => ApiInv'
  BY <1>1, ApiNextKeeps
<1>3. ApiSpec => []Inv
  BY ApiRefinesPipeline, Invariance, PTL
<1>4. ApiInit => ApiInv
  BY ApiInitInv
<1>5. QED
  BY <1>2, <1>3, <1>4, PTL DEF ApiSpec

\* No client is ever given a path without an object behind it, whatever
\* retries, crashes and failed statements the three reads fall between.
THEOREM AnsweredPathsResolve == ApiSpec => []PathsResolve
<1>1. ApiInv => PathsResolve
  BY DEF ApiInv
<1>2. QED
  BY <1>1, ApiInvariance, PTL

\* Type correctness of the whole server.
THEOREM ApiTyped == ApiSpec => []ApiTypeOK
<1>1. ApiInv /\ TypeOK => ApiTypeOK
  BY DEF ApiInv, ReadingOK, ApiTypeOK
<1>2. QED
  BY <1>1, ApiInvariance, ApiRefinesPipeline, TypeCorrectness, PTL

(***************************************************************************)
(* How the locals of loadRequestDetail and the answers move.               *)
(***************************************************************************)

\* The row has been read, the sizes or the outputs have not.
Reads(g) == view[g].step \in {"sizes", "outputs"}

\* A retry is noted by those who have read the row.
ResetOf(g) == ~Reads(g) => ~view[g].reset

\* The locals of g but for that note.
SameView(g) ==
  /\ view'[g].step = view[g].step /\ view'[g].req = view[g].req
  /\ view'[g].status = view[g].status /\ view'[g].error = view[g].error
  /\ view'[g].sizes = view[g].sizes

\* The note is taken when another goroutine resets the request.
ResetMoves(g) ==
  \/ view'[g].reset = view[g].reset
  \/ /\ view'[g].reset /\ Reads(g)
     /\ \E h \in Handlers : pc[h] = "reset" /\ call[h].req = view[g].req

\* g begins to load, in a handler where its service function returns.
LoadBegins(g) ==
  /\ view'[g].step = "row" /\ ~view'[g].reset
  /\ g \in Handlers => ReturnAndLoad(g) /\ view'[g].req = call[g].req

\* g goes on to its next read.
RowWasRead(g) ==
  /\ view[g].step = "row" /\ view'[g].step = "sizes"
  /\ view'[g].req = view[g].req
  /\ view'[g].status = row[view[g].req].status
  /\ view'[g].error = row[view[g].req].error
  /\ view'[g].status # "absent" /\ ~view'[g].reset
  /\ UNCHANGED <<vars, reply>>

SizesWereRead(g) ==
  /\ view[g].step = "sizes" /\ view'[g].step = "outputs"
  /\ view'[g].req = view[g].req
  /\ view'[g].status = view[g].status /\ view'[g].error = view[g].error
  /\ view'[g].reset = view[g].reset
  /\ view'[g].sizes = sizeStatus[view[g].req] \/ ReadFault
  /\ UNCHANGED <<vars, reply>>

\* The pipeline is left alone by refusals and by the first read of another.
LEMMA LoadMoves ==
  ASSUME ReadingOK, NEW g \in Callers, NEW c \in Callers, NEW r, Load(c, r),
         ResetOf(g), Free(c)
  PROVE  \/ SameView(g) /\ view'[g].reset = view[g].reset
         \/ /\ c = g /\ view'[g].step = "row" /\ view'[g].req = r
            /\ ~view'[g].reset
<1>1. CASE c = g
  <2>1. ~view[g].reset
    BY <1>1 DEF ResetOf, Reads, Free
  <2>2. QED
    BY <1>1, <2>1 DEF Load, ReadingOK, Views
<1>2. CASE c # g
  <2>1. view'[g] = view[g]
    BY <1>2 DEF Load, ReadingOK
  <2>2. QED
    BY <2>1 DEF SameView
<1>3. QED
  BY <1>1, <1>2

\* A read moves the locals of its caller only.
LEMMA ReadMoves ==
  ASSUME ReadingOK, NEW g \in Callers, NEW c \in Callers, Read(c), ResetOf(g)
  PROVE  \/ SameView(g) /\ view'[g].reset = view[g].reset
         \/ view'[g].step = "none" /\ ~view'[g].reset
         \/ c = g /\ (RowWasRead(g) \/ SizesWereRead(g))
<1>view. view \in [Callers -> Views]
  BY DEF ReadingOK
<1>1. CASE c # g
  BY <1>1, <1>view DEF Read, LoadRow, LoadRequestSizes, LoadOutputs, SameView
<1>2. CASE c = g /\ view' = [view EXCEPT ![g] = NoView]
  BY <1>2, <1>view DEF NoView
<1>3. CASE c = g /\ LoadRow(g) /\ view' # [view EXCEPT ![g] = NoView]
  <2>1. /\ view[g].step = "row" /\ row[view[g].req].status # "absent"
        /\ view' = [view EXCEPT ![g].step = "sizes",
                                ![g].status = row[view[g].req].status,
                                ![g].error = row[view[g].req].error]
        /\ UNCHANGED <<vars, reply>>
    BY <1>3 DEF LoadRow
  <2>2. ~view[g].reset
    BY <2>1 DEF ResetOf, Reads
  <2>3. ASSUME NEW status, NEW error,
               view' = [view EXCEPT ![g].step = "sizes", ![g].status = status,
                                    ![g].error = error]
        PROVE  /\ view'[g].step = "sizes" /\ view'[g].req = view[g].req
               /\ view'[g].status = status /\ view'[g].error = error
               /\ view'[g].reset = view[g].reset
    BY <2>3, <1>view DEF Views
  <2>4. RowWasRead(g)
    <3>1. /\ view'[g].step = "sizes" /\ view'[g].req = view[g].req
          /\ view'[g].status = row[view[g].req].status
          /\ view'[g].error = row[view[g].req].error
          /\ view'[g].reset = view[g].reset
      BY ZenonT(30), <2>1, <2>3
    <3>2. QED
      BY <2>1, <2>2, <3>1 DEF RowWasRead
  <2>5. QED
    BY <1>3, <2>4
<1>4. CASE c = g /\ LoadRequestSizes(g)
  <2>1. /\ view[g].step = "sizes" /\ UNCHANGED <<vars, reply>>
        /\ \/ view' = [view EXCEPT ![g].step = "outputs",
                                   ![g].sizes = sizeStatus[view[g].req]]
           \/ ReadFault /\ view' = [view EXCEPT ![g].step = "outputs"]
    BY <1>4 DEF LoadRequestSizes
  <2>2. ASSUME NEW sizes,
               view' = [view EXCEPT ![g].step = "outputs", ![g].sizes = sizes]
        PROVE  /\ view'[g].step = "outputs" /\ view'[g].req = view[g].req
               /\ view'[g].status = view[g].status
               /\ view'[g].error = view[g].error
               /\ view'[g].reset = view[g].reset /\ view'[g].sizes = sizes
    BY <2>2, <1>view DEF Views
  <2>3. ASSUME view' = [view EXCEPT ![g].step = "outputs"]
        PROVE  /\ view'[g].step = "outputs" /\ view'[g].req = view[g].req
               /\ view'[g].status = view[g].status
               /\ view'[g].error = view[g].error
               /\ view'[g].reset = view[g].reset
    BY <2>3, <1>view DEF Views
  <2>4. QED
    BY <1>4, <2>1, <2>2, <2>3 DEF SizesWereRead
<1>5. QED
  BY <1>1, <1>2, <1>3, <1>4 DEF Read, LoadOutputs

\* A service statement changes nothing of a view but that note.
LEMMA ServiceMoves ==
  ASSUME ReadingOK, NEW g \in Callers, NEW h \in Handlers, ServiceStatement(h)
  PROVE  /\ SameView(g)
         /\ ResetMoves(g)
         /\ At(h, "reset") /\ pc'[h] # "idle" /\ RowRead(g, call[h].req) =>
              view'[g].reset
<1>1. view[g] \in Views
  BY DEF ReadingOK
<1>2. view'[g] = IF At(h, "reset") /\ pc'[h] # "idle"
                     /\ RowRead(g, call[h].req)
                   THEN [view[g] EXCEPT !.reset = TRUE] ELSE view[g]
  BY DEF ServiceStatement
<1>3. ASSUME view'[g] = [view[g] EXCEPT !.reset = TRUE]
      PROVE  SameView(g) /\ view'[g].reset
  BY <1>1, <1>3 DEF SameView, Views
<1>4. CASE /\ At(h, "reset") /\ pc'[h] # "idle"
           /\ RowRead(g, call[h].req)
  <2>1. view'[g] = [view[g] EXCEPT !.reset = TRUE]
    BY <1>2, <1>4
  <2>2. Reads(g) /\ pc[h] = "reset" /\ call[h].req = view[g].req
    BY <1>4 DEF RowRead, Reads, At
  <2>3. QED
    BY <1>3, <2>1, <2>2 DEF ResetMoves
<1>5. CASE ~(/\ At(h, "reset") /\ pc'[h] # "idle"
             /\ RowRead(g, call[h].req))
  <2>1. view'[g] = view[g]
    BY <1>2, <1>5
  <2>2. QED
    BY <1>5, <2>1 DEF SameView, ResetMoves
<1>6. QED
  BY <1>4, <1>5

\* All of it.
LEMMA ViewMoves ==
  ASSUME ReadingOK, NEW g \in Callers, ResetOf(g), [ApiNext]_apiVars,
         \A h \in Handlers : pc[h] = "return" => Free(h)
  PROVE  \/ /\ SameView(g)
            /\ ResetMoves(g)
         \/ view'[g].step = "none" /\ ~view'[g].reset
         \/ LoadBegins(g) \/ RowWasRead(g) \/ SizesWereRead(g)
<1>1. CASE UNCHANGED view
  BY <1>1 DEF SameView, ResetMoves
<1>2. ASSUME NEW h \in Handlers, ServiceStatement(h)
      PROVE  /\ SameView(g)
             /\ ResetMoves(g)
  BY <1>2, ServiceMoves
<1>3. ASSUME NEW h \in Handlers, ReturnAndLoad(h)
      PROVE  \/ SameView(g) /\ view'[g].reset = view[g].reset
             \/ LoadBegins(g)
  <2>1. Load(h, call[h].req) /\ pc[h] = "return"
    BY <1>3 DEF ReturnAndLoad, Return, At
  <2>2. \/ SameView(g) /\ view'[g].reset = view[g].reset
        \/ /\ h = g /\ view'[g].step = "row" /\ view'[g].req = call[h].req
           /\ ~view'[g].reset
    BY <2>1, LoadMoves DEF Callers
  <2>3. QED
    BY <1>3, <2>2 DEF LoadBegins
<1>4. ASSUME NEW c \in Readers, Show(c)
      PROVE  \/ SameView(g) /\ view'[g].reset = view[g].reset
             \/ LoadBegins(g)
  BY <1>4, LoadMoves, ApiAssumption DEF Show, Callers, LoadBegins
<1>5. ASSUME NEW c \in Callers, Read(c)
      PROVE  \/ SameView(g) /\ view'[g].reset = view[g].reset
             \/ view'[g].step = "none" /\ ~view'[g].reset
             \/ RowWasRead(g) \/ SizesWereRead(g)
  BY <1>5, ReadMoves
<1>6. CASE Die
  BY <1>6 DEF Die, NoView
<1>7. QED
  BY <1>1, <1>2, <1>3, <1>4, <1>5, <1>6
     DEF ApiNext, apiVars, Submit, Refuse, ResetMoves

\* A handler reads only after its service function has returned, and a reset is
\* noted only by those who have read the row.
ReadInv ==
  /\ \A h \in Handlers : ~Free(h) => pc[h] = "idle"
  /\ \A g \in Callers : ResetOf(g)

\* Reads begin where the service function ends, and end before the next call.
LEMMA NextKeepsReading ==
  ASSUME StateOK, ReadingOK, ReadInv, [ApiNext]_apiVars
  PROVE  ReadInv'
<1>busy. \A h \in Handlers : pc[h] # "idle" => Free(h)
  BY DEF ReadInv
<1>callers. Handlers \subseteq Callers
  BY DEF Callers
<1>1. ASSUME NEW g \in Callers PROVE ResetOf(g)'
  <2>1. ResetOf(g)
    BY DEF ReadInv
  <2>2. \/ /\ SameView(g)
           /\ ResetMoves(g)
        \/ view'[g].step = "none" /\ ~view'[g].reset
        \/ LoadBegins(g) \/ RowWasRead(g) \/ SizesWereRead(g)
    BY <1>busy, <2>1, ViewMoves
  <2>3. QED
    BY <2>1, <2>2 DEF ResetOf, Reads, SameView, ResetMoves, LoadBegins,
                         RowWasRead, SizesWereRead
<1>2. ASSUME NEW g \in Handlers, ~Free(g)'
      PROVE  pc'[g] = "idle"
  <2>typed. view \in [Callers -> Views] /\ g \in Callers
    BY <1>callers DEF ReadingOK
  <2>same. UNCHANGED view \/ view'[g].step = view[g].step => ~Free(g)
    BY <1>2 DEF Free
  <2>idle. ~Free(g) => pc[g] = "idle"
    BY DEF ReadInv
  <2>1. ASSUME NEW h \in Handlers, Submit(h) PROVE pc'[g] = "idle"
    <3>1. pc[g] = "idle" /\ g # h
      BY <2>1, <2>same, <2>idle DEF Submit
    <3>2. OthersStay(h)
      BY <2>1, CreateRequestDoes, CheckRetryableDoes DEF Submit
    <3>3. QED
      BY <3>1, <3>2 DEF OthersStay
  <2>2. ASSUME NEW h \in Handlers, ServiceStatement(h) PROVE pc'[g] = "idle"
    <3>1. view'[g].step = view[g].step
      BY <2>2, <1>callers, ServiceMoves DEF SameView
    <3>2. pc[h] # "idle" /\ OthersStay(h)
      BY <2>2, PutUploadedFileDoes, RecordSourcePathDoes, ResetRequestDoes
         DEF ServiceStatement
    <3>3. QED
      BY <2>same, <2>idle, <3>1, <3>2 DEF OthersStay
  <2>3. ASSUME NEW h \in Handlers, ReturnAndLoad(h) PROVE pc'[g] = "idle"
    <3>1. pc'[h] = "idle" /\ OthersStay(h)
      BY <2>3, SlotStepsDo DEF ReturnAndLoad
    <3>2. g # h => view'[g] = view[g]
      BY <2>3, <2>typed DEF ReturnAndLoad, Load
    <3>3. QED
      BY <2>same, <2>idle, <3>1, <3>2 DEF OthersStay
  <2>4. ASSUME NEW h \in Handlers, Acquire(h) \/ RunJob(h) \/ Tick(h),
               UNCHANGED view
        PROVE  pc'[g] = "idle"
    <3>1. pc[g] = "idle"
      BY <2>4, <2>same, <2>idle
    <3>2. CASE Acquire(h)
      BY <3>1, <3>2, SlotStepsDo DEF OthersStay
    <3>3. CASE RunJob(h)
      <4>1. HandleStep(h) /\ pc[h] # "idle"
        BY <3>3, JobGoto DEF RunJob, JobSteps
      <4>2. QED
        BY <3>1, <4>1, JobIsLocal
    <3>4. CASE Tick(h)
      BY <3>1, <3>4, BeatStepsDo
    <3>5. QED
      BY <2>4, <3>2, <3>3, <3>4
  <2>5. ASSUME NEW c \in Readers, Show(c) PROVE pc'[g] = "idle"
    <3>1. c # g
      BY ApiAssumption
    <3>2. view'[g] = view[g] /\ UNCHANGED vars
      BY <2>5, <2>typed, <3>1 DEF Show, Load
    <3>3. QED
      BY <2>same, <2>idle, <3>2 DEF vars
  <2>6. ASSUME NEW c \in Callers, Read(c) PROVE pc'[g] = "idle"
    <3>1. UNCHANGED vars
      BY <2>6, ReadsChangeNothing
    <3>2. CASE c = g
      BY <2>6, <2>idle, <3>1, <3>2
         DEF Read, LoadRow, LoadRequestSizes, LoadOutputs, Free, vars
    <3>3. CASE c # g
      <4>1. view'[g] = view[g]
        BY <2>6, <2>typed, <3>3 DEF Read, LoadRow, LoadRequestSizes, LoadOutputs
      <4>2. QED
        BY <2>same, <2>idle, <3>1, <4>1 DEF vars
    <3>4. QED
      BY <3>2, <3>3
  <2>7. CASE /\ \/ SweepStaleProcessingRequests
                \/ \E r \in Requests : Lapse(r) \/ Stall(r)
             /\ UNCHANGED view
    <3>1. UNCHANGED pc
      BY <2>7, SweepDoes, BeatStepsDo
    <3>2. QED
      BY <2>7, <2>same, <2>idle, <3>1
  <2>8. ~Die
    BY <1>2, <2>typed DEF Die, NoView, Free
  <2>9. CASE UNCHANGED <<vars, view>>
    BY <2>same, <2>idle, <2>9 DEF vars
  <2>10. QED
    BY <2>1, <2>2, <2>3, <2>4, <2>5, <2>6, <2>7, <2>8, <2>9
       DEF ApiNext, apiVars, Refuse
<1>3. QED
  BY <1>1, <1>2 DEF ReadInv

\* A read that failed stays counted.
LEMMA ReadFaultsStay ==
  ASSUME StateOK, ReadingOK, [ApiNext]_apiVars
  PROVE  /\ readFaults' = 0 => readFaults = 0
         /\ AllRead' => AllRead
         /\ ReadFault => ~AllRead'
<1>1. readFaults' = 0 => readFaults = 0
  <2>1. readFaults' = readFaults \/ readFaults' = readFaults + 1
    BY DEF ApiNext, Submit, Refuse, ServiceStatement, ReturnAndLoad, Show,
           Read, LoadRow, LoadRequestSizes, LoadOutputs, Die, ReadFault,
           apiVars
  <2>2. QED
    BY <2>1 DEF ReadingOK
<1>2. Faultless' => Faultless
  BY ApiStepIsPipelineStep, FaultsStay
<1>3. ReadFault => ~AllRead'
  BY DEF ReadFault, AllRead, ReadingOK
<1>4. QED
  BY <1>1, <1>2, <1>3 DEF AllRead

\* What the client of g is told at the end of a load.
Answered(g, found) ==
  /\ view[g].step = "outputs" /\ view'[g] = NoView
  /\ reply'[g] = RequestDetail(view[g], found)
  /\ UNCHANGED vars

\* The client of g is told of an error, without any url.
Refused(g) == reply'[g].code # 200 /\ \A s \in Sizes : reply'[g].images[s] = NoRow

\* An answer changes to a refusal or to what a load has found.
LEMMA ReplyMoves ==
  ASSUME ReadingOK, NEW g \in Callers, [ApiNext]_apiVars
  PROVE  \/ reply'[g] = reply[g]
         \/ Refused(g)
         \/ Answered(g, output[view[g].req])
         \/ ReadFault /\ Answered(g, NoRows)
<1>typed. reply \in [Callers -> Replies] /\ view \in [Callers -> Views]
  BY DEF ReadingOK
<1>refusal. ASSUME NEW c \in Callers, NEW code \in {0, 404, 409, 500},
                   AnswerInTime(c, Refusal(code))
            PROVE  reply'[g] = reply[g] \/ Refused(g)
  <2>1. Refusal(code).code # 200
    BY DEF Refusal
  <2>2. QED
    BY <1>refusal, <1>typed, <2>1, Constants DEF AnswerInTime, Answer, Refused
<1>1. ASSUME NEW h \in Handlers, Submit(h) \/ Refuse(h)
      PROVE  reply'[g] = reply[g] \/ Refused(g)
  <2>1. PICK code \in {0, 404, 409, 500} : AnswerInTime(h, Refusal(code))
    BY <1>1 DEF Submit, Refuse, AnswerInTime
  <2>2. QED
    BY <1>refusal, <2>1 DEF Callers
<1>2. ASSUME NEW h \in Handlers, ServiceStatement(h)
      PROVE  reply'[g] = reply[g] \/ Refused(g)
  BY <1>2, <1>refusal DEF ServiceStatement, Callers
<1>3. ASSUME NEW c \in Callers, LoadRow(c)
      PROVE  reply'[g] = reply[g] \/ Refused(g)
  <2>1. UNCHANGED reply \/ \E code \in {404, 500} :
                             AnswerInTime(c, Refusal(code))
    BY <1>3 DEF LoadRow, Vanished
  <2>2. QED
    BY <1>refusal, <2>1
<1>4. ASSUME NEW c \in Callers, LoadOutputs(c)
      PROVE  \/ reply'[g] = reply[g]
             \/ Answered(g, output[view[g].req])
             \/ ReadFault /\ Answered(g, NoRows)
  <2>1. CASE c = g
    <3>1. view'[g] = NoView /\ view[g].step = "outputs" /\ UNCHANGED vars
      BY <1>4, <1>typed, <2>1 DEF LoadOutputs
    <3>2. \/ /\ ReadFault
             /\ \/ UNCHANGED reply
                \/ reply' = [reply EXCEPT ![g] =
                     RequestDetail(view[g], NoRows)]
          \/ UNCHANGED reply
          \/ reply' = [reply EXCEPT ![g] =
               RequestDetail(view[g], output[view[g].req])]
      BY <1>4, <2>1 DEF LoadOutputs, AnswerInTime, Answer
    <3>3. QED
      BY <1>typed, <3>1, <3>2 DEF Answered
  <2>2. CASE c # g
    <3>1. reply'[g] = reply[g]
      BY <1>4, <1>typed, <2>2 DEF LoadOutputs, AnswerInTime, Answer
    <3>2. QED
      BY <3>1
  <2>3. QED
    BY <2>1, <2>2
<1>5. \/ UNCHANGED reply
      \/ \E h \in Handlers : Submit(h) \/ Refuse(h) \/ ServiceStatement(h)
      \/ \E c \in Callers : LoadRow(c) \/ LoadOutputs(c)
  BY DEF ApiNext, apiVars, Read, LoadRequestSizes, ReturnAndLoad, Show, Die
<1>6. QED
  BY <1>1, <1>2, <1>3, <1>4, <1>5

\* A retry that resets a request is noted by those who have read its row.
LEMMA ResetIsSeen ==
  ASSUME StateOK, ReadingOK, [ApiNext]_apiVars, NEW g \in Callers, Reads(g),
         NEW h \in Handlers, pc[h] = "reset", call[h].req = view[g].req,
         pc'[h] \notin {"idle", "reset"}
  PROVE  view'[g].reset
<1>1. ASSUME NEW k \in Handlers,
             Submit(k) \/ ServiceStatement(k) \/ ReturnAndLoad(k)
             \/ Acquire(k) \/ RunJob(k)
      PROVE  k = h /\ ServiceStatement(h)
  <2>1. k = h
    <3>1. OthersStay(k)
      BY <1>1, CreateRequestDoes, CheckRetryableDoes, PutUploadedFileDoes,
         RecordSourcePathDoes, ResetRequestDoes, SlotStepsDo, JobIsLocal
         DEF Submit, ServiceStatement, ReturnAndLoad, RunJob, OthersStay
    <3>2. QED
      BY <3>1 DEF OthersStay
  <2>2. ~Submit(h) /\ ~ReturnAndLoad(h) /\ ~Acquire(h) /\ ~RunJob(h)
    BY JobGoto, CreateRequestDoes, CheckRetryableDoes, SlotStepsDo
       DEF Submit, ReturnAndLoad, RunJob, JobSteps
  <2>3. QED
    BY <1>1, <2>1, <2>2
<1>2. ASSUME UNCHANGED pc \/ Crash \/ (\A k \in Handlers : pc'[k] = pc[k])
      PROVE  FALSE
  BY <1>2, CrashDoes
<1>3. UNCHANGED vars => UNCHANGED pc
  BY DEF vars
<1>4. ASSUME NEW k \in Handlers, Tick(k) PROVE FALSE
  BY <1>2, <1>4, BeatStepsDo
<1>5. ASSUME SweepStaleProcessingRequests \/ \E r \in Requests :
                                               Lapse(r) \/ Stall(r)
      PROVE FALSE
  BY <1>2, <1>5, SweepDoes, BeatStepsDo
<1>6. ServiceStatement(h)
  BY <1>1, <1>2, <1>3, <1>4, <1>5, ReadsChangeNothing
     DEF ApiNext, apiVars, Refuse, Show, Die
<1>7. At(h, "reset") /\ RowRead(g, call[h].req)
  BY DEF At, RowRead, Reads
<1>8. QED
  BY <1>6, <1>7, ServiceMoves

\* What g has read of an outcome is what the tables say, as long as no retry has
\* reset the request; and a completed request is reset by none.
ViewOf(g) ==
  AllRead /\ Reads(g) =>
    LET r == view[g].req IN
    /\ /\ view[g].status \in TerminalStatuses /\ view[g].error = "none"
       /\ ~view[g].reset
       => /\ row[r].status = view[g].status /\ row[r].error = "none"
          /\ view[g].step = "outputs" => view[g].sizes = sizeStatus[r]
    /\ Unstalled /\ view[g].status = "completed" =>
         view[g].error = "none" /\ ~view[g].reset

\* An outcome that was read stays the outcome until it is reset.
LEMMA NextKeepsViews ==
  ASSUME StateOK, \A h \in Handlers : StatusOf(h), OnlyFailuresHaveErrors,
         ReadingOK, ReadInv, [ApiNext]_apiVars, NEW g \in Callers, ViewOf(g)
  PROVE  ViewOf(g)'
<1>1. SUFFICES ASSUME AllRead', Reads(g)'
               PROVE  ViewOf(g)'
  BY DEF ViewOf
<1>2. AllRead /\ ~ReadFault /\ (Unstalled' => Unstalled)
  BY <1>1, ReadFaultsStay, ApiStepIsPipelineStep, StallsStay
<1>3. \/ SameView(g) /\ ResetMoves(g)
      \/ RowWasRead(g) \/ SizesWereRead(g)
  <2>1. ResetOf(g) /\ \A h \in Handlers : pc[h] = "return" => Free(h)
    BY DEF ReadInv
  <2>2. QED
    BY <1>1, <2>1, ViewMoves DEF Reads, LoadBegins
<1>4. CASE SameView(g) /\ ResetMoves(g)
  <2>1. Reads(g)
    BY <1>1, <1>4 DEF SameView, Reads
  <2>2. PICK r \in Requests : view[g].req = r /\ view'[g].req = r
    BY <1>4, <2>1 DEF ReadingOK, SameView, Reads, Free
  <2>3. ASSUME view[g].status \in TerminalStatuses, view[g].error = "none",
               ~view'[g].reset
        PROVE  /\ row'[r].status = view[g].status /\ row'[r].error = "none"
               /\ view[g].step = "outputs" => view[g].sizes = sizeStatus'[r]
    <3>1. ~view[g].reset
      BY <1>4, <2>3 DEF ResetMoves
    <3>2. /\ row[r].status = view[g].status /\ row[r].error = "none"
          /\ view[g].step = "outputs" => view[g].sizes = sizeStatus[r]
      BY <1>2, <2>1, <2>2, <2>3, <3>1 DEF ViewOf
    <3>3. \A h \in Handlers : pc[h] = "reset" /\ call[h].req = r =>
            pc'[h] \in {"idle", "reset"}
      BY <2>1, <2>2, <2>3, ResetIsSeen
    <3>4. /\ row'[r].status = row[r].status /\ row'[r].error = row[r].error
          /\ sizeStatus'[r] = sizeStatus[r]
      BY <2>3, <3>2, <3>3, ApiStepIsPipelineStep, OutcomeStays
    <3>5. QED
      BY <3>2, <3>4
  <2>4. ASSUME Unstalled, view[g].status = "completed"
        PROVE  view[g].error = "none" /\ ~view'[g].reset
    <3>1. view[g].error = "none" /\ ~view[g].reset
      BY <1>2, <2>1, <2>4 DEF ViewOf
    <3>2. row[r].status = "completed"
      BY <1>2, <2>1, <2>2, <2>4, <3>1 DEF ViewOf, TerminalStatuses
    <3>3. \A h \in Handlers : call[h].req = r => pc[h] # "reset"
      BY <3>2 DEF StatusOf, RetryableStatuses
    <3>4. QED
      BY <1>4, <2>2, <3>1, <3>3 DEF ResetMoves
  <2>5. QED
    BY <1>2, <1>4, <2>2, <2>3, <2>4 DEF ViewOf, SameView
<1>5. CASE RowWasRead(g)
  <2>1. PICK r \in Requests : view[g].req = r /\ view'[g].req = r
    BY <1>5 DEF ReadingOK, RowWasRead, Free
  <2>2. row' = row
    BY <1>5 DEF RowWasRead, vars
  <2>3. ASSUME Unstalled, row[r].status = "completed"
        PROVE  row[r].error = "none"
    BY <2>3 DEF OnlyFailuresHaveErrors
  <2>4. QED
    BY <1>2, <1>5, <2>1, <2>2, <2>3 DEF ViewOf, RowWasRead
<1>6. CASE SizesWereRead(g)
  <2>1. PICK r \in Requests : view[g].req = r /\ view'[g].req = r
    BY <1>6 DEF ReadingOK, SizesWereRead, Free
  <2>2. row' = row /\ sizeStatus' = sizeStatus
    BY <1>6 DEF SizesWereRead, vars
  <2>3. Reads(g) /\ view'[g].sizes = sizeStatus[r]
    BY <1>2, <1>6, <2>1 DEF SizesWereRead, Reads
  <2>4. QED
    BY <1>2, <1>6, <2>1, <2>2, <2>3 DEF ViewOf, SizesWereRead
<1>7. QED
  BY <1>3, <1>4, <1>5, <1>6

(***************************************************************************)
(* The answers.                                                            *)
(***************************************************************************)

\* A row that was found stays there.
FoundOf(g) ==
  /\ Reads(g) => row[view[g].req].status # "absent"
  /\ reply[g].code = 200 =>
       reply[g].req \in Requests /\ row[reply[g].req].status # "absent"

AccountedOf(g) ==
  LET a == reply[g]
      listed == {s \in Sizes : a.images[s] # NoRow}
  IN AllRead /\ a.code = 200 /\ a.status \in TerminalStatuses
     /\ a.error = "none" /\ ~a.reset =>
       a.errors = Asked(a.req) \ listed

\* The whole answer for a completed request.
Final(r) ==
  [code |-> 200, req |-> r, status |-> "completed", error |-> "none",
   images |-> [s \in Sizes |-> IF sizeStatus[r][s] = "completed"
                                 THEN output[r][s] ELSE NoRow],
   errors |-> {}, reset |-> FALSE]

\* A client that was told "completed" was told all, and a load it has under way
\* for that request will say the same.
FinalOf(g) ==
  AllRead /\ Unstalled /\ Said(g, "completed") =>
    LET r == reply[g].req IN
    /\ row[r].status = "completed" /\ reply[g] = Final(r)
    /\ Reads(g) /\ view[g].req = r => view[g].status = "completed"

\* The sizes of an outcome are listed as images or as errors.
LEMMA DetailAccounts ==
  ASSUME StatusAgreesWithSizes, DoneIsRecorded, Faultless,
         NEW r \in Requests, row[r].status \in TerminalStatuses,
         row[r].error = "none",
         NEW v, v.sizes = sizeStatus[r]
  PROVE  LET a == RequestDetail(v, output[r]) IN
         /\ a.errors = Asked(r) \ {s \in Sizes : a.images[s] # NoRow}
         /\ row[r].status = "completed" => a.errors = {}
<1> DEFINE a == RequestDetail(v, output[r])
<1>1. {s \in Sizes : a.images[s] # NoRow} = Finished(r)
  BY DEF RequestDetail, DoneIsRecorded, Finished, Recorded
<1>2. a.errors = {s \in Sizes : sizeStatus[r][s] = "failed"}
  BY DEF RequestDetail
<1>3. /\ \A s \in Asked(r) \ Finished(r) : sizeStatus[r][s] = "failed"
      /\ row[r].status = "completed" => Finished(r) = Asked(r)
  BY DEF StatusAgreesWithSizes, Finished, Asked
<1>4. a.errors = Asked(r) \ Finished(r)
  BY <1>2, <1>3 DEF Finished, Asked
<1>5. QED
  BY <1>1, <1>3, <1>4

\* The answer of a load that read an outcome.
LEMMA AnsweredAccounts ==
  ASSUME StatusAgreesWithSizes, DoneIsRecorded, ReadingOK, AllRead,
         NEW g \in Callers, ViewOf(g),
         Answered(g, output[view[g].req]),
         view[g].status \in TerminalStatuses, view[g].error = "none",
         ~view[g].reset
  PROVE  LET r == view[g].req
             a == reply'[g]
         IN /\ a.errors = Asked(r) \ {s \in Sizes : a.images[s] # NoRow}
            /\ row[r].status = view[g].status
            /\ view[g].status = "completed" => a = Final(r)
<1>1. PICK r \in Requests : view[g].req = r
  BY DEF ReadingOK, Answered, Free
<1>2. /\ row[r].status = view[g].status /\ row[r].error = "none"
      /\ view[g].sizes = sizeStatus[r]
  BY <1>1 DEF ViewOf, Answered, Reads
<1>3. reply'[g] = RequestDetail(view[g], output[r])
  BY <1>1 DEF Answered
<1>4. /\ reply'[g].errors =
           Asked(r) \ {s \in Sizes : reply'[g].images[s] # NoRow}
      /\ row[r].status = "completed" => reply'[g].errors = {}
  BY <1>2, <1>3, DetailAccounts DEF AllRead
<1>5. ASSUME view[g].status = "completed"
      PROVE  reply'[g] = Final(r)
  <2>1. view[g].reset = FALSE
    BY DEF ReadingOK, Views
  <2>2. {s \in Sizes : view[g].sizes[s] = "failed"} = {}
    BY <1>2, <1>3, <1>4, <1>5 DEF RequestDetail
  <2>3. RequestDetail(view[g], output[r]) = Final(r)
    <3>1. /\ view[g].req = r /\ view[g].status = "completed"
          /\ view[g].error = "none" /\ view[g].sizes = sizeStatus[r]
      BY <1>1, <1>2, <1>5
    <3>2. QED
      BY ONLY <2>1, <2>2, <3>1 DEF RequestDetail, Final
  <2>4. QED
    BY <1>3, <2>3
<1>6. QED
  BY <1>1, <1>2, <1>4, <1>5

\* Rows that were found are there for the next read and for ever.
LEMMA NextKeepsFound ==
  ASSUME StateOK, AskedInv, ReadingOK, ReadInv, [ApiNext]_apiVars,
         NEW g \in Callers, FoundOf(g)
  PROVE  FoundOf(g)'
<1>1. \A r \in Requests : row[r].status # "absent" => row'[r].status # "absent"
  BY ApiStepIsPipelineStep, NextKeepsAsked
<1>2. ASSUME Reads(g)'
      PROVE  row'[view'[g].req].status # "absent"
  <2>1. \/ SameView(g) /\ ResetMoves(g)
        \/ RowWasRead(g) \/ SizesWereRead(g)
    <3>1. ResetOf(g) /\ \A h \in Handlers : pc[h] = "return" => Free(h)
      BY DEF ReadInv
    <3>2. QED
      BY <1>2, <3>1, ViewMoves DEF Reads, LoadBegins
  <2>2. PICK r \in Requests : view[g].req = r /\ view'[g].req = r
    BY <1>2, <2>1
       DEF ReadingOK, Free, SameView, RowWasRead, SizesWereRead, Reads
  <2>3. row[r].status # "absent"
    BY <1>2, <2>1, <2>2
       DEF FoundOf, SameView, RowWasRead, SizesWereRead, Reads
  <2>4. QED
    BY <1>1, <2>2, <2>3
<1>3. ASSUME reply'[g].code = 200
      PROVE  reply'[g].req \in Requests /\ row'[reply'[g].req].status # "absent"
  <2>1. CASE reply'[g] = reply[g]
    BY <1>1, <1>3, <2>1 DEF FoundOf
  <2>2. CASE view[g].step = "outputs" /\ reply'[g].req = view[g].req
    <3>1. view[g].req \in Requests /\ row[view[g].req].status # "absent"
      BY <2>2 DEF ReadingOK, Free, FoundOf, Reads
    <3>2. QED
      BY <1>1, <2>2, <3>1
  <2>3. ASSUME NEW found, Answered(g, found)
        PROVE  view[g].step = "outputs" /\ reply'[g].req = view[g].req
    BY <2>3 DEF Answered, RequestDetail
  <2>4. QED
    BY <1>3, <2>1, <2>2, <2>3, ReplyMoves DEF Refused
<1>4. QED
  BY <1>2, <1>3 DEF FoundOf

\* A completed request is left as it is.
LEMMA CompletedStays ==
  ASSUME StateOK, \A h \in Handlers : StatusOf(h), OnlyFailuresHaveErrors,
         Unstalled, [Next]_vars,
         NEW r \in Requests, row[r].status = "completed"
  PROVE  /\ row'[r].status = "completed" /\ Final(r)' = Final(r)
<1>1. row[r].error = "none"
  BY DEF OnlyFailuresHaveErrors
<1>2. \A h \in Handlers : ~(pc[h] = "reset" /\ call[h].req = r)
  BY DEF StatusOf, RetryableStatuses
<1>3. /\ row'[r].status = row[r].status
      /\ sizeStatus'[r] = sizeStatus[r] /\ output'[r] = output[r]
  BY <1>1, <1>2, OutcomeStays DEF TerminalStatuses
<1>4. QED
  BY <1>3 DEF Final

\* What was answered stays accounted for, and so is every new answer.
LEMMA NextKeepsAccounts ==
  ASSUME StateOK, AskedInv, AloneInv, DoneIsRecorded, ReadingOK,
         [ApiNext]_apiVars, NEW g \in Callers,
         ViewOf(g), FoundOf(g), AccountedOf(g)
  PROVE  AccountedOf(g)'
<1> DEFINE a == reply'[g]
<1>1. SUFFICES ASSUME AllRead', a.code = 200, a.status \in TerminalStatuses,
                      a.error = "none", ~a.reset, NEW r, a.req = r
               PROVE  a.errors = Asked(r)'
                                   \ {s \in Sizes : a.images[s] # NoRow}
  BY DEF AccountedOf, Asked
<1>2. AllRead /\ ~ReadFault
  BY <1>1, ReadFaultsStay
<1>3. CASE a = reply[g]
  <2>1. r \in Requests /\ row[r].status # "absent"
    BY <1>1, <1>3 DEF FoundOf
  <2>2. Asked(r)' = Asked(r)
    BY <2>1, ApiStepIsPipelineStep, NextKeepsAsked
  <2>3. a.errors = Asked(r) \ {s \in Sizes : a.images[s] # NoRow}
    BY <1>1, <1>2, <1>3, <2>1 DEF AccountedOf
  <2>4. QED
    BY <2>2, <2>3
<1>4. CASE Answered(g, output[view[g].req])
  <2>2. /\ view[g].req = r /\ view[g].status = a.status /\ view[g].error = a.error
        /\ view[g].reset = a.reset
    BY <1>1, <1>4 DEF Answered, RequestDetail
  <2>3. a.errors = Asked(r) \ {s \in Sizes : a.images[s] # NoRow}
    BY <1>1, <1>2, <1>4, <2>2, AnsweredAccounts DEF AloneInv
  <2>4. Asked(r)' = Asked(r)
    BY <1>4 DEF Answered, vars, Asked
  <2>5. QED
    BY <2>3, <2>4
<1>5. QED
  BY <1>1, <1>2, <1>3, <1>4, ReplyMoves DEF Refused

\* A client told "completed" keeps the final answer.
LEMMA NextKeepsFinal ==
  ASSUME StateOK, AloneInv, OnlyFailuresHaveErrors, DoneIsRecorded,
         ReadingOK, ReadInv, [ApiNext]_apiVars, NEW g \in Callers,
         ViewOf(g), FoundOf(g), FinalOf(g)
  PROVE  /\ FinalOf(g)'
         /\ /\ AllRead' /\ Unstalled /\ Said(g, "completed")
            /\ reply'[g].code = 200 /\ reply'[g].req = reply[g].req
            => reply'[g] = reply[g]
<1>status. \A h \in Handlers : StatusOf(h)
  BY DEF AloneInv
<1>stalls. Unstalled' => Unstalled
  BY ApiStepIsPipelineStep, StallsStay
<1>1. ASSUME AllRead', Unstalled, Answered(g, output[view[g].req]),
             view[g].status = "completed"
      PROVE  /\ reply'[g] = Final(view[g].req)
             /\ view[g].req \in Requests
             /\ row[view[g].req].status = "completed"
  <2>1. AllRead /\ Reads(g)
    BY <1>1, ReadFaultsStay DEF Answered, Reads
  <2>2. view[g].error = "none" /\ ~view[g].reset
    BY <1>1, <2>1 DEF ViewOf
  <2>3. QED
    BY <1>1, <2>1, <2>2, AnsweredAccounts
       DEF AloneInv, TerminalStatuses, ReadingOK, Free, Reads
<1>2. ASSUME AllRead', Unstalled, Said(g, "completed"), reply'[g] = reply[g]
      PROVE  FinalOf(g)'
  <2>1. PICK r \in Requests : reply[g].req = r /\ reply'[g].req = r
    BY <1>2 DEF FoundOf, Said
  <2>2. /\ row[r].status = "completed" /\ reply[g] = Final(r)
        /\ Reads(g) /\ view[g].req = r => view[g].status = "completed"
    BY <1>2, <2>1, ReadFaultsStay DEF FinalOf
  <2>3. row'[r].status = "completed" /\ reply'[g] = Final(r)'
    BY <1>status, <1>2, <2>2, ApiStepIsPipelineStep, CompletedStays
  <2>4. ASSUME Reads(g)', view'[g].req = r
        PROVE  view'[g].status = "completed"
    <3>1. \/ SameView(g) /\ ResetMoves(g)
          \/ RowWasRead(g) \/ SizesWereRead(g)
      <4>1. ResetOf(g) /\ \A h \in Handlers : pc[h] = "return" => Free(h)
        BY DEF ReadInv
      <4>2. QED
        BY <2>4, <4>1, ViewMoves DEF Reads, LoadBegins
    <3>2. QED
      BY <2>2, <2>4, <3>1 DEF SameView, RowWasRead, SizesWereRead, Reads
  <2>5. QED
    BY <2>1, <2>3, <2>4 DEF FinalOf
<1>3. ASSUME AllRead', Unstalled, Answered(g, output[view[g].req]),
             Said(g, "completed")'
      PROVE  FinalOf(g)'
  <2>1. /\ view[g].status = "completed" /\ ~Reads(g)'
        /\ reply'[g].req = view[g].req
    BY <1>3 DEF Answered, RequestDetail, Said, NoView, Reads
  <2>2. PICK r \in Requests : /\ view[g].req = r /\ reply'[g] = Final(r)
                              /\ row[r].status = "completed"
    BY <1>1, <1>3, <2>1
  <2>3. row' = row /\ Final(r)' = Final(r)
    BY <1>3 DEF Answered, vars, Final
  <2>4. QED
    BY <2>1, <2>2, <2>3 DEF FinalOf
<1>4. FinalOf(g)'
  <2>1. SUFFICES ASSUME AllRead', Unstalled', Said(g, "completed")'
                 PROVE  FinalOf(g)'
    BY DEF FinalOf
  <2>2. ~ReadFault /\ (reply'[g] = reply[g] => Said(g, "completed"))
    BY <2>1, ReadFaultsStay DEF Said
  <2>3. reply'[g].code = 200
    BY <2>1 DEF Said
  <2>4. QED
    BY <1>stalls, <1>2, <1>3, <2>1, <2>2, <2>3, ReplyMoves DEF Refused
<1>5. ASSUME AllRead', Unstalled, Said(g, "completed"),
             reply'[g].code = 200, reply'[g].req = reply[g].req,
             reply'[g] # reply[g]
      PROVE  FALSE
  <2>1. AllRead /\ Answered(g, output[view[g].req])
    BY <1>5, ReadFaultsStay, ReplyMoves DEF Refused
  <2>2. view[g].req = reply[g].req /\ Reads(g)
    BY <1>5, <2>1 DEF Answered, RequestDetail, Reads
  <2>3. view[g].status = "completed" /\ reply[g] = Final(reply[g].req)
    BY <1>5, <2>1, <2>2 DEF FinalOf
  <2>4. QED
    BY <1>1, <1>5, <2>1, <2>2, <2>3
<1>6. QED
  BY <1>4, <1>5

(***************************************************************************)
(* The urls of what is listed.                                             *)
(***************************************************************************)

\* While nothing fails and no process dies, a size that a lone attempt marked
\* completed has its path: the writer of an empty row still holds its size.
LEMMA DoneIsServed ==
  ASSUME StateOK, AloneInv, WritingInv, Undisturbed, NEW r \in Requests
  PROVE  Finished(r) \subseteq Served(r)
<1>1. SUFFICES ASSUME NEW s \in Finished(r), output[r][s] = EmptyPath
               PROVE  FALSE
  BY DEF WritingInv, DoneIsRecorded, Undisturbed, Recorded, Served, Finished
<1>2. PICK h \in Handlers : /\ pc[h] \in {"put", "path"}
                            /\ call[h].req = r /\ call[h].size = s
  BY <1>1 DEF WritingInv, EmptyIsWritten, Writer, Finished
<1>3. s \in Unfinished(r)
  BY <1>2 DEF AloneInv, SizesInv, SizesOf, Storing, SizeSteps, Current,
              Undisturbed
<1>4. QED
  BY <1>1, <1>3 DEF Finished, Unfinished

\* What g has read is listed with its path, and what it was told is not empty.
ListedOf(g) ==
  /\ view[g].step # "outputs" => view[g].sizes = NoSizes
  /\ Undisturbed => \A s \in Sizes :
       /\ view[g].sizes[s] = "completed" => s \in Served(view[g].req)
       /\ reply[g].images[s] # EmptyPath

\* Sizes are read in one step only, and forgotten with the load.
LEMMA SizesMove ==
  ASSUME ReadingOK, ReadInv, [ApiNext]_apiVars, NEW g \in Callers, ListedOf(g)
  PROVE  \/ /\ view'[g].sizes = view[g].sizes
            /\ view[g].step = "outputs" =>
                 view'[g].step = "outputs" /\ view'[g].req = view[g].req
         \/ view'[g].sizes = NoSizes
         \/ /\ view'[g].step = "outputs" /\ view'[g].req = view[g].req
            /\ view'[g].sizes = sizeStatus[view[g].req]
            /\ view[g].req \in Requests /\ UNCHANGED vars
<1>typed. view \in [Callers -> Views]
  BY DEF ReadingOK
<1>1. ASSUME NEW c \in Callers, NEW r, Free(c), Load(c, r)
      PROVE  view'[g] = view[g] \/ view'[g].sizes = NoSizes
  BY <1>1, <1>typed DEF Load, Free, ListedOf, Views
<1>2. ASSUME NEW h \in Handlers, ServiceStatement(h)
      PROVE  SameView(g)
  BY <1>2, ServiceMoves
<1>3. ASSUME NEW c \in Callers, LoadRow(c)
      PROVE  view'[g] = view[g] \/ view'[g].sizes = NoSizes
  <2>1. CASE c # g
    BY <1>3, <1>typed, <2>1 DEF LoadRow
  <2>2. CASE c = g
    <3>1. view[g].sizes = NoSizes
      BY <1>3, <2>2 DEF LoadRow, ListedOf
    <3>2. QED
      BY <1>3, <1>typed, <2>2, <3>1 DEF LoadRow, NoView, Views
  <2>3. QED
    BY <2>1, <2>2
<1>4. ASSUME NEW c \in Callers, LoadRequestSizes(c)
      PROVE  \/ view'[g] = view[g]
             \/ view'[g].sizes = NoSizes
             \/ /\ view'[g].step = "outputs" /\ view'[g].req = view[g].req
                /\ view'[g].sizes = sizeStatus[view[g].req]
                /\ view[g].req \in Requests /\ UNCHANGED vars
  <2>1. CASE c # g
    BY <1>4, <1>typed, <2>1 DEF LoadRequestSizes
  <2>2. CASE c = g
    <3>1. view[g].sizes = NoSizes /\ view[g].req \in Requests
      BY <1>4, <2>2 DEF LoadRequestSizes, ListedOf, ReadingOK, Free
    <3>2. QED
      BY <1>4, <1>typed, <2>2, <3>1 DEF LoadRequestSizes, Views
  <2>3. QED
    BY <2>1, <2>2
<1>5. ASSUME NEW c \in Callers, LoadOutputs(c)
      PROVE  view'[g] = view[g] \/ view'[g].sizes = NoSizes
  BY <1>5, <1>typed DEF LoadOutputs, NoView
<1>6. CASE Die
  BY <1>6 DEF Die, NoView
<1>7. ASSUME NEW h \in Handlers, ReturnAndLoad(h)
      PROVE  view'[g] = view[g] \/ view'[g].sizes = NoSizes
  <2>1. Free(h)
    BY <1>7 DEF ReturnAndLoad, Return, At, ReadInv
  <2>2. QED
    BY <1>1, <1>7, <2>1 DEF ReturnAndLoad, Callers
<1>8. ASSUME NEW c \in Readers, Show(c)
      PROVE  view'[g] = view[g] \/ view'[g].sizes = NoSizes
  BY <1>1, <1>8 DEF Show, Callers
<1>9. QED
  BY <1>2, <1>3, <1>4, <1>5, <1>6, <1>7, <1>8
     DEF ApiNext, apiVars, Submit, Refuse, Read, SameView

\* What is listed and answered keeps its path.
LEMMA NextKeepsListed ==
  ASSUME StateOK, StorageInv, AloneInv, WritingInv, ReadingOK, ReadInv,
         [ApiNext]_apiVars, NEW g \in Callers, ListedOf(g)
  PROVE  ListedOf(g)'
<1>next. [Next]_vars
  BY ApiStepIsPipelineStep
<1>none. \A s \in Sizes : NoSizes[s] # "completed"
  BY DEF NoSizes
<1>moves. \/ /\ view'[g].sizes = view[g].sizes
             /\ view[g].step = "outputs" =>
                  view'[g].step = "outputs" /\ view'[g].req = view[g].req
          \/ view'[g].sizes = NoSizes
          \/ /\ view'[g].step = "outputs" /\ view'[g].req = view[g].req
             /\ view'[g].sizes = sizeStatus[view[g].req]
             /\ view[g].req \in Requests /\ UNCHANGED vars
  BY SizesMove
<1>1. view'[g].step # "outputs" => view'[g].sizes = NoSizes
  BY <1>moves DEF ListedOf
<1>2. SUFFICES ASSUME Undisturbed', NEW s \in Sizes
               PROVE  /\ view'[g].sizes[s] = "completed" =>
                           s \in Served(view[g].req)'
                      /\ reply'[g].images[s] # EmptyPath
  BY <1>1 DEF ListedOf, Served
<1>3. Undisturbed
  BY <1>next, <1>2, FaultsStay
<1>4. ASSUME view'[g].sizes[s] = "completed"
      PROVE  s \in Served(view[g].req)'
  <2>1. CASE /\ view'[g].sizes = view[g].sizes
             /\ view[g].step = "outputs" =>
                  view'[g].step = "outputs" /\ view'[g].req = view[g].req
    <3>1. view[g].step = "outputs"
      BY <1>4, <1>none, <2>1 DEF ListedOf
    <3>2. PICK r \in Requests : view[g].req = r /\ view'[g].req = r
      BY <2>1, <3>1 DEF ReadingOK, Free
    <3>3. s \in Served(r)
      BY <1>3, <1>4, <2>1, <3>2 DEF ListedOf
    <3>4. output'[r][s] = output[r][s]
      BY <1>next, <3>3, NextKeepsUrls
    <3>5. QED
      BY <3>2, <3>3, <3>4 DEF Served
  <2>2. CASE view'[g].sizes = NoSizes
    BY <1>4, <1>none, <2>2
  <2>3. CASE /\ view'[g].step = "outputs" /\ view'[g].req = view[g].req
             /\ view'[g].sizes = sizeStatus[view[g].req]
             /\ view[g].req \in Requests /\ UNCHANGED vars
    <3>1. PICK r \in Requests : view[g].req = r /\ view'[g].req = r
      BY <2>3
    <3>2. s \in Finished(r)
      BY <1>4, <2>3, <3>1 DEF Finished
    <3>3. s \in Served(r) /\ output' = output
      BY <1>3, <2>3, <3>2, DoneIsServed DEF vars, tables
    <3>4. QED
      BY <3>1, <3>3 DEF Served
  <2>4. QED
    BY <1>moves, <2>1, <2>2, <2>3
<1>5. reply'[g].images[s] # EmptyPath
  <2>1. CASE reply'[g] = reply[g]
    BY <1>3, <2>1 DEF ListedOf
  <2>2. CASE Refused(g)
    BY <2>2 DEF Refused, NoRow, EmptyPath
  <2>3. CASE Answered(g, output[view[g].req])
    <3>1. PICK r \in Requests : view[g].req = r
      BY <2>3 DEF Answered, ReadingOK, Free
    <3>2. reply'[g].images[s] =
            IF view[g].sizes[s] = "completed" THEN output[r][s] ELSE NoRow
      BY <2>3, <3>1 DEF Answered, RequestDetail
    <3>3. view[g].sizes[s] = "completed" => s \in Served(r)
      BY <1>3, <3>1 DEF ListedOf
    <3>4. QED
      BY <3>2, <3>3 DEF Served, NoRow, EmptyPath
  <2>4. CASE Answered(g, NoRows)
    BY <2>4 DEF Answered, RequestDetail, NoRows, NoRow, EmptyPath
  <2>5. QED
    BY <2>1, <2>2, <2>3, <2>4, ReplyMoves
<1>6. QED
  BY <1>4, <1>5

(***************************************************************************)
(* What Store and Retry answer.                                            *)
(***************************************************************************)

\* Nobody works on a request while the handler that did loads its detail.
LoadsAlone ==
  \A g \in Handlers : \A h \in Handlers \ {g} :
    ~Free(g) => call[h].req # view[g].req

\* The load of a handler begins with the outcome of its run in the row.
OutcomeOf(h) ==
  AllRead =>
    /\ view[h].step = "row" => row[view[h].req].status \in TerminalStatuses
    /\ Reads(h) => view[h].status \in TerminalStatuses
    /\ reply[h].code = 200 => reply[h].status \in TerminalStatuses

\* It stays there until the row is read.
LEMMA NextKeepsOutcome ==
  ASSUME StateOK, AskedInv, \A h \in Handlers : EndOf(h), LoadsAlone,
         ReadingOK, ReadInv, [ApiNext]_apiVars,
         NEW g \in Handlers, OutcomeOf(g)
  PROVE  OutcomeOf(g)'
<1>1. SUFFICES ASSUME AllRead' PROVE OutcomeOf(g)'
  BY DEF OutcomeOf
<1>2. AllRead /\ ~ReadFault /\ g \in Callers
  BY <1>1, ReadFaultsStay DEF Callers
<1>3. ASSUME view'[g].step = "row"
      PROVE  row'[view'[g].req].status \in TerminalStatuses
  <2>1. \/ SameView(g) \/ LoadBegins(g)
    <3>1. ResetOf(g) /\ \A h \in Handlers : pc[h] = "return" => Free(h)
      BY <1>2 DEF ReadInv
    <3>2. QED
      BY <1>2, <1>3, <3>1, ViewMoves DEF RowWasRead, SizesWereRead
  <2>2. CASE SameView(g)
    <3>1. PICK r \in Requests : view[g].req = r /\ view'[g].req = r
      BY <1>2, <1>3, <2>2 DEF ReadingOK, SameView, Free
    <3>2. row[r].status \in TerminalStatuses
      BY <1>2, <1>3, <2>2, <3>1 DEF OutcomeOf, SameView
    <3>3. ASSUME NEW h \in Handlers PROVE call[h].req # r
      <4>1. ~Free(g)
        BY <1>3, <2>2 DEF SameView, Free
      <4>2. CASE h = g
        <5>1. call[g] = Idle
          BY <4>1 DEF ReadInv, AskedInv, AskedOf
        <5>2. QED
          BY <4>2, <5>1, PipelineAssumption DEF Idle
      <4>3. CASE h # g
        BY <3>1, <4>1, <4>3 DEF LoadsAlone
      <4>4. QED
        BY <4>2, <4>3
    <3>4. row'[r].status = row[r].status
      BY <3>2, <3>3, ApiStepIsPipelineStep, TerminalStays
    <3>5. QED
      BY <3>1, <3>2, <3>4
  <2>3. CASE LoadBegins(g)
    <3>1. PICK r \in Requests : call[g].req = r /\ view'[g].req = r
      BY <2>3, SlotStepsDo
         DEF LoadBegins, ReturnAndLoad, StateOK, LocalsOK
    <3>2. pc[g] = "return" /\ row' = row
      BY <2>3, SlotStepsDo DEF LoadBegins, ReturnAndLoad, tables
    <3>3. row[r].status \in TerminalStatuses
      BY <1>2, <3>1, <3>2 DEF EndOf, AllRead
    <3>4. QED
      BY <3>1, <3>2, <3>3
  <2>4. QED
    BY <2>1, <2>2, <2>3
<1>4. ASSUME Reads(g)'
      PROVE  view'[g].status \in TerminalStatuses
  <2>1. SameView(g) \/ RowWasRead(g) \/ SizesWereRead(g)
    <3>1. ResetOf(g) /\ \A h \in Handlers : pc[h] = "return" => Free(h)
      BY <1>2 DEF ReadInv
    <3>2. QED
      BY <1>2, <1>4, <3>1, ViewMoves DEF Reads, LoadBegins
  <2>2. QED
    BY <1>2, <1>4, <2>1
       DEF OutcomeOf, SameView, RowWasRead, SizesWereRead, Reads
<1>5. ASSUME reply'[g].code = 200
      PROVE  reply'[g].status \in TerminalStatuses
  <2>1. ASSUME Answered(g, output[view[g].req])
        PROVE  reply'[g].status = view[g].status /\ Reads(g)
    BY <2>1 DEF Answered, RequestDetail, Reads
  <2>2. QED
    BY <1>2, <1>5, <2>1, ReplyMoves DEF OutcomeOf, Refused
<1>6. QED
  BY <1>3, <1>4, <1>5 DEF OutcomeOf

(***************************************************************************)
(* The theorems about one attempt at a time.                               *)
(***************************************************************************)
AnswersInv ==
  ReadInv /\ \A g \in Callers : /\ ViewOf(g) /\ FoundOf(g)
                                /\ AccountedOf(g) /\ FinalOf(g)
                                /\ ListedOf(g)

\* Nobody has read or been told anything yet.
LEMMA InitAnswers ==
  ASSUME ApiInit
  PROVE  AnswersInv /\ \A h \in Handlers : OutcomeOf(h)
<1>1. ASSUME NEW g \in Callers
      PROVE  /\ view[g].step = "none" /\ ~view[g].reset
             /\ view[g].sizes = NoSizes
             /\ reply[g].code = 0 /\ reply[g].images = NoRows
  BY DEF ApiInit, NoView, Refusal
<1>2. Handlers \subseteq Callers
  BY DEF Callers
<1>3. QED
  BY <1>1, <1>2
     DEF AnswersInv, ReadInv, ResetOf, Free, Reads, ViewOf, FoundOf,
         AccountedOf, FinalOf, ListedOf, NoSizes, NoRows, NoRow, EmptyPath,
         Said, OutcomeOf

\* The answers agree with the tables for as long as one goroutine at a time
\* works on a request, with any number of others reading it meanwhile.
THEOREM AnswersAgree == ApiSpec /\ []OneAttempt => []AnswersInv
<1>1. /\ Inv /\ AttemptInv /\ AloneInv /\ WritingInv /\ EndInv
      /\ ApiInv /\ AnswersInv /\ [ApiNext]_apiVars
      => AnswersInv'
  <2>1. SUFFICES ASSUME StateOK, StorageInv, AttemptInv, AloneInv, WritingInv,
                        EndInv, ApiInv, AnswersInv, [ApiNext]_apiVars
                 PROVE  AnswersInv'
    BY DEF Inv
  <2>2. /\ \A h \in Handlers : StatusOf(h)
        /\ AskedInv /\ OnlyFailuresHaveErrors /\ DoneIsRecorded
        /\ ReadingOK /\ ReadInv
    BY <2>1 DEF AttemptInv, AloneInv, EndInv, WritingInv, ApiInv, AnswersInv
  <2>3. ReadInv'
    BY <2>1, <2>2, NextKeepsReading
  <2>4. ASSUME NEW g \in Callers
        PROVE  /\ ViewOf(g)' /\ FoundOf(g)' /\ AccountedOf(g)'
               /\ FinalOf(g)' /\ ListedOf(g)'
    <3>1. /\ ViewOf(g) /\ FoundOf(g) /\ AccountedOf(g) /\ FinalOf(g)
          /\ ListedOf(g)
      BY <2>1 DEF AnswersInv
    <3>2. ViewOf(g)' /\ FoundOf(g)'
      BY <2>1, <2>2, <3>1, NextKeepsViews, NextKeepsFound
    <3>3. AccountedOf(g)'
      BY <2>1, <2>2, <3>1, NextKeepsAccounts
    <3>4. FinalOf(g)'
      BY <2>1, <2>2, <3>1, NextKeepsFinal
    <3>5. ListedOf(g)'
      BY <2>1, <2>2, <3>1, NextKeepsListed
    <3>6. QED
      BY <3>2, <3>3, <3>4, <3>5
  <2>5. QED
    BY <2>3, <2>4 DEF AnswersInv
<1>2. ApiInit => AnswersInv
  BY InitAnswers
<1>3. ApiSpec /\ []OneAttempt =>
        []Inv /\ []AttemptInv /\ []AloneInv /\ []WritingInv /\ []EndInv
  BY ApiRefinesPipeline, Invariance, AttemptsAreSound, LoneAttemptsAgree,
     WorkIsAccountedFor, LoneAttemptsEnd, PTL
<1>4. QED
  BY <1>1, <1>2, <1>3, ApiInvariance, PTL DEF ApiSpec

\* No client is ever given a url without an object behind it, and the url of the
\* bare bucket only after a failing statement or the death of the process.
THEOREM AnswersResolve == ApiSpec /\ []OneAttempt => []UrlsResolve
<1>1. PathsResolve /\ AnswersInv => UrlsResolve
  BY DEF PathsResolve, AnswersInv, ListedOf, UrlsResolve
<1>2. QED
  BY <1>1, AnsweredPathsResolve, AnswersAgree, PTL

\* No size is missing from the answer that gives an outcome.
THEOREM AnswersAccountForAll ==
  ApiSpec /\ []OneAttempt => []NothingIsUnaccounted
<1>1. AnswersInv => NothingIsUnaccounted
  BY DEF AnswersInv, AccountedOf, NothingIsUnaccounted
<1>2. QED
  BY <1>1, AnswersAgree, PTL

\* "completed" is answered with every size and a url behind each, although the
\* answer is put together from three reads.
THEOREM CompletedAnswersAreWhole ==
  ApiSpec /\ []OneAttempt /\ []Unstalled => []CompletedAnswerIsWhole
<1>1. /\ StateOK /\ AttemptInv /\ AloneInv /\ WritingInv /\ EndInv
      /\ AnswersInv /\ Unstalled
      => CompletedAnswerIsWhole
  <2>1. SUFFICES ASSUME StateOK, AttemptInv, AloneInv, WritingInv, EndInv,
                        AnswersInv, Unstalled, AllRead,
                        NEW g \in Callers, Said(g, "completed")
                 PROVE  LET listed == {s \in Sizes :
                                         reply[g].images[s] # NoRow} IN
                        /\ listed = Asked(reply[g].req)
                        /\ reply[g].errors = {} /\ reply[g].error = "none"
                        /\ Undisturbed =>
                             \A s \in listed : reply[g].images[s] # EmptyPath
    BY DEF CompletedAnswerIsWhole
  <2>2. PICK r \in Requests : /\ reply[g].req = r /\ reply[g] = Final(r)
                              /\ row[r].status = "completed"
    BY <2>1 DEF AnswersInv, FinalOf, FoundOf, Said
  <2>3. /\ Finished(r) = Asked(r) /\ Recorded(r) = Asked(r)
        /\ Undisturbed => Served(r) = Asked(r)
    BY <2>1, <2>2, CompletedIsWhole DEF AllRead
  <2>4. \A s \in Sizes : reply[g].images[s] = IF s \in Finished(r)
                                                THEN output[r][s] ELSE NoRow
    BY <2>2 DEF Final, Finished
  <2>5. {s \in Sizes : reply[g].images[s] # NoRow} = Asked(r)
    BY <2>3, <2>4 DEF Asked, Recorded
  <2>6. reply[g].errors = {} /\ reply[g].error = "none"
    BY <2>2 DEF Final
  <2>7. ASSUME Undisturbed, NEW s \in Asked(r)
        PROVE  reply[g].images[s] # EmptyPath
    BY <2>3, <2>4, <2>7 DEF Served, Asked
  <2>8. QED
    BY <2>2, <2>5, <2>6, <2>7
<1>2. ApiSpec /\ []OneAttempt =>
        []StateOK /\ []AttemptInv /\ []AloneInv /\ []WritingInv /\ []EndInv
  BY ApiRefinesPipeline, StateTyped, AttemptsAreSound, LoneAttemptsAgree,
     WorkIsAccountedFor, LoneAttemptsEnd, PTL
<1>3. QED
  BY <1>1, <1>2, AnswersAgree, PTL

\* A client told "completed" is told nothing else of that request afterwards.
THEOREM CompletedAnswersAreFinal ==
  ApiSpec /\ []OneAttempt /\ []Unstalled => CompletedIsFinal
<1>1. /\ StateOK /\ AloneInv /\ WritingInv /\ EndInv /\ ApiInv /\ AnswersInv
      /\ Unstalled /\ [ApiNext]_apiVars
      => [\A g \in Callers :
            AllRead' /\ Said(g, "completed") /\ reply'[g].code = 200
            /\ reply'[g].req = reply[g].req => reply'[g] = reply[g]]_apiVars
  BY NextKeepsFinal DEF WritingInv, EndInv, ApiInv, AnswersInv
<1>2. ApiSpec /\ []OneAttempt =>
        []StateOK /\ []AloneInv /\ []WritingInv /\ []EndInv
  BY ApiRefinesPipeline, StateTyped, LoneAttemptsAgree,
     WorkIsAccountedFor, LoneAttemptsEnd, PTL
<1>3. QED
  BY <1>1, <1>2, AnswersAgree, ApiInvariance, PTL DEF ApiSpec, CompletedIsFinal

\* Store and Retry answer with the outcome of their own run, if nobody retries
\* the request again before they have read it.
THEOREM ServicesAnswerWithOutcome ==
  ApiSpec /\ []OneAttempt /\ []LoadsAlone => []StoreAnswersWithOutcome
<1> DEFINE I == \A h \in Handlers : OutcomeOf(h)
<1>1. /\ StateOK /\ AttemptInv /\ EndInv /\ ApiInv /\ AnswersInv
      /\ LoadsAlone /\ I /\ [ApiNext]_apiVars
      => I'
  BY NextKeepsOutcome DEF AttemptInv, EndInv, ApiInv, AnswersInv
<1>2. ApiInit => I
  BY InitAnswers
<1>3. I => StoreAnswersWithOutcome
  BY DEF OutcomeOf, StoreAnswersWithOutcome
<1>4. ApiSpec /\ []OneAttempt => []StateOK /\ []AttemptInv /\ []EndInv
  BY ApiRefinesPipeline, StateTyped, AttemptsAreSound, LoneAttemptsEnd, PTL
<1> HIDE DEF I
<1>5. QED
  BY <1>1, <1>2, <1>3, <1>4, AnswersAgree, ApiInvariance, PTL DEF ApiSpec

\* With one handler there is nobody to retry a request that is being loaded.
LEMMA LoneHandlerLoadsAlone ==
  ASSUME NEW h, Handlers = {h}
  PROVE  ApiSpec => []OneAttempt /\ []LoadsAlone
<1>1. OneAttempt /\ LoadsAlone
  BY DEF OneAttempt, LoadsAlone
<1>2. QED
  BY <1>1, PTL

\* So a server with one handler, any number of readers, and no lost heartbeats
\* answers as it should without further hypotheses.
THEOREM LoneServerAnswers ==
  ASSUME NEW h, Handlers = {h}, MaxStalls = 0
  PROVE  ApiSpec => /\ []NothingIsUnaccounted /\ []CompletedAnswerIsWhole
                    /\ []StoreAnswersWithOutcome /\ CompletedIsFinal
                    /\ []UrlsResolve
<1>1. ApiSpec => []OneAttempt /\ []LoadsAlone
  BY LoneHandlerLoadsAlone
<1>2. ApiSpec => []Unstalled
  <2>1. Spec => []Unstalled
    BY NoStalls
  <2>2. QED
    BY <2>1, ApiRefinesPipeline, PTL
<1>3. QED
  BY <1>1, <1>2, AnswersAccountForAll, CompletedAnswersAreWhole,
     ServicesAnswerWithOutcome, CompletedAnswersAreFinal, AnswersResolve, PTL
=============================================================================
