------------------------------ MODULE ImageApi ------------------------------
(***************************************************************************)
(* The JSON API over the pipeline: what Store, Retry and Show answer.  All  *)
(* three end in loadRequestDetail, which reads the request, its sizes and  *)
(* its outputs in three statements outside any transaction, while other    *)
(* goroutines go on.  Answers are kept because clients do: reply holds the *)
(* last one that a reader's client received, or the answer to the last     *)
(* Store or Retry.                                                         *)
(***************************************************************************)
EXTENDS ImagePipeline

CONSTANT Readers   \* goroutines that serve Show

ASSUME ApiAssumption == Readers \cap Handlers = {}

VARIABLES
  view,      \* local variables of loadRequestDetail
  reply,     \* the last answer delivered (code 0: none)
  readFaults \* how many of those statements have failed

apiVars == <<vars, view, reply, readFaults>>

Callers == Handlers \cup Readers

NoSizes == [s \in Sizes |-> "absent"]
NoRows  == [s \in Sizes |-> NoRow]

\* step: the read about to be made.  reset: a retry has reset the request
\* since its row was read (not a variable of the code).
NoView == [step |-> "none", req |-> NULL, status |-> "absent",
           error |-> "none", sizes |-> NoSizes, reset |-> FALSE]

Views == [step : {"none", "row", "sizes", "outputs"},
          req : Requests \cup {NULL}, status : Statuses, error : ErrorKinds,
          sizes : [Sizes -> SizeStatuses], reset : BOOLEAN]

\* images: the path behind each url, NoRow where the size is not listed.
Replies == [code : {0, 200, 404, 409, 500}, req : Requests \cup {NULL},
            status : Statuses, error : ErrorKinds,
            images : [Sizes -> Nat \cup {NoRow}], errors : SUBSET Sizes,
            reset : BOOLEAN]

Refusal(code) ==
  [code |-> code, req |-> NULL, status |-> "absent", error |-> "none",
   images |-> NoRows, errors |-> {}, reset |-> FALSE]

ApiInit == /\ Init
           /\ view = [g \in Callers |-> NoView]
           /\ reply = [g \in Callers |-> Refusal(0)]
           /\ readFaults = 0

\* A statement fails that the pipeline does not know; same budget.
ReadFault == /\ readFaults + spent["fault"] < MaxFaults
             /\ readFaults' = readFaults + 1

Free(g) == view[g].step = "none"

Answer(g, a) == reply' = [reply EXCEPT ![g] = a]

\* A handler whose answer arrives after http.request_timeout runs on, but
\* the middleware discards the answer.
AnswerInTime(g, a) == Answer(g, a) \/ UNCHANGED reply

RowRead(g, r) == view[g].req = r /\ view[g].step \in {"sizes", "outputs"}

Load(g, r) == view' = [view EXCEPT ![g].step = "row", ![g].req = r]

(***************************************************************************)
(* Store and Retry around the service functions.                           *)
(***************************************************************************)
Submit(h) == /\ Free(h)
             /\ CreateRequest(h) \/ CheckRetryable(h)
             /\ Answer(h, Refusal(0))
             /\ UNCHANGED <<view, readFaults>>

\* A retry of a request that is absent or has nothing to retry; a Store or
\* Retry whose first statement or transaction fails and leaves nothing.
Refuse(h) ==
  /\ At(h, "idle") /\ Free(h)
  /\ \/ /\ \E r \in Requests :
            /\ row[r].status \notin RetryableStatuses
            /\ Answer(h, Refusal(IF row[r].status = "absent" THEN 404
                                                           ELSE 409))
        /\ UNCHANGED readFaults
     \/ ReadFault /\ Answer(h, Refusal(500))
  /\ UNCHANGED <<vars, view>>

\* An error of the service function is answered with 500.
ServiceStatement(h) ==
  /\ PutUploadedFile(h) \/ RecordSourcePath(h) \/ ResetRequest(h)
  /\ IF pc'[h] = "idle" THEN AnswerInTime(h, Refusal(500))
                        ELSE UNCHANGED reply
  /\ view' = [g \in Callers |->
       IF At(h, "reset") /\ pc'[h] # "idle" /\ RowRead(g, call[h].req)
         THEN [view[g] EXCEPT !.reset = TRUE] ELSE view[g]]
  /\ UNCHANGED readFaults

ReturnTrustingCopy(h) ==
  /\ Return(h)
  /\ Answer(h, [Refusal(200) EXCEPT !.req = call[h].req, !.status = "pending"])
  /\ UNCHANGED <<view, readFaults>>

\* The error of ProcessImageRequestSync is dropped: the row tells.
ReturnAndLoad(h) == /\ Load(h, call[h].req)
                    /\ Return(h)
                    /\ UNCHANGED <<reply, readFaults>>

Show(c) == /\ Free(c)
           /\ \E r \in Requests : Load(c, r)
           /\ UNCHANGED <<vars, reply, readFaults>>

(***************************************************************************)
(* loadRequestDetail.  Errors of the second and third read are dropped and *)
(* leave an empty slice.                                                   *)
(***************************************************************************)
Vanished(g) == Refusal(IF g \in Readers THEN 404 ELSE 500)

LoadRow(g) ==
  /\ view[g].step = "row"
  /\ LET found == row[view[g].req] IN
     \/ /\ found.status # "absent"
        /\ view' = [view EXCEPT ![g].step = "sizes",
                                ![g].status = found.status,
                                ![g].error = found.error]
        /\ UNCHANGED <<reply, readFaults>>
     \/ /\ \/ found.status = "absent" /\ UNCHANGED readFaults
           \/ ReadFault
        /\ view' = [view EXCEPT ![g] = NoView]
        /\ AnswerInTime(g, Vanished(g))
  /\ UNCHANGED vars

LoadRequestSizes(g) ==
  /\ view[g].step = "sizes"
  /\ \/ /\ view' = [view EXCEPT ![g].step = "outputs",
                                ![g].sizes = sizeStatus[view[g].req]]
        /\ UNCHANGED readFaults
     \/ /\ ReadFault
        /\ view' = [view EXCEPT ![g].step = "outputs"]
  /\ UNCHANGED <<vars, reply>>

RequestDetailOfSuccesses(v, found) ==
  [code |-> 200, req |-> v.req, status |-> v.status, error |-> v.error,
   images |-> [s \in Sizes |->
                 IF v.sizes[s] = "completed" THEN found[s] ELSE NoRow],
   errors |-> {}, reset |-> v.reset]

RequestDetailGuessingUrls(v, found) ==
  [code |-> 200, req |-> v.req, status |-> v.status, error |-> v.error,
   images |-> [s \in Sizes |-> IF v.sizes[s] = "completed"
                                 THEN row[v.req].hash ELSE NoRow],
   errors |-> {s \in Sizes : v.sizes[s] = "failed"}, reset |-> v.reset]

\* Sizes are listed by their own status, not by their output.
RequestDetail(v, found) ==
  [code |-> 200, req |-> v.req, status |-> v.status, error |-> v.error,
   images |-> [s \in Sizes |->
                 IF v.sizes[s] = "completed" THEN found[s] ELSE NoRow],
   errors |-> {s \in Sizes : v.sizes[s] = "failed"},
   reset |-> v.reset]

LoadOutputsAndStatus(g) ==
  /\ view[g].step = "outputs"
  /\ LET r == view[g].req IN
       Answer(g, [RequestDetail(view[g], output[r]) EXCEPT
                    !.status = row[r].status])
  /\ view' = [view EXCEPT ![g] = NoView]
  /\ UNCHANGED <<vars, readFaults>>

LoadOutputs(g) ==
  /\ view[g].step = "outputs"
  /\ \/ /\ AnswerInTime(g, RequestDetail(view[g], output[view[g].req]))
        /\ UNCHANGED readFaults
     \/ /\ ReadFault
        /\ AnswerInTime(g, RequestDetail(view[g], NoRows))
  /\ view' = [view EXCEPT ![g] = NoView]
  /\ UNCHANGED vars

Read(g) == LoadRow(g) \/ LoadRequestSizes(g) \/ LoadOutputs(g)

\* The death of the process takes the readers too.
Die == /\ \/ Crash
          \/ (\A h \in Handlers : At(h, "idle")) /\ UNCHANGED vars
       /\ view' = [g \in Callers |-> NoView]
       /\ UNCHANGED <<reply, readFaults>>

ApiNext ==
  \/ \E h \in Handlers :
       \/ Submit(h) \/ Refuse(h) \/ ServiceStatement(h)
       \/ ReturnAndLoad(h)
       \/ /\ Acquire(h) \/ RunJob(h) \/ Tick(h)
          /\ UNCHANGED <<view, reply, readFaults>>
  \/ \E c \in Readers : Show(c)
  \/ \E g \in Callers : Read(g)
  \/ /\ \/ SweepStaleProcessingRequests
        \/ \E r \in Requests : Lapse(r) \/ Stall(r)
     /\ UNCHANGED <<view, reply, readFaults>>
  \/ Die

ApiSpec == ApiInit /\ [][ApiNext]_apiVars

ApiTypeOK ==
  /\ TypeOK
  /\ view \in [Callers -> Views]
  /\ reply \in [Callers -> Replies]
  /\ readFaults \in Nat

Said(g, status) == reply[g].code = 200 /\ reply[g].status = status

(***************************************************************************)
(* Properties of one attempt at a time and any number of readers.          *)
(***************************************************************************)
\* Every url that an answer ever gave is the url of a stored object, for ever.
\* Only after a failing statement or the death of the process may it be that
\* of an empty path, which is the bucket itself.  Sizes are read before their
\* outputs, a size is marked completed after its path was recorded, and that
\* after the object was stored.
UrlsResolve ==
  \A g \in Callers : \A s \in Sizes :
    LET path == reply[g].images[s] IN
    path # NoRow => IF path = EmptyPath THEN ~Undisturbed
                                        ELSE <<reply[g].req, s, path>> \in bucket

\* No statement has failed, the reads included.
AllRead == Faultless /\ readFaults = 0

\* An answer that says "completed" is whole although it was put together
\* from three reads: it has every size asked for, no error, and a url behind
\* each of them unless a process died on the request.  The row is read first,
\* so the sizes and outputs are never older than the status.
CompletedAnswerIsWhole ==
  \A g \in Callers : AllRead /\ Said(g, "completed") =>
    LET listed == {s \in Sizes : reply[g].images[s] # NoRow} IN
    /\ listed = Asked(reply[g].req)
    /\ reply[g].errors = {} /\ reply[g].error = "none"
    /\ Undisturbed => \A s \in listed : reply[g].images[s] # EmptyPath

\* An answer with the outcome of an attempt accounts for every size, either
\* as an image or as an error, unless a retry reset the request in between.
NothingIsUnaccounted ==
  \A g \in Callers :
    LET a == reply[g]
        listed == {s \in Sizes : a.images[s] # NoRow}
    IN AllRead /\ a.code = 200 /\ a.status \in TerminalStatuses
       /\ a.error = "none" /\ ~a.reset =>
         a.errors = Asked(a.req) \ listed

\* A client told "completed" has the final images: whatever it is told of
\* that request afterwards is the same.  (Another client's answer may still
\* be older, from a row read before.)
CompletedIsFinal ==
  [][\A g \in Callers :
       AllRead' /\ Said(g, "completed") /\ reply'[g].code = 200
       /\ reply'[g].req = reply[g].req => reply'[g] = reply[g]]_apiVars

\* One call in, final images out: Store and Retry answer with an outcome and
\* never with the state before the run, as long as no statement fails.
StoreAnswersWithOutcome ==
  \A h \in Handlers :
    AllRead /\ reply[h].code = 200 => reply[h].status \in TerminalStatuses
=============================================================================
